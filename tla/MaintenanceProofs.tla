-------------------------- MODULE MaintenanceProofs --------------------------
(***************************************************************************)
(* For every set of books, series, requests and operations, and every      *)
(* number of runs: of all runs under way each is the one its key is        *)
(* reserved for, a reservation without a run behind it is one whose rows   *)
(* were removed under the job, results add up, and the rows live as        *)
(* RunLifecycle promises.                                                  *)
(*                                                                         *)
(* A run is known by its ID alone while it is in the channel, and its key  *)
(* only by its row, which a scan may remove: the invariant follows the key *)
(* from the request into the row, and from the row into the worker.        *)
(***************************************************************************)
EXTENDS Maintenance, FiniteSetTheorems, TLAPS

RowState     == [key : MaybeKey, series : Series \cup {None}, cancel : BOOLEAN, n : Counts,
                 status : {"none", "gone"} \cup Live \cup Terminal]
WorkerState  == [pc : {"idle", "read", "mark", "list", "progress", "check", "build", "finish", "release"},
                 run : 0..MaxRuns, key : MaybeKey, series : Series \cup {None},
                 todo : SUBSET Books, n : Counts, outcome : {"none"} \cup Terminal]
RequestState == [pc : {"idle", "reserve", "insert", "readback", "send"}, key : MaybeKey,
                 series : Series \cup {None}, total : Items, run : 0..MaxRuns]

(* Who is past its first step knows its key, and its run once it has one;  *)
(* only a series_index has more than one item to count.                    *)
Holding ==
    /\ \A p \in Requests : request[p].pc # "idle" =>
          /\ request[p].key \in Keys /\ request[p].series \in Series
          /\ request[p].key[1] # "series_index" => request[p].total = 1
    /\ \A p \in Requests : Carrying(p) => request[p].run \in Runs
    /\ Working => work.run \in Runs
    /\ Working /\ work.pc # "read" => work.key \in Keys

(* No two carry the same run, and no run is reserved twice. *)
CarriersApart ==
    /\ \A p, q \in Requests : Carrying(p) /\ Carrying(q) /\ request[p].run = request[q].run => p = q
    /\ \A p \in Requests, i \in 1..Len(jobs) : Carrying(p) => request[p].run # jobs[i]
    /\ Working => \A p \in Requests : Carrying(p) => request[p].run # work.run
    /\ Working => \A i \in 1..Len(jobs) : jobs[i] # work.run
    /\ \A k, m \in Keys : queued[k] = queued[m] /\ queued[k] # 0 => k = m

(* What stands in the row of a run while somebody carries it. *)
RowsAgree ==
    /\ \A r \in Runs : IF row[r].status = "none" THEN row[r] = NoRow
                       ELSE row[r].key \in Keys /\ row[r].series \in Series
    /\ \A p \in Requests :
          /\ request[p].pc = "insert" => row[request[p].run].status = "none"
          /\ request[p].pc \in {"readback", "send"} =>
                /\ row[request[p].run].status \in {"queued", "gone"}
                /\ row[request[p].run].key = request[p].key
    /\ \A i \in 1..Len(jobs) : row[jobs[i]].status \in {"queued", "gone"}

(* The same of the worker's run, whose row it alone ends. *)
WorkAgrees ==
    /\ Working => row[work.run].status # "none"
    /\ work.pc \in {"read", "mark"} => row[work.run].status \in {"queued", "gone"}
    /\ work.pc \in {"list", "check"} =>
          row[work.run].status \in {"running", "gone"} \/ (row[work.run].status = "queued" /\ closing)
    /\ work.pc \in {"progress", "build"} => row[work.run].status \in {"running", "gone"}
    /\ work.pc = "finish" =>
          /\ work.outcome \in Terminal
          /\ row[work.run].status \in {"queued", "running", "gone"}
          /\ work.outcome \in {"success", "partial"} => row[work.run].status \in {"running", "gone"}

(* A run that has not started has processed nothing. *)
CountsAgree ==
    \A r \in Runs : row[r].status = "queued" =>
       /\ row[r].n.done = 0 /\ row[r].n.failed = 0
       /\ row[r].key[1] # "series_index" => row[r].n.total = 1

(* What is processed and what is left to do are all there is: books for a  *)
(* series_index, the one cover or the one book otherwise.                  *)
Unstarted == work.n.done = 0 /\ work.n.failed = 0

WorkAddsUp ==
    /\ work.pc \in {"mark", "list"} =>
          Unstarted /\ (work.key[1] # "series_index" => work.n.total = 1)
    /\ work.pc = "list" => work.key[1] # "series_thumbnail"
    /\ work.pc \in {"read", "mark"} => work.todo = {}
    /\ work.pc = "progress" =>
          /\ work.key[1] # "book_index"
          /\ work.key[1] = "series_thumbnail" => work.todo = {}
          /\ Processed(work.n) + Cardinality(work.todo) = work.n.total
    /\ work.pc \in {"check", "build"} =>
          \/ /\ work.key[1] = "series_index" /\ work.todo # {}
             /\ Processed(work.n) + Cardinality(work.todo) = work.n.total
          \/ work.key[1] = "series_thumbnail" /\ work.todo = {} /\ Unstarted /\ work.n.total = 1
          \/ work.key[1] = "book_index" /\ work.pc = "build" /\ Unstarted /\ work.n.total = 1
    /\ work.pc = "finish" =>
          /\ Processed(work.n) <= work.n.total
          /\ work.outcome \in {"success", "partial"} => Processed(work.n) = work.n.total
          /\ work.outcome = "success" => work.n.failed = 0
          /\ work.outcome = "partial" => work.n.failed \in 1..work.n.total - 1

JobsInv ==
    /\ TypeOK /\ Holding
    /\ CarriedRunsReserved /\ CarriersApart /\ LeakOnlyByCascade
    /\ RowsAgree /\ WorkAgrees
    /\ CountsAgree /\ WorkAddsUp /\ ResultsAddUp

-----------------------------------------------------------------------------
(* Types.                                                                  *)

LEMMA Bounds ==
    /\ ChanCap \in Nat \ {0} /\ MaxRuns \in Nat /\ MaxChanges \in Nat /\ MaxRestarts \in Nat
    /\ IsFiniteSet(Books) /\ None \notin Series
BY MaintenanceAssumption DEF MaintenanceAssumption

LEMMA KeyTypes ==
    ASSUME NEW k \in Keys
    PROVE  /\ k[1] \in {"book_index", "series_index", "series_thumbnail"}
           /\ IF k[1] = "book_index" THEN k[2] \in Books /\ k = <<"book_index", k[2]>> ELSE k[2] \in Series
           /\ k # <<>>
<1>1. Ops \subseteq {"book_index", "series_index", "series_thumbnail"}
  BY MaintenanceAssumption DEF MaintenanceAssumption
<1>2. CASE k \in (Ops \cap {"book_index"}) \X Books
  <2>1. k[1] = "book_index" /\ k[2] \in Books /\ k = <<k[1], k[2]>> /\ Len(k) = 2
    BY <1>2
  <2> QED
    BY <2>1
<1>3. CASE k \in (Ops \ {"book_index"}) \X Series
  <2>1. k[1] \in {"series_index", "series_thumbnail"} /\ k[2] \in Series
    BY <1>1, <1>3
  <2>2. k # <<>>
    BY <1>3
  <2> QED
    BY <2>1, <2>2
<1> QED
  BY <1>2, <1>3 DEF Keys

(* Books are finitely many, so that what is left of them can be counted. *)
LEMMA BookCount ==
    ASSUME NEW S \in SUBSET Books
    PROVE  /\ IsFiniteSet(S) /\ Cardinality(S) \in Nat /\ Cardinality(S) <= Cardinality(Books)
           /\ Cardinality(S) = 0 <=> S = {}
<1>1. IsFiniteSet(S) /\ Cardinality(S) <= Cardinality(Books)
  BY Bounds, FS_Subset
<1>2. Cardinality(S) \in Nat
  BY <1>1, FS_CardinalityType
<1>3. Cardinality(S) = 0 <=> S = {}
  BY <1>1, FS_EmptySet
<1> QED
  BY <1>1, <1>2, <1>3

LEMMA OneBookLess ==
    ASSUME NEW S \in SUBSET Books, NEW b \in S
    PROVE  S \ {b} \in SUBSET Books /\ Cardinality(S \ {b}) = Cardinality(S) - 1
<1>1. IsFiniteSet(S)
  BY BookCount
<1> QED
  BY <1>1, FS_RemoveElement

LEMMA ItemRange == Cardinality(Books) \in Nat /\ 0 \in Items /\ 1 \in Items /\ Items \subseteq Nat
<1>1. Cardinality(Books) \in Nat
  BY BookCount
<1> QED
  BY <1>1 DEF Items

LEMMA IdleTypes ==
    /\ NoCounts \in Counts /\ NoCounts.done = 0 /\ NoCounts.failed = 0 /\ NoCounts.total = 0
    /\ NoRow \in RowState /\ NoRow.status = "none" /\ NoRow.n = NoCounts
    /\ NoRow.cancel = FALSE /\ NoRow.series = None /\ NoRow.key = <<>>
    /\ IdleWorker \in WorkerState /\ IdleWorker.pc = "idle" /\ IdleWorker.todo = {}
    /\ IdleRequest \in RequestState /\ IdleRequest.pc = "idle"
<1>1. NoCounts \in Counts /\ NoCounts.done = 0 /\ NoCounts.failed = 0 /\ NoCounts.total = 0
  BY ItemRange DEF NoCounts, Counts
<1>2. <<>> \in MaybeKey /\ 0 \in 0..MaxRuns /\ 0 \in Items
  BY Bounds, ItemRange DEF MaybeKey
<1>3. /\ NoRow \in RowState /\ NoRow.status = "none" /\ NoRow.n = NoCounts
      /\ NoRow.cancel = FALSE /\ NoRow.series = None /\ NoRow.key = <<>>
  BY <1>1, <1>2 DEF NoRow, RowState
<1>4. IdleWorker \in WorkerState /\ IdleWorker.pc = "idle" /\ IdleWorker.todo = {}
  BY <1>1, <1>2 DEF IdleWorker, WorkerState
<1>5. IdleRequest \in RequestState /\ IdleRequest.pc = "idle"
  BY <1>2 DEF IdleRequest, RequestState
<1> QED
  BY <1>1, <1>3, <1>4, <1>5

LEMMA Typed ==
    ASSUME JobsInv
    PROVE  /\ series \subseteq Series /\ home \in [Books -> series \cup {None}]
           /\ row \in [Runs -> RowState]
           /\ queued \in [Keys -> 0..MaxRuns]
           /\ jobs \in Seq(Runs) /\ Len(jobs) \in Nat
           /\ work \in WorkerState
           /\ request \in [Requests -> RequestState]
           /\ \A i \in 1..Len(jobs) : jobs[i] \in Runs
BY DEF JobsInv, TypeOK, RowState, WorkerState, RequestState

LEMMA Counted ==
    ASSUME JobsInv
    PROVE  /\ work.n \in Counts /\ work.todo \in SUBSET Books
           /\ work.n.done \in Nat /\ work.n.failed \in Nat /\ work.n.total \in Items /\ work.n.total \in Nat
           /\ Cardinality(work.todo) \in Nat
           /\ \A r \in Runs : /\ row[r] \in RowState /\ row[r].n \in Counts
                              /\ row[r].n.done \in Nat /\ row[r].n.failed \in Nat /\ row[r].n.total \in Nat
<1>1. work \in WorkerState /\ \A r \in Runs : row[r] \in RowState
  BY Typed
<1>2. work.n \in Counts /\ work.todo \in SUBSET Books /\ \A r \in Runs : row[r].n \in Counts
  BY <1>1 DEF WorkerState, RowState
<1>3. Cardinality(work.todo) \in Nat
  BY <1>2, BookCount
<1> QED
  BY <1>1, <1>2, <1>3, ItemRange DEF Counts

(* The property speaks of the channel as a set. *)
LEMMA Reserved ==
    CarriedRunsReserved <=>
      /\ \A p \in Requests : Carrying(p) => queued[request[p].key] = request[p].run
      /\ \A i \in 1..Len(jobs) : queued[row[jobs[i]].key] = jobs[i]
      /\ Working => queued[row[work.run].key] = work.run
      /\ Working /\ work.pc # "read" => work.key = row[work.run].key
      /\ \A i, j \in 1..Len(jobs) : jobs[i] = jobs[j] => i = j
BY DEF CarriedRunsReserved, JobsRuns

LEMMA ReservedNext ==
    CarriedRunsReserved' <=>
      /\ \A p \in Requests : Carrying(p)' => queued'[request'[p].key] = request'[p].run
      /\ \A i \in 1..Len(jobs') : queued'[row'[jobs'[i]].key] = jobs'[i]
      /\ Working' => queued'[row'[work'.run].key] = work'.run
      /\ Working' /\ work'.pc # "read" => work'.key = row'[work'.run].key
      /\ \A i, j \in 1..Len(jobs') : jobs'[i] = jobs'[j] => i = j
BY DEF CarriedRunsReserved, JobsRuns

LEMMA InCarried ==
    ASSUME NEW r
    PROVE  r \in Carried <=> \/ \E p \in Requests : Carrying(p) /\ request[p].run = r
                             \/ \E i \in 1..Len(jobs) : jobs[i] = r
                             \/ Working /\ work.run = r
BY DEF Carried, JobsRuns

LEMMA InCarriedNext ==
    ASSUME NEW r
    PROVE  r \in Carried' <=> \/ \E p \in Requests : Carrying(p)' /\ request'[p].run = r
                              \/ \E i \in 1..Len(jobs') : jobs'[i] = r
                              \/ Working' /\ work'.run = r
BY DEF Carried, JobsRuns

LEMMA InitInv == Init => JobsInv
<1> SUFFICES ASSUME Init PROVE JobsInv
  OBVIOUS
<1>1. TypeOK
  <2>1. row \in [Runs -> RowState] /\ work \in WorkerState /\ request \in [Requests -> RequestState]
    BY IdleTypes DEF Init
  <2>2. jobs \in Seq(Runs) /\ Len(jobs) <= ChanCap
    BY Bounds DEF Init
  <2>3. queued \in [Keys -> 0..MaxRuns] /\ changes \in 0..MaxChanges /\ restarts \in 0..MaxRestarts
    BY Bounds DEF Init
  <2>4. series \subseteq Series /\ home \in [Books -> series \cup {None}] /\ closing \in BOOLEAN
    BY DEF Init
  <2> QED
    BY <2>1, <2>2, <2>3, <2>4 DEF TypeOK, RowState, WorkerState, RequestState
<1>2. /\ \A p \in Requests : request[p].pc = "idle"
      /\ work.pc = "idle" /\ Len(jobs) = 0
      /\ \A k \in Keys : queued[k] = 0
      /\ \A r \in Runs : row[r] = NoRow
  BY IdleTypes DEF Init
<1>3. Holding /\ CarriersApart /\ LeakOnlyByCascade
  BY <1>2 DEF Holding, CarriersApart, LeakOnlyByCascade, Carrying, Working
<1>4. CarriedRunsReserved
  BY <1>2, Reserved DEF Carrying, Working
<1>5. RowsAgree /\ WorkAgrees
  BY <1>2, IdleTypes DEF RowsAgree, WorkAgrees, Working
<1>6. CountsAgree /\ WorkAddsUp /\ ResultsAddUp
  BY <1>2, IdleTypes DEF CountsAgree, WorkAddsUp, ResultsAddUp, Processed
<1> QED
  BY <1>1, <1>3, <1>4, <1>5, <1>6 DEF JobsInv

-----------------------------------------------------------------------------
(* What a step that leaves something alone keeps.                          *)

(* Rows keep their keys, and do not come back. *)
RowsStay ==
    \A r \in Runs : row[r].status # "none" =>
       row'[r].key = row[r].key /\ (row[r].status = "gone" => row'[r].status = "gone")

(* Every carrier carries what it carried. *)
SameCarriers ==
    /\ UNCHANGED <<queued, jobs>> /\ RowsStay
    /\ closing => closing'
    /\ \A p \in Requests :
          /\ Carrying(p)' <=> Carrying(p)
          /\ Carrying(p) => request'[p].run = request[p].run /\ request'[p].key = request[p].key
    /\ Working' <=> Working
    /\ Working => /\ work'.run = work.run
                  /\ work'.pc # "read" => work'.key = row[work.run].key

LEMMA SameCarriersKeeps ==
    ASSUME JobsInv, SameCarriers
    PROVE  CarriedRunsReserved' /\ CarriersApart' /\ LeakOnlyByCascade'
<1>1. CarriedRunsReserved'
  <2>1. \A i \in 1..Len(jobs) : row'[jobs[i]].key = row[jobs[i]].key
    BY Typed DEF JobsInv, RowsAgree, SameCarriers, RowsStay
  <2>2. Working => row'[work.run].key = row[work.run].key
    BY DEF JobsInv, Holding, WorkAgrees, SameCarriers, RowsStay
  <2>3. CarriedRunsReserved
    BY DEF JobsInv
  <2> QED
    BY <2>1, <2>2, <2>3, Reserved, ReservedNext DEF SameCarriers
<1>2. CarriersApart'
  BY DEF JobsInv, SameCarriers, CarriersApart
<1>3. LeakOnlyByCascade'
  <2> SUFFICES ASSUME ~closing', NEW k \in Keys, queued[k] # 0
               PROVE  queued[k] \in Carried' \/ row'[queued[k]].status = "gone"
    BY DEF LeakOnlyByCascade, SameCarriers
  <2>1. queued[k] \in Runs
    BY Typed, Bounds DEF Runs
  <2>2. queued[k] \in Carried \/ row[queued[k]].status = "gone"
    BY DEF JobsInv, LeakOnlyByCascade, SameCarriers
  <2>3. CASE row[queued[k]].status = "gone"
    BY <2>1, <2>3 DEF SameCarriers, RowsStay
  <2>4. CASE queued[k] \in Carried
    BY <2>4, InCarried, InCarriedNext DEF SameCarriers
  <2> QED
    BY <2>2, <2>3, <2>4
<1> QED
  BY <1>1, <1>2, <1>3

LEMMA SameRowsKeep ==
    ASSUME JobsInv, UNCHANGED <<row, work>>, closing => closing'
    PROVE  WorkAgrees' /\ CountsAgree' /\ WorkAddsUp' /\ ResultsAddUp' /\ RowsStay
<1>1. WorkAgrees'
  BY DEF JobsInv, WorkAgrees, Working
<1>2. CountsAgree' /\ ResultsAddUp' /\ RowsStay
  BY DEF JobsInv, CountsAgree, ResultsAddUp, RowsStay
<1>3. WorkAddsUp'
  BY DEF JobsInv, WorkAddsUp, Unstarted
<1> QED
  BY <1>1, <1>2, <1>3

(* One request's record is replaced. *)
LEMMA RequestUpdate ==
    ASSUME JobsInv, NEW p \in Requests, NEW s \in RequestState,
           s.pc # "idle" => /\ s.key \in Keys /\ s.series \in Series
                            /\ s.key[1] # "series_index" => s.total = 1,
           s.pc \in {"insert", "readback", "send"} => s.run \in Runs,
           request' = [request EXCEPT ![p] = s], UNCHANGED work
    PROVE  /\ request' \in [Requests -> RequestState] /\ Holding'
           /\ request'[p] = s /\ \A q \in Requests : q # p => request'[q] = request[q]
<1>1. request \in [Requests -> RequestState]
  BY Typed
<1>2. request'[p] = s /\ \A q \in Requests : q # p => request'[q] = request[q]
  BY <1>1
<1>3. Holding'
  BY <1>2 DEF JobsInv, Holding, Carrying, Working
<1> QED
  BY <1>1, <1>2, <1>3

(* A request's step that writes no row. *)
LEMMA RequestRows ==
    ASSUME JobsInv, NEW p \in Requests, UNCHANGED <<row, jobs>>,
           \A q \in Requests : q # p => request'[q] = request[q],
           request'[p].pc = "insert" => row[request'[p].run].status = "none",
           request'[p].pc \in {"readback", "send"} =>
              /\ row[request'[p].run].status \in {"queued", "gone"}
              /\ row[request'[p].run].key = request'[p].key
    PROVE  RowsAgree'
BY DEF JobsInv, RowsAgree

(* Nobody else carries the run, or the key, of one who carries it. *)
LEMMA RunOfRequest ==
    ASSUME JobsInv, NEW p \in Requests, Carrying(p)
    PROVE  /\ request[p].run \in Runs /\ request[p].key \in Keys /\ request[p].series \in Series
           /\ queued[request[p].key] = request[p].run
           /\ \A q \in Requests : Carrying(q) /\ q # p =>
                 request[q].run # request[p].run /\ request[q].key # request[p].key
           /\ \A i \in 1..Len(jobs) : jobs[i] # request[p].run /\ row[jobs[i]].key # request[p].key
           /\ Working => work.run # request[p].run /\ row[work.run].key # request[p].key
<1>0. CarriedRunsReserved
  BY DEF JobsInv
<1>1. \A q \in Requests : Carrying(q) => /\ request[q].run \in Runs /\ request[q].key \in Keys
                                        /\ request[q].series \in Series
                                        /\ queued[request[q].key] = request[q].run
  BY <1>0, Reserved DEF JobsInv, Holding, Carrying
<1>2. \A q \in Requests : Carrying(q) /\ q # p => request[q].run # request[p].run
  BY DEF JobsInv, CarriersApart
<1>3. \A i \in 1..Len(jobs) : jobs[i] # request[p].run /\ queued[row[jobs[i]].key] = jobs[i]
  BY <1>0, Reserved DEF JobsInv, CarriersApart
<1>4. Working => work.run # request[p].run /\ queued[row[work.run].key] = work.run
  BY <1>0, Reserved DEF JobsInv, CarriersApart
<1> QED
  BY <1>1, <1>2, <1>3, <1>4

LEMMA RunOfWork ==
    ASSUME JobsInv, Working
    PROVE  /\ work.run \in Runs /\ row[work.run].key \in Keys
           /\ queued[row[work.run].key] = work.run
           /\ \A q \in Requests : Carrying(q) =>
                 request[q].run # work.run /\ request[q].key # row[work.run].key
           /\ \A i \in 1..Len(jobs) : jobs[i] # work.run /\ row[jobs[i]].key # row[work.run].key
           /\ work.pc # "read" => work.key = row[work.run].key
<1>0. CarriedRunsReserved
  BY DEF JobsInv
<1>1. /\ work.run \in Runs /\ row[work.run].key \in Keys /\ queued[row[work.run].key] = work.run
      /\ work.pc # "read" => work.key = row[work.run].key
  BY <1>0, Reserved DEF JobsInv, Holding, WorkAgrees, RowsAgree
<1>2. \A q \in Requests : Carrying(q) => request[q].run # work.run /\ queued[request[q].key] = request[q].run
  BY <1>0, Reserved DEF JobsInv, CarriersApart
<1>3. \A i \in 1..Len(jobs) : jobs[i] # work.run /\ queued[row[jobs[i]].key] = jobs[i]
  BY <1>0, Reserved DEF JobsInv, CarriersApart
<1> QED
  BY <1>1, <1>2, <1>3

(* Nobody carries a run for a key that is not reserved. *)
LEMMA NobodyCarries ==
    ASSUME JobsInv, NEW k \in Keys, queued[k] = 0
    PROVE  /\ \A q \in Requests : Carrying(q) => request[q].key \in Keys \ {k}
           /\ \A i \in 1..Len(jobs) : jobs[i] \in Runs /\ row[jobs[i]].key \in Keys \ {k}
           /\ Working => work.run \in Runs /\ row[work.run].key \in Keys \ {k}
<1>1. 0 \notin Runs
  BY Bounds DEF Runs
<1>2. \A q \in Requests : Carrying(q) => request[q].key \in Keys \ {k}
  BY <1>1, RunOfRequest
<1>3. \A i \in 1..Len(jobs) : jobs[i] \in Runs /\ row[jobs[i]].key \in Keys /\ queued[row[jobs[i]].key] = jobs[i]
  BY Typed, Reserved DEF JobsInv, RowsAgree
<1> QED
  BY <1>1, <1>2, <1>3, RunOfWork

-----------------------------------------------------------------------------
(* Starting a job.                                                         *)

LEMMA ReadTargetKeeps ==
    ASSUME JobsInv, NEW p \in Requests, NEW k \in Keys, ReadTarget(p, k)
    PROVE  JobsInv'
<1> DEFINE t == IF k[1] = "book_index" THEN home[k[2]] ELSE k[2]
           c == IF k[1] = "series_index" THEN Cardinality(BooksIn(t)) ELSE 1
           s == [pc |-> "reserve", key |-> k, series |-> t, run |-> 0, total |-> c]
<1>1. /\ request' = [request EXCEPT ![p] = s] /\ request[p].pc = "idle" /\ t \in series
      /\ UNCHANGED <<series, home, row, queued, jobs, work, closing, changes, restarts>>
  <2>1. request' = [request EXCEPT ![p] = s] /\ request[p].pc = "idle" /\ t \in series
    BY Zenon DEF ReadTarget
  <2> QED
    BY <2>1 DEF ReadTarget, catalog, mem, bounds
<1>2. c \in Items /\ (k[1] # "series_index" => c = 1)
  <2>1. BooksIn(t) \in SUBSET Books
    BY DEF BooksIn
  <2>2. Cardinality(BooksIn(t)) \in Items
    BY <2>1, BookCount, ItemRange DEF Items
  <2> QED
    BY <2>2, ItemRange
<1>3. t \in Series
  BY <1>1, Typed
<1> HIDE DEF t, c
<1>4. s \in RequestState /\ s.pc = "reserve" /\ s.key = k /\ s.series = t /\ s.total = c
  BY <1>2, <1>3, Bounds DEF RequestState, MaybeKey
<1> HIDE DEF s
<1>5. /\ request' \in [Requests -> RequestState] /\ Holding'
      /\ request'[p] = s /\ \A q \in Requests : q # p => request'[q] = request[q]
  BY <1>1, <1>2, <1>3, <1>4, RequestUpdate
<1>6. SameCarriers
  <2>1. RowsStay
    BY <1>1 DEF RowsStay
  <2>2. Working /\ work.pc # "read" => work.key = row[work.run].key
    BY RunOfWork
  <2> QED
    BY <1>1, <1>4, <1>5, <2>1, <2>2 DEF SameCarriers, Carrying, Working
<1>7. RowsAgree'
  BY <1>1, <1>4, <1>5, RequestRows
<1>8. TypeOK'
  BY <1>1, <1>5 DEF JobsInv, TypeOK, RequestState
<1> QED
  BY <1>1, <1>5, <1>6, <1>7, <1>8, SameCarriersKeeps, SameRowsKeep DEF JobsInv

(* A request that is refused before it has reserved. *)
LEMMA RefusedKeeps ==
    ASSUME JobsInv, NEW p \in Requests, ~Carrying(p),
           request' = [request EXCEPT ![p] = IdleRequest],
           UNCHANGED <<series, home, row, queued, jobs, work, closing, changes, restarts>>
    PROVE  JobsInv'
<1>1. /\ request' \in [Requests -> RequestState] /\ Holding'
      /\ request'[p] = IdleRequest /\ \A q \in Requests : q # p => request'[q] = request[q]
  BY IdleTypes, RequestUpdate
<1>2. SameCarriers
  <2>1. RowsStay
    BY DEF RowsStay
  <2>2. Working /\ work.pc # "read" => work.key = row[work.run].key
    BY RunOfWork
  <2> QED
    BY <1>1, <2>1, <2>2, IdleTypes DEF SameCarriers, Carrying, Working
<1>3. RowsAgree'
  BY <1>1, IdleTypes, RequestRows
<1>4. TypeOK'
  BY <1>1 DEF JobsInv, TypeOK, RequestState
<1> QED
  BY <1>1, <1>2, <1>3, <1>4, SameCarriersKeeps, SameRowsKeep DEF JobsInv

LEMMA ReservedCarriers ==
    ASSUME JobsInv, NEW p \in Requests, NEW k \in Keys, NEW r \in Runs, queued[k] = 0,
           \A m \in Keys : queued'[m] = IF m = k THEN r ELSE queued[m],
           \A m \in Keys : queued[m] # r,
           ~Carrying(p), Carrying(p)', request'[p].key = k, request'[p].run = r,
           \A q \in Requests : q # p => request'[q] = request[q],
           UNCHANGED <<row, jobs, work, closing>>
    PROVE  CarriedRunsReserved' /\ CarriersApart' /\ LeakOnlyByCascade'
<1>0. CarriedRunsReserved
  BY DEF JobsInv
<1>1. \A q \in Requests : q # p => (Carrying(q)' <=> Carrying(q))
  BY DEF Carrying
<1>2. Working' <=> Working
  BY DEF Working
<1>3. \A q \in Requests : Carrying(q) => /\ request[q].key \in Keys \ {k}
                                        /\ queued[request[q].key] = request[q].run /\ request[q].run # r
  BY <1>0, NobodyCarries, Reserved
<1>4. \A i \in 1..Len(jobs) : /\ row[jobs[i]].key \in Keys \ {k}
                             /\ queued[row[jobs[i]].key] = jobs[i] /\ jobs[i] # r
  BY <1>0, NobodyCarries, Reserved
<1>5. Working => /\ row[work.run].key \in Keys \ {k}
                 /\ queued[row[work.run].key] = work.run /\ work.run # r
                 /\ work.pc # "read" => work.key = row[work.run].key
  BY NobodyCarries, RunOfWork
<1>6. CarriedRunsReserved'
  <2>1. \A q \in Requests : Carrying(q)' => queued'[request'[q].key] = request'[q].run
    BY <1>1, <1>3
  <2>2. \A i \in 1..Len(jobs) : queued'[row[jobs[i]].key] = jobs[i]
    BY <1>4
  <2>3. Working => queued'[row[work.run].key] = work.run /\ (work.pc # "read" => work.key = row[work.run].key)
    BY <1>5
  <2>4. \A i, j \in 1..Len(jobs) : jobs[i] = jobs[j] => i = j
    BY <1>0, Reserved
  <2> QED
    BY <1>2, <2>1, <2>2, <2>3, <2>4, ReservedNext
<1>7. CarriersApart'
  <2>1. \A q, o \in Requests : Carrying(q)' /\ Carrying(o)' /\ request'[q].run = request'[o].run => q = o
    BY <1>1, <1>3 DEF JobsInv, CarriersApart
  <2>2. \A q \in Requests, i \in 1..Len(jobs) : Carrying(q)' => request'[q].run # jobs[i]
    BY <1>1, <1>4 DEF JobsInv, CarriersApart
  <2>3. Working => \A q \in Requests : Carrying(q)' => request'[q].run # work.run
    BY <1>1, <1>5 DEF JobsInv, CarriersApart
  <2>4. \A m, n \in Keys : queued'[m] = queued'[n] /\ queued'[m] # 0 => m = n
    BY DEF JobsInv, CarriersApart
  <2>5. Working => \A i \in 1..Len(jobs) : jobs[i] # work.run
    BY DEF JobsInv, CarriersApart
  <2> QED
    BY <1>2, <2>1, <2>2, <2>3, <2>4, <2>5 DEF CarriersApart
<1>8. LeakOnlyByCascade'
  <2> SUFFICES ASSUME ~closing, NEW m \in Keys, queued'[m] # 0
               PROVE  queued'[m] \in Carried' \/ row[queued'[m]].status = "gone"
    BY DEF LeakOnlyByCascade
  <2>1. CASE m = k
    BY <2>1, InCarriedNext
  <2>2. CASE m # k
    <3>1. queued'[m] = queued[m]
      BY <2>2
    <3>2. queued[m] \in Carried \/ row[queued[m]].status = "gone"
      BY <3>1 DEF JobsInv, LeakOnlyByCascade
    <3>3. queued[m] \in Carried => queued[m] \in Carried'
      BY <1>1, <1>2, InCarried, InCarriedNext
    <3> QED
      BY <3>1, <3>2, <3>3
  <2> QED
    BY <2>1, <2>2
<1> QED
  BY <1>6, <1>7, <1>8

LEMMA ReservedKeeps ==
    ASSUME JobsInv, NEW p \in Requests, NEW r \in Runs,
           request[p].pc = "reserve", queued[request[p].key] = 0, Fresh(r),
           queued' = [queued EXCEPT ![request[p].key] = r],
           request' = [request EXCEPT ![p].pc = "insert", ![p].run = r],
           UNCHANGED <<series, home, row, jobs, work, closing, changes, restarts>>
    PROVE  JobsInv'
<1> DEFINE k == request[p].key
           s == [request[p] EXCEPT !.pc = "insert", !.run = r]
<1>0. /\ k \in Keys /\ r \in 0..MaxRuns /\ request[p].series \in Series
      /\ k[1] # "series_index" => request[p].total = 1
  BY Bounds DEF JobsInv, Holding, Runs
<1>1. /\ s \in RequestState /\ s.pc = "insert" /\ s.run = r /\ s.key = k
      /\ s.series = request[p].series /\ s.total = request[p].total
  BY <1>0, Typed DEF RequestState
<1>2. request' = [request EXCEPT ![p] = s]
  OBVIOUS
<1> HIDE DEF s
<1>3. /\ request' \in [Requests -> RequestState] /\ Holding'
      /\ request'[p] = s /\ \A q \in Requests : q # p => request'[q] = request[q]
  <2>1. /\ s.key \in Keys /\ s.series \in Series /\ (s.key[1] # "series_index" => s.total = 1)
        /\ s.run \in Runs
    BY <1>0, <1>1
  <2> QED
    BY <1>1, <1>2, <2>1, RequestUpdate
<1>4. /\ queued' \in [Keys -> 0..MaxRuns]
      /\ \A m \in Keys : queued'[m] = IF m = k THEN r ELSE queued[m]
      /\ \A m \in Keys : queued[m] # r
  BY <1>0, Typed DEF Fresh
<1>5. ~Carrying(p) /\ Carrying(p)'
  BY <1>1, <1>3 DEF Carrying
<1>6. CarriedRunsReserved' /\ CarriersApart' /\ LeakOnlyByCascade'
  BY <1>0, <1>1, <1>3, <1>4, <1>5, ReservedCarriers
<1>7. RowsAgree'
  BY <1>1, <1>3, RequestRows DEF Fresh
<1>8. TypeOK'
  BY <1>3, <1>4 DEF JobsInv, TypeOK, RequestState
<1> QED
  BY <1>3, <1>6, <1>7, <1>8, SameRowsKeep DEF JobsInv

LEMMA ReserveKeeps ==
    ASSUME JobsInv, NEW p \in Requests, Reserve(p)
    PROVE  JobsInv'
<1>1. CASE queued[request[p].key] # 0
  <2>1. ~Carrying(p)
    BY DEF Reserve, Carrying
  <2> QED
    BY <1>1, <2>1, RefusedKeeps DEF Reserve, catalog, bounds
<1>2. CASE queued[request[p].key] = 0
  <2>1. PICK r \in Runs :
           /\ Fresh(r)
           /\ queued' = [queued EXCEPT ![request[p].key] = r]
           /\ request' = [request EXCEPT ![p].pc = "insert", ![p].run = r]
    BY <1>2 DEF Reserve, NewID
  <2>2. request[p].pc = "reserve"
    BY DEF Reserve
  <2>3. UNCHANGED <<series, home, row, jobs, work, closing, changes, restarts>>
    BY DEF Reserve, catalog, bounds
  <2> QED
    BY <1>2, <2>1, <2>2, <2>3, ReservedKeeps
<1> QED
  BY <1>1, <1>2

(* The INSERT: no one else's row. *)
LEMMA OtherRowKeeps ==
    ASSUME JobsInv, NEW r \in Runs, Working => work.run # r,
           \A q \in Runs : q # r => row'[q] = row[q],
           UNCHANGED work, closing => closing'
    PROVE  WorkAgrees' /\ WorkAddsUp'
<1>1. Working => row'[work.run] = row[work.run]
  BY DEF JobsInv, Holding
<1>2. WorkAgrees'
  BY <1>1 DEF JobsInv, WorkAgrees, Working
<1>3. WorkAddsUp'
  BY DEF JobsInv, WorkAddsUp, Unstarted
<1> QED
  BY <1>2, <1>3

LEMMA InsertRunKeeps ==
    ASSUME JobsInv, NEW p \in Requests, InsertRun(p)
    PROVE  JobsInv'
<1> DEFINE r == request[p].run
           s == [request[p] EXCEPT !.pc = "readback"]
           n == [NoCounts EXCEPT !.total = request[p].total]
           x == [key |-> request[p].key, series |-> request[p].series, status |-> "queued",
                 cancel |-> FALSE, n |-> n]
<1>0. Carrying(p) /\ request[p].pc = "insert" /\ request[p] \in RequestState
  BY Typed DEF InsertRun, Carrying
<1>1. /\ s \in RequestState /\ s.pc = "readback" /\ s.run = r /\ s.key = request[p].key
      /\ s.series = request[p].series /\ s.total = request[p].total
  BY <1>0 DEF RequestState
<1>2. /\ request' = [request EXCEPT ![p] = s] /\ row' = [row EXCEPT ![r] = x]
      /\ UNCHANGED <<series, home, queued, jobs, work, closing, changes, restarts>>
  BY DEF InsertRun, catalog, mem, bounds
<1>3. /\ request[p].key \in Keys /\ request[p].series \in Series /\ request[p].total \in Items
      /\ (request[p].key[1] # "series_index" => request[p].total = 1) /\ r \in Runs
  BY <1>0 DEF JobsInv, Holding, RequestState
<1>4. n \in Counts /\ n.done = 0 /\ n.failed = 0 /\ n.total = request[p].total
  BY <1>3, IdleTypes DEF Counts
<1> HIDE DEF s, n
<1>5. /\ x \in RowState /\ x.status = "queued" /\ x.n = n
      /\ x.key = request[p].key /\ x.series = request[p].series
  BY <1>3, <1>4 DEF RowState, Live, MaybeKey
<1> HIDE DEF x
<1>6. /\ request' \in [Requests -> RequestState] /\ Holding'
      /\ request'[p] = s /\ \A q \in Requests : q # p => request'[q] = request[q]
  <2>1. /\ s.key \in Keys /\ s.series \in Series /\ (s.key[1] # "series_index" => s.total = 1)
        /\ s.run \in Runs
    BY <1>1, <1>3
  <2> QED
    BY <1>1, <1>2, <2>1, RequestUpdate
<1>7. row' \in [Runs -> RowState] /\ row'[r] = x /\ \A q \in Runs : q # r => row'[q] = row[q]
  BY <1>2, <1>3, <1>5, Typed
<1>8. row[r].status = "none"
  BY <1>0 DEF JobsInv, RowsAgree
<1>9. CarriedRunsReserved' /\ CarriersApart' /\ LeakOnlyByCascade'
  <2>1. RowsStay
    BY <1>7, <1>8 DEF RowsStay
  <2>2. Working /\ work.pc # "read" => work.key = row[work.run].key
    BY RunOfWork
  <2>3. SameCarriers
    BY <1>0, <1>1, <1>2, <1>6, <2>1, <2>2 DEF SameCarriers, Carrying, Working
  <2> QED
    BY <2>3, SameCarriersKeeps
<1>10. Working => work.run # r
  BY <1>0, RunOfRequest
<1>11. \A i \in 1..Len(jobs) : jobs[i] \in Runs /\ jobs[i] # r
  BY <1>0, Typed, RunOfRequest
<1>12. \A q \in Requests : Carrying(q) /\ q # p => request[q].run \in Runs /\ request[q].run # r
  BY <1>0, RunOfRequest DEF JobsInv, Holding
<1> HIDE DEF r
<1>13. RowsAgree'
  <2>1. ASSUME NEW q \in Requests
        PROVE  /\ request'[q].pc = "insert" => row'[request'[q].run].status = "none"
               /\ request'[q].pc \in {"readback", "send"} =>
                     /\ row'[request'[q].run].status \in {"queued", "gone"}
                     /\ row'[request'[q].run].key = request'[q].key
    <3>1. CASE q = p
      BY <1>1, <1>5, <1>6, <1>7, <3>1
    <3>2. CASE q # p
      BY <1>6, <1>7, <1>12, <3>2 DEF JobsInv, RowsAgree, Carrying
    <3> QED
      BY <3>1, <3>2
  <2>2. \A i \in 1..Len(jobs) : row'[jobs[i]].status \in {"queued", "gone"}
    BY <1>7, <1>11 DEF JobsInv, RowsAgree
  <2>3. \A q \in Runs : IF row'[q].status = "none" THEN row'[q] = NoRow
                        ELSE row'[q].key \in Keys /\ row'[q].series \in Series
    BY <1>3, <1>5, <1>7 DEF JobsInv, RowsAgree
  <2> QED
    BY <1>2, <2>1, <2>2, <2>3 DEF RowsAgree
<1>14. WorkAgrees' /\ WorkAddsUp'
  BY <1>2, <1>3, <1>7, <1>10, OtherRowKeeps
<1>15. CountsAgree' /\ ResultsAddUp'
  <2>1. Processed(n) <= n.total
    <3>1. n.total \in Nat /\ n.done = 0 /\ n.failed = 0
      BY <1>3, <1>4, ItemRange
    <3> QED
      BY <3>1 DEF Processed
  <2>2. CountsAgree'
    BY <1>3, <1>4, <1>5, <1>7 DEF JobsInv, CountsAgree
  <2>3. ResultsAddUp'
    BY <1>5, <1>7, <2>1 DEF JobsInv, ResultsAddUp
  <2> QED
    BY <2>2, <2>3
<1>16. TypeOK'
  BY <1>2, <1>6, <1>7 DEF JobsInv, TypeOK, RequestState, RowState
<1> QED
  BY <1>6, <1>9, <1>13, <1>14, <1>15, <1>16 DEF JobsInv

LEMMA ReadBackKeeps ==
    ASSUME JobsInv, NEW p \in Requests, ReadBack(p)
    PROVE  JobsInv'
<1> DEFINE s == [request[p] EXCEPT !.pc = "send"]
<1>0. Carrying(p) /\ request[p].pc = "readback" /\ request[p] \in RequestState
  BY Typed DEF ReadBack, Carrying
<1>1. /\ s \in RequestState /\ s.pc = "send" /\ s.run = request[p].run /\ s.key = request[p].key
      /\ s.series = request[p].series /\ s.total = request[p].total
  BY <1>0 DEF RequestState
<1>2. /\ request' = [request EXCEPT ![p] = s]
      /\ UNCHANGED <<series, home, row, queued, jobs, work, closing, changes, restarts>>
  BY DEF ReadBack, catalog, mem, bounds
<1> HIDE DEF s
<1>3. /\ request' \in [Requests -> RequestState] /\ Holding'
      /\ request'[p] = s /\ \A q \in Requests : q # p => request'[q] = request[q]
  <2>1. /\ s.key \in Keys /\ s.series \in Series /\ (s.key[1] # "series_index" => s.total = 1)
        /\ s.run \in Runs
    BY <1>0, <1>1 DEF JobsInv, Holding
  <2> QED
    BY <1>1, <1>2, <2>1, RequestUpdate
<1>4. SameCarriers
  <2>1. RowsStay
    BY <1>2 DEF RowsStay
  <2>2. Working /\ work.pc # "read" => work.key = row[work.run].key
    BY RunOfWork
  <2> QED
    BY <1>0, <1>1, <1>2, <1>3, <2>1, <2>2 DEF SameCarriers, Carrying, Working
<1>5. row[s.run].status \in {"queued", "gone"} /\ row[s.run].key = s.key
  BY <1>0, <1>1 DEF JobsInv, RowsAgree
<1>6. RowsAgree'
  BY <1>1, <1>2, <1>3, <1>5, RequestRows
<1>7. TypeOK'
  BY <1>2, <1>3 DEF JobsInv, TypeOK, RequestState
<1> QED
  BY <1>2, <1>3, <1>4, <1>6, <1>7, SameCarriersKeeps, SameRowsKeep DEF JobsInv

(* The run goes from the request to the channel. *)
LEMMA SentCarriers ==
    ASSUME JobsInv, NEW p \in Requests, NEW k, k = Len(jobs) + 1, Carrying(p), ~Carrying(p)',
           \A q \in Requests : q # p => request'[q] = request[q],
           Len(jobs') = k, \A i \in 1..Len(jobs) : jobs'[i] = jobs[i],
           jobs'[k] = request[p].run, row[request[p].run].key = request[p].key,
           UNCHANGED <<row, queued, work, closing>>
    PROVE  CarriedRunsReserved' /\ CarriersApart' /\ LeakOnlyByCascade'
<1>0. Len(jobs) \in Nat /\ k \in 1..k /\ \A i \in 1..k : i = k \/ i \in 1..Len(jobs)
  BY Typed
<1>1. \A q \in Requests : Carrying(q)' <=> q # p /\ Carrying(q)
  BY DEF Carrying
<1>2. Working' <=> Working
  BY DEF Working
<1>3. CarriedRunsReserved
  BY DEF JobsInv
<1>4. CarriedRunsReserved'
  <2>1. \A i \in 1..k : queued[row[jobs'[i]].key] = jobs'[i]
    BY <1>0, <1>3, Reserved, RunOfRequest
  <2>2. \A i, j \in 1..k : jobs'[i] = jobs'[j] => i = j
    BY <1>0, <1>3, Reserved, RunOfRequest
  <2>3. \A q \in Requests : Carrying(q)' => queued[request'[q].key] = request'[q].run
    BY <1>1, <1>3, Reserved
  <2>4. Working => queued[row[work.run].key] = work.run /\ (work.pc # "read" => work.key = row[work.run].key)
    BY RunOfWork
  <2> QED
    BY <1>2, <2>1, <2>2, <2>3, <2>4, ReservedNext
<1>5. CarriersApart'
  <2>1. \A q, o \in Requests : Carrying(q)' /\ Carrying(o)' /\ request'[q].run = request'[o].run => q = o
    BY <1>1 DEF JobsInv, CarriersApart
  <2>2. \A q \in Requests, i \in 1..k : Carrying(q)' => request'[q].run # jobs'[i]
    BY <1>0, <1>1 DEF JobsInv, CarriersApart
  <2>3. Working => /\ \A q \in Requests : Carrying(q)' => request'[q].run # work.run
                   /\ \A i \in 1..k : jobs'[i] # work.run
    BY <1>0, <1>1 DEF JobsInv, CarriersApart
  <2>4. \A l, m \in Keys : queued[l] = queued[m] /\ queued[l] # 0 => l = m
    BY DEF JobsInv, CarriersApart
  <2> QED
    BY <1>2, <2>1, <2>2, <2>3, <2>4 DEF CarriersApart
<1>6. LeakOnlyByCascade'
  <2> SUFFICES ASSUME NEW m \in Keys, queued[m] \in Carried PROVE queued[m] \in Carried'
    BY DEF JobsInv, LeakOnlyByCascade
  <2>1. CASE \E q \in Requests : Carrying(q) /\ request[q].run = queued[m]
    <3>1. PICK q \in Requests : Carrying(q) /\ request[q].run = queued[m]
      BY <2>1
    <3>2. CASE q = p
      BY <1>0, <3>1, <3>2, InCarriedNext
    <3>3. CASE q # p
      BY <1>1, <3>1, <3>3, InCarriedNext
    <3> QED
      BY <3>2, <3>3
  <2>2. CASE \E i \in 1..Len(jobs) : jobs[i] = queued[m]
    BY <1>0, <2>2, InCarriedNext
  <2>3. CASE Working /\ work.run = queued[m]
    BY <1>2, <2>3, InCarriedNext
  <2> QED
    BY <2>1, <2>2, <2>3, InCarried
<1> QED
  BY <1>4, <1>5, <1>6

LEMMA SendJobKeeps ==
    ASSUME JobsInv, NEW p \in Requests, SendJob(p)
    PROVE  JobsInv'
<1> DEFINE k == Len(jobs) + 1
<1>0. Carrying(p) /\ request[p].pc = "send" /\ Len(jobs) < ChanCap
  BY DEF SendJob, Carrying
<1>1. /\ request[p].run \in Runs /\ row[request[p].run].status \in {"queued", "gone"}
      /\ row[request[p].run].key = request[p].key
  BY <1>0, RunOfRequest DEF JobsInv, RowsAgree
<1>2. /\ request' = [request EXCEPT ![p] = IdleRequest] /\ jobs' = Append(jobs, request[p].run)
      /\ UNCHANGED <<series, home, row, queued, work, closing, changes, restarts>>
  BY DEF SendJob, catalog, bounds
<1>3. /\ jobs' \in Seq(Runs) /\ Len(jobs') = k /\ Len(jobs) \in Nat
      /\ jobs'[k] = request[p].run /\ \A i \in 1..Len(jobs) : jobs'[i] = jobs[i]
  BY <1>1, <1>2, Typed
<1>4. /\ request' \in [Requests -> RequestState] /\ Holding'
      /\ request'[p] = IdleRequest /\ \A q \in Requests : q # p => request'[q] = request[q]
  BY <1>2, IdleTypes, RequestUpdate
<1>5. ~Carrying(p)' /\ request'[p].pc = "idle"
  BY <1>4, IdleTypes DEF Carrying
<1>6. CarriedRunsReserved' /\ CarriersApart' /\ LeakOnlyByCascade'
  BY <1>0, <1>1, <1>2, <1>3, <1>4, <1>5, SentCarriers
<1>7. RowsAgree'
  <2>1. \A i \in 1..k : i \in 1..Len(jobs) \/ i = k
    BY <1>3
  <2>2. \A i \in 1..k : row[jobs'[i]].status \in {"queued", "gone"}
    BY <1>1, <1>3, <2>1 DEF JobsInv, RowsAgree
  <2>3. \A q \in Requests : request'[q].pc \in {"insert", "readback", "send"} => request'[q] = request[q]
    BY <1>4, <1>5
  <2> QED
    BY <1>2, <1>3, <2>2, <2>3 DEF JobsInv, RowsAgree
<1>8. TypeOK'
  <2>1. Len(jobs') <= ChanCap
    BY <1>0, <1>3, Bounds
  <2> QED
    BY <1>2, <1>3, <1>4, <2>1 DEF JobsInv, TypeOK, RequestState
<1> QED
  BY <1>2, <1>4, <1>6, <1>7, <1>8, SameRowsKeep DEF JobsInv

(* A request that fails gives back the reservation of its key. *)
LEMMA LetGoCarriers ==
    ASSUME JobsInv, NEW p \in Requests, Carrying(p), ~Carrying(p)',
           \A q \in Requests : q # p => request'[q] = request[q],
           \A m \in Keys : queued'[m] = IF m = request[p].key THEN 0 ELSE queued[m],
           UNCHANGED <<row, jobs, work, closing>>
    PROVE  CarriedRunsReserved' /\ CarriersApart' /\ LeakOnlyByCascade'
<1>1. \A q \in Requests : Carrying(q)' <=> q # p /\ Carrying(q)
  BY DEF Carrying
<1>2. Working' <=> Working
  BY DEF Working
<1>3. CarriedRunsReserved
  BY DEF JobsInv
<1>4. CarriedRunsReserved'
  <2>1. \A q \in Requests : Carrying(q)' => queued'[request'[q].key] = request'[q].run
    <3>1. \A q \in Requests : Carrying(q) /\ q # p =>
             /\ request[q].key \in Keys /\ request[q].key # request[p].key
             /\ queued[request[q].key] = request[q].run
      BY RunOfRequest
    <3> QED
      BY <1>1, <3>1
  <2>2. \A i \in 1..Len(jobs) : queued'[row[jobs[i]].key] = jobs[i]
    <3>1. \A i \in 1..Len(jobs) : row[jobs[i]].key \in Keys
      BY Typed DEF JobsInv, RowsAgree
    <3> QED
      BY <1>3, <3>1, Reserved, RunOfRequest
  <2>3. Working => queued'[row[work.run].key] = work.run /\ (work.pc # "read" => work.key = row[work.run].key)
    BY RunOfWork, RunOfRequest
  <2>4. \A i, j \in 1..Len(jobs) : jobs[i] = jobs[j] => i = j
    BY <1>3, Reserved
  <2> QED
    BY <1>2, <2>1, <2>2, <2>3, <2>4, ReservedNext
<1>5. CarriersApart'
  <2>1. \A l, m \in Keys : queued'[l] = queued'[m] /\ queued'[l] # 0 => l = m
    BY DEF JobsInv, CarriersApart
  <2>2. /\ \A q, o \in Requests :
              Carrying(q)' /\ Carrying(o)' /\ request'[q].run = request'[o].run => q = o
        /\ \A q \in Requests, i \in 1..Len(jobs) : Carrying(q)' => request'[q].run # jobs[i]
        /\ Working => \A q \in Requests : Carrying(q)' => request'[q].run # work.run
        /\ Working => \A i \in 1..Len(jobs) : jobs[i] # work.run
    BY <1>1 DEF JobsInv, CarriersApart
  <2> QED
    BY <1>2, <2>1, <2>2 DEF CarriersApart
<1>6. LeakOnlyByCascade'
  <2> SUFFICES ASSUME ~closing, NEW m \in Keys, queued'[m] # 0
               PROVE  queued'[m] \in Carried' \/ row[queued'[m]].status = "gone"
    BY DEF LeakOnlyByCascade
  <2>1. m # request[p].key /\ queued'[m] = queued[m]
    OBVIOUS
  <2>2. queued[m] # request[p].run
    BY <2>1, RunOfRequest DEF JobsInv, CarriersApart
  <2>3. queued[m] \in Carried \/ row[queued[m]].status = "gone"
    BY <2>1 DEF JobsInv, LeakOnlyByCascade
  <2>4. queued[m] \in Carried => queued[m] \in Carried'
    BY <1>1, <1>2, <2>2, InCarried, InCarriedNext
  <2> QED
    BY <2>1, <2>3, <2>4
<1> QED
  BY <1>4, <1>5, <1>6

LEMMA StartFailsKeeps ==
    ASSUME JobsInv, NEW p \in Requests, StartFails(p)
    PROVE  JobsInv'
<1>1. Carrying(p)
  BY DEF StartFails, Carrying
<1>2. /\ request' = [request EXCEPT ![p] = IdleRequest]
      /\ queued' = [queued EXCEPT ![request[p].key] = 0]
      /\ UNCHANGED <<series, home, row, jobs, work, closing, changes, restarts>>
  BY DEF StartFails, catalog, bounds
<1>3. /\ request' \in [Requests -> RequestState] /\ Holding'
      /\ request'[p] = IdleRequest /\ \A q \in Requests : q # p => request'[q] = request[q]
  BY <1>2, IdleTypes, RequestUpdate
<1>4. ~Carrying(p)' /\ request'[p].pc = "idle"
  BY <1>3, IdleTypes DEF Carrying
<1>5. request[p].key \in Keys /\ 0 \in 0..MaxRuns
  BY <1>1, Bounds, RunOfRequest
<1>6. /\ queued' \in [Keys -> 0..MaxRuns]
      /\ \A m \in Keys : queued'[m] = IF m = request[p].key THEN 0 ELSE queued[m]
  BY <1>2, <1>5, Typed
<1>7. CarriedRunsReserved' /\ CarriersApart' /\ LeakOnlyByCascade'
  BY <1>1, <1>2, <1>3, <1>4, <1>6, LetGoCarriers
<1>8. RowsAgree'
  BY <1>2, <1>3, <1>4, RequestRows
<1>9. TypeOK'
  BY <1>2, <1>3, <1>6 DEF JobsInv, TypeOK, RequestState
<1> QED
  BY <1>2, <1>3, <1>7, <1>8, <1>9, SameRowsKeep DEF JobsInv

-----------------------------------------------------------------------------
(* Cancels, scans, and the end of the process.                             *)

(* Rows are marked or removed; no result is written. *)
RowsFade ==
    \A r \in Runs :
       /\ row'[r].n = row[r].n /\ row'[r].key = row[r].key /\ row'[r].series = row[r].series
       /\ row[r].status = "none" => row'[r] = row[r]
       /\ row'[r].status = row[r].status \/ (row'[r].status = "gone" /\ row[r].status # "none")

LEMMA FadeKeeps ==
    ASSUME JobsInv, RowsFade, TypeOK',
           UNCHANGED <<queued, jobs, work, request>>, closing => closing'
    PROVE  JobsInv'
<1>1. CarriedRunsReserved' /\ CarriersApart' /\ LeakOnlyByCascade'
  <2>1. RowsStay
    BY DEF RowsFade, RowsStay
  <2>2. Working /\ work.pc # "read" => work.key = row[work.run].key
    BY RunOfWork
  <2>3. SameCarriers
    BY <2>1, <2>2 DEF SameCarriers, Carrying, Working
  <2> QED
    BY <2>3, SameCarriersKeeps
<1>2. RowsAgree'
  <2>1. \A r \in Runs : IF row'[r].status = "none" THEN row'[r] = NoRow
                        ELSE row'[r].key \in Keys /\ row'[r].series \in Series
    BY DEF JobsInv, RowsAgree, RowsFade
  <2>2. \A p \in Requests :
           /\ request[p].pc = "insert" => row'[request[p].run].status = "none"
           /\ request[p].pc \in {"readback", "send"} =>
                 /\ row'[request[p].run].status \in {"queued", "gone"}
                 /\ row'[request[p].run].key = request[p].key
    BY DEF JobsInv, Holding, Carrying, RowsAgree, RowsFade
  <2>3. \A i \in 1..Len(jobs) : row'[jobs[i]].status \in {"queued", "gone"}
    BY Typed DEF JobsInv, RowsAgree, RowsFade
  <2> QED
    BY <2>1, <2>2, <2>3 DEF RowsAgree
<1>3. WorkAgrees'
  <2>1. Working => work.run \in Runs
    BY DEF JobsInv, Holding
  <2> QED
    BY <2>1 DEF JobsInv, WorkAgrees, Working, RowsFade
<1>4. CountsAgree'
  BY DEF JobsInv, CountsAgree, RowsFade
<1>5. ResultsAddUp'
  BY DEF JobsInv, ResultsAddUp, RowsFade
<1>6. WorkAddsUp' /\ Holding'
  BY DEF JobsInv, WorkAddsUp, Unstarted, Holding, Carrying, Working
<1> QED
  BY <1>1, <1>2, <1>3, <1>4, <1>5, <1>6 DEF JobsInv

LEMMA CancelKeeps ==
    ASSUME JobsInv, NEW r \in Runs, Cancel(r)
    PROVE  JobsInv'
<1> DEFINE x == [row[r] EXCEPT !.cancel = TRUE]
<1>1. /\ row' = [row EXCEPT ![r] = x] /\ row[r].status \in Live
      /\ UNCHANGED <<series, home, queued, jobs, work, closing, request, changes, restarts>>
  BY DEF Cancel, catalog, mem, bounds
<1>2. /\ x \in RowState /\ x.n = row[r].n /\ x.status = row[r].status
      /\ x.key = row[r].key /\ x.series = row[r].series
  BY Typed DEF RowState
<1> HIDE DEF x
<1>3. row' \in [Runs -> RowState] /\ row'[r] = x /\ \A q \in Runs : q # r => row'[q] = row[q]
  BY <1>1, <1>2, Typed
<1>4. RowsFade
  BY <1>1, <1>2, <1>3 DEF RowsFade, Live
<1>5. TypeOK'
  BY <1>1, <1>3 DEF JobsInv, TypeOK, RowState
<1> QED
  BY <1>1, <1>4, <1>5, FadeKeeps

LEMMA ChangeType ==
    ASSUME JobsInv, Change
    PROVE  changes' \in 0..MaxChanges /\ restarts' = restarts
BY Bounds DEF JobsInv, TypeOK, Change

LEMMA PlaceBookKeeps ==
    ASSUME JobsInv, NEW b \in Books, NEW s \in Series, PlaceBook(b, s)
    PROVE  JobsInv'
<1>1. /\ series' = series \cup {s} /\ home' = [home EXCEPT ![b] = s] /\ Change
      /\ UNCHANGED <<row, queued, jobs, work, closing, request>>
  BY DEF PlaceBook, mem
<1>2. home' \in [Books -> series' \cup {None}]
  BY <1>1, Typed
<1>3. TypeOK'
  BY <1>1, <1>2, ChangeType DEF JobsInv, TypeOK
<1>4. RowsFade
  BY <1>1 DEF RowsFade
<1> QED
  BY <1>1, <1>3, <1>4, FadeKeeps

(* A cascade removes rows that are there. *)
LEMMA CascadeFades ==
    ASSUME JobsInv, NEW lost, \A r \in Runs : r \in lost => row[r].status # "none", row' = Cascade(lost)
    PROVE  RowsFade /\ row' \in [Runs -> RowState]
<1>1. \A r \in Runs : row'[r] = IF r \in lost THEN [row[r] EXCEPT !.status = "gone"] ELSE row[r]
  BY DEF Cascade
<1>2. \A r \in Runs :
         /\ row'[r] \in RowState
         /\ row'[r].n = row[r].n /\ row'[r].key = row[r].key /\ row'[r].series = row[r].series
         /\ IF r \in lost THEN row'[r].status = "gone" ELSE row'[r] = row[r]
  BY <1>1, Typed, ZenonT(30) DEF RowState
<1>3. row' \in [Runs -> RowState]
  BY <1>2 DEF Cascade
<1> QED
  BY <1>2, <1>3 DEF RowsFade

LEMMA DropBookKeeps ==
    ASSUME JobsInv, NEW b \in Books, DropBook(b)
    PROVE  JobsInv'
<1> DEFINE lost == {r \in Runs : row[r].key = <<"book_index", b>>}
<1>1. /\ home' = [home EXCEPT ![b] = None] /\ row' = Cascade(lost) /\ Change
      /\ UNCHANGED <<series, queued, jobs, work, closing, request>>
  BY DEF DropBook, mem
<1>2. \A r \in Runs : r \in lost => row[r].status # "none"
  <2>1. <<"book_index", b>> # <<>>
    OBVIOUS
  <2> QED
    BY <2>1, IdleTypes DEF JobsInv, RowsAgree
<1> HIDE DEF lost
<1>3. RowsFade /\ row' \in [Runs -> RowState]
  BY <1>1, <1>2, CascadeFades
<1>4. home' \in [Books -> series \cup {None}]
  BY <1>1, Typed
<1>5. TypeOK'
  BY <1>1, <1>3, <1>4, ChangeType DEF JobsInv, TypeOK, RowState
<1> QED
  BY <1>1, <1>3, <1>5, FadeKeeps

LEMMA DropSeriesKeeps ==
    ASSUME JobsInv, NEW s \in Series, DropSeries(s)
    PROVE  JobsInv'
<1> DEFINE lost == {r \in Runs : row[r].series = s \/ \E b \in BooksIn(s) : row[r].key = <<"book_index", b>>}
<1>1. /\ series' = series \ {s} /\ home' = [b \in Books |-> IF home[b] = s THEN None ELSE home[b]]
      /\ row' = Cascade(lost) /\ Change
      /\ UNCHANGED <<queued, jobs, work, closing, request>>
  BY DEF DropSeries, mem
<1>2. \A r \in Runs : r \in lost => row[r].status # "none"
  <2>1. \A b \in Books : <<"book_index", b>> # <<>>
    OBVIOUS
  <2>2. s # None /\ BooksIn(s) \subseteq Books
    BY Bounds DEF BooksIn
  <2> QED
    BY <2>1, <2>2, IdleTypes DEF JobsInv, RowsAgree
<1> HIDE DEF lost
<1>3. RowsFade /\ row' \in [Runs -> RowState]
  BY <1>1, <1>2, CascadeFades
<1>4. home' \in [Books -> series' \cup {None}] /\ series' \subseteq Series
  BY <1>1, Typed
<1>5. TypeOK'
  BY <1>1, <1>3, <1>4, ChangeType DEF JobsInv, TypeOK, RowState
<1> QED
  BY <1>1, <1>3, <1>5, FadeKeeps

LEMMA CloseKeeps ==
    ASSUME JobsInv, Close
    PROVE  JobsInv'
<1>1. UNCHANGED <<series, home, row, queued, jobs, work, request, changes, restarts>> /\ closing' = TRUE
  BY DEF Close, catalog, mem, bounds
<1>2. TypeOK'
  BY <1>1 DEF JobsInv, TypeOK
<1>3. RowsFade
  BY <1>1 DEF RowsFade
<1> QED
  BY <1>1, <1>2, <1>3, FadeKeeps

LEMMA StutterKeeps ==
    ASSUME JobsInv, UNCHANGED vars
    PROVE  JobsInv'
<1>1. UNCHANGED <<series, home, row, queued, jobs, work, closing, request, changes, restarts>>
  BY DEF vars, catalog, mem, bounds
<1>2. TypeOK'
  BY <1>1 DEF JobsInv, TypeOK
<1>3. RowsFade
  BY <1>1 DEF RowsFade
<1> QED
  BY <1>1, <1>2, <1>3, FadeKeeps

LEMMA RestartKeeps ==
    ASSUME JobsInv, Restart
    PROVE  JobsInv'
<1>1. /\ row' = [r \in Runs |-> Repaired(r)] /\ queued' = [k \in Keys |-> 0] /\ jobs' = <<>>
      /\ work' = IdleWorker /\ closing' = FALSE
      /\ request' = [p \in Requests |-> IdleRequest]
      /\ UNCHANGED <<series, home, changes>> /\ restarts < MaxRestarts /\ restarts' = restarts + 1
  BY DEF Restart, catalog
<1>2. ASSUME NEW r \in Runs
      PROVE  /\ row'[r] \in RowState /\ row'[r].n = row[r].n /\ row'[r].status \notin Live
             /\ row'[r].key = row[r].key /\ row'[r].series = row[r].series
             /\ \/ row'[r] = row[r]
                \/ row'[r].status = "failed" /\ row[r].status \in Live
  <2>1. row[r] \in RowState /\ row'[r] = Repaired(r)
    BY <1>1, Typed
  <2>2. CASE row[r].status \in Live
    BY <2>1, <2>2 DEF Repaired, RowState, Live, Terminal
  <2>3. CASE row[r].status \notin Live
    BY <2>1, <2>3 DEF Repaired
  <2> QED
    BY <2>2, <2>3
<1>3. /\ \A p \in Requests : request'[p] = IdleRequest
      /\ \A k \in Keys : queued'[k] = 0
      /\ Len(jobs') = 0 /\ jobs' \in Seq(Runs)
  BY <1>1
<1>4. TypeOK'
  <2>1. restarts' \in 0..MaxRestarts
    BY <1>1, Bounds DEF JobsInv, TypeOK
  <2>2. row' \in [Runs -> RowState] /\ request' \in [Requests -> RequestState] /\ work' \in WorkerState
    BY <1>1, <1>2, IdleTypes
  <2>3. queued' \in [Keys -> 0..MaxRuns] /\ Len(jobs') <= ChanCap
    BY <1>1, <1>3, Bounds
  <2> QED
    BY <1>1, <1>3, <2>1, <2>2, <2>3 DEF JobsInv, TypeOK, RowState, RequestState, WorkerState
<1>5. ~Working' /\ work'.pc = "idle" /\ \A p \in Requests : ~Carrying(p)' /\ request'[p].pc = "idle"
  BY <1>1, <1>3, IdleTypes DEF Working, Carrying
<1>6. Holding' /\ CarriersApart' /\ LeakOnlyByCascade'
  BY <1>3, <1>5 DEF Holding, CarriersApart, LeakOnlyByCascade
<1>7. CarriedRunsReserved'
  BY <1>3, <1>5, ReservedNext
<1>8. RowsAgree'
  <2>1. \A r \in Runs : IF row'[r].status = "none" THEN row'[r] = NoRow
                        ELSE row'[r].key \in Keys /\ row'[r].series \in Series
    BY <1>2 DEF JobsInv, RowsAgree, Live
  <2> QED
    BY <1>3, <1>5, <2>1 DEF RowsAgree
<1>9. WorkAgrees' /\ WorkAddsUp'
  BY <1>5 DEF WorkAgrees, WorkAddsUp
<1>10. CountsAgree'
  BY <1>2 DEF CountsAgree, Live
<1>11. ResultsAddUp'
  BY <1>2 DEF JobsInv, ResultsAddUp
<1> QED
  BY <1>4, <1>6, <1>7, <1>8, <1>9, <1>10, <1>11 DEF JobsInv

-----------------------------------------------------------------------------
(* The worker takes a job, and lets go of it.                              *)

LEMMA TakenCarriers ==
    ASSUME JobsInv, Len(jobs) # 0, ~Working, Working', work'.run = jobs[1], work'.pc = "read",
           Len(jobs') = Len(jobs) - 1, \A i \in 1..Len(jobs') : jobs'[i] = jobs[i + 1],
           UNCHANGED <<row, queued, request, closing>>
    PROVE  CarriedRunsReserved' /\ CarriersApart' /\ LeakOnlyByCascade'
<1>0. Len(jobs) \in Nat \ {0} /\ Len(jobs') \in Nat /\ 1 \in 1..Len(jobs)
  BY Typed
<1>1. \A i \in 1..Len(jobs') : i + 1 \in 1..Len(jobs) /\ i + 1 # 1 /\ jobs'[i] = jobs[i + 1]
  BY <1>0
<1>2. \A q \in Requests : (Carrying(q)' <=> Carrying(q)) /\ request'[q] = request[q]
  BY DEF Carrying
<1>3. CarriedRunsReserved
  BY DEF JobsInv
<1>4. \A i, j \in 1..Len(jobs) : jobs[i] = jobs[j] => i = j
  BY <1>3, Reserved
<1>5. CarriedRunsReserved'
  <2>1. \A i \in 1..Len(jobs') : queued[row[jobs'[i]].key] = jobs'[i]
    BY <1>1, <1>3, Reserved
  <2>2. queued[row[jobs[1]].key] = jobs[1]
    BY <1>0, <1>3, Reserved
  <2>3. \A i, k \in 1..Len(jobs') : jobs'[i] = jobs'[k] => i = k
    BY <1>0, <1>1, <1>4, SMTT(30)
  <2>4. \A q \in Requests : Carrying(q) => queued[request[q].key] = request[q].run
    BY <1>3, Reserved
  <2> QED
    BY <1>2, <2>1, <2>2, <2>3, <2>4, ReservedNext
<1>6. CarriersApart'
  <2>1. \A q, o \in Requests : Carrying(q) /\ Carrying(o) /\ request[q].run = request[o].run => q = o
    BY DEF JobsInv, CarriersApart
  <2>2. \A q \in Requests, i \in 1..Len(jobs) : Carrying(q) => request[q].run # jobs[i]
    BY DEF JobsInv, CarriersApart
  <2>3. \A q \in Requests, i \in 1..Len(jobs') : Carrying(q) => request[q].run # jobs'[i]
    BY <1>1, <2>2
  <2>4. \A q \in Requests : Carrying(q) => request[q].run # jobs[1]
    BY <1>0, <2>2
  <2>5. \A i \in 1..Len(jobs') : jobs'[i] # jobs[1]
    BY <1>0, <1>1, <1>4
  <2>6. \A l, m \in Keys : queued[l] = queued[m] /\ queued[l] # 0 => l = m
    BY DEF JobsInv, CarriersApart
  <2> QED
    BY <1>2, <2>1, <2>3, <2>4, <2>5, <2>6 DEF CarriersApart
<1>7. LeakOnlyByCascade'
  <2> SUFFICES ASSUME NEW m \in Keys, queued[m] \in Carried PROVE queued[m] \in Carried'
    BY DEF JobsInv, LeakOnlyByCascade
  <2>1. CASE \E q \in Requests : Carrying(q) /\ request[q].run = queued[m]
    BY <1>2, <2>1, InCarriedNext
  <2>2. CASE \E i \in 1..Len(jobs) : jobs[i] = queued[m]
    <3>1. PICK i \in 1..Len(jobs) : jobs[i] = queued[m]
      BY <2>2
    <3>2. CASE i = 1
      BY <3>1, <3>2, InCarriedNext
    <3>3. CASE i # 1
      <4>1. i - 1 \in 1..Len(jobs') /\ (i - 1) + 1 = i
        BY <1>0, <3>3
      <4>2. jobs'[i - 1] = jobs[i]
        BY <1>1, <4>1
      <4> QED
        BY <3>1, <4>1, <4>2, InCarriedNext
    <3> QED
      BY <3>2, <3>3
  <2> QED
    BY <2>1, <2>2, InCarried
<1> QED
  BY <1>5, <1>6, <1>7

LEMMA TakeJobKeeps ==
    ASSUME JobsInv, TakeJob
    PROVE  JobsInv'
<1> DEFINE w == [IdleWorker EXCEPT !.pc = "read", !.run = Head(jobs)]
<1>1. /\ ~Working /\ jobs # <<>> /\ work' = w /\ jobs' = Tail(jobs)
      /\ UNCHANGED <<series, home, row, queued, closing, request, changes, restarts>>
  BY DEF TakeJob, Working, catalog, bounds
<1>2. /\ Len(jobs) \in Nat \ {0} /\ Len(jobs') = Len(jobs) - 1 /\ jobs' \in Seq(Runs)
      /\ \A i \in 1..Len(jobs') : jobs'[i] = jobs[i + 1]
      /\ Head(jobs) = jobs[1]
  BY <1>1, Typed
<1>3. jobs[1] \in Runs /\ jobs[1] \in 0..MaxRuns
  BY <1>2, Typed, Bounds DEF Runs
<1>4. w \in WorkerState /\ w.pc = "read" /\ w.run = jobs[1] /\ w.todo = {}
  BY <1>2, <1>3, IdleTypes DEF WorkerState
<1> HIDE DEF w
<1>5. Working' /\ work'.run \in Runs /\ work'.pc = "read"
  BY <1>1, <1>3, <1>4 DEF Working
<1>6. CarriedRunsReserved' /\ CarriersApart' /\ LeakOnlyByCascade'
  BY <1>1, <1>2, <1>4, <1>5, TakenCarriers
<1>7. row[jobs[1]].status \in {"queued", "gone"}
  BY <1>2 DEF JobsInv, RowsAgree
<1>8. Holding'
  BY <1>1, <1>5 DEF JobsInv, Holding, Carrying
<1>9. RowsAgree'
  <2>1. \A i \in 1..Len(jobs') : row[jobs'[i]].status \in {"queued", "gone"}
    BY <1>2 DEF JobsInv, RowsAgree
  <2> QED
    BY <1>1, <2>1 DEF JobsInv, RowsAgree
<1>10. WorkAgrees' /\ WorkAddsUp'
  BY <1>1, <1>4, <1>7 DEF WorkAgrees, WorkAddsUp
<1>11. CountsAgree' /\ ResultsAddUp'
  BY <1>1 DEF JobsInv, CountsAgree, ResultsAddUp
<1>12. TypeOK'
  <2>1. Len(jobs') <= ChanCap
    BY <1>2, Bounds DEF JobsInv, TypeOK
  <2> QED
    BY <1>1, <1>2, <1>4, <2>1 DEF JobsInv, TypeOK, WorkerState
<1> QED
  BY <1>6, <1>8, <1>9, <1>10, <1>11, <1>12 DEF JobsInv

(* With the reservation, or, if its row is gone or the process closes,     *)
(* without.                                                                *)
LEMMA LeftCarriers ==
    ASSUME JobsInv, Working, ~Working',
           \/ \A m \in Keys : queued'[m] = IF m = row[work.run].key THEN 0 ELSE queued[m]
           \/ UNCHANGED queued /\ (closing \/ row[work.run].status = "gone"),
           UNCHANGED <<row, jobs, request, closing>>
    PROVE  CarriedRunsReserved' /\ CarriersApart' /\ LeakOnlyByCascade'
<1>1. \A q \in Requests : (Carrying(q)' <=> Carrying(q)) /\ request'[q] = request[q]
  BY DEF Carrying
<1>2. CarriedRunsReserved
  BY DEF JobsInv
<1>3. \A m \in Keys : m # row[work.run].key => queued'[m] = queued[m]
  OBVIOUS
<1>4. CarriedRunsReserved'
  <2>1. \A q \in Requests : Carrying(q) => queued'[request[q].key] = request[q].run
    BY <1>3, RunOfRequest, RunOfWork
  <2>2. \A i \in 1..Len(jobs) : queued'[row[jobs[i]].key] = jobs[i]
    <3>1. \A i \in 1..Len(jobs) : row[jobs[i]].key \in Keys
      BY Typed DEF JobsInv, RowsAgree
    <3> QED
      BY <1>2, <1>3, <3>1, Reserved, RunOfWork
  <2>3. \A i, j \in 1..Len(jobs) : jobs[i] = jobs[j] => i = j
    BY <1>2, Reserved
  <2> QED
    BY <1>1, <2>1, <2>2, <2>3, ReservedNext
<1>5. CarriersApart'
  <2>1. \A l, m \in Keys : queued'[l] = queued'[m] /\ queued'[l] # 0 => l = m
    BY DEF JobsInv, CarriersApart
  <2>2. /\ \A q, o \in Requests : Carrying(q) /\ Carrying(o) /\ request[q].run = request[o].run => q = o
        /\ \A q \in Requests, i \in 1..Len(jobs) : Carrying(q) => request[q].run # jobs[i]
    BY DEF JobsInv, CarriersApart
  <2> QED
    BY <1>1, <2>1, <2>2 DEF CarriersApart
<1>6. LeakOnlyByCascade'
  <2> SUFFICES ASSUME ~closing, NEW m \in Keys, queued'[m] # 0
               PROVE  queued'[m] \in Carried' \/ row[queued'[m]].status = "gone"
    BY DEF LeakOnlyByCascade
  <2>1. queued'[m] = queued[m]
    OBVIOUS
  <2>2. queued[m] \in Carried \/ row[queued[m]].status = "gone"
    BY <2>1 DEF JobsInv, LeakOnlyByCascade
  <2>3. CASE queued[m] # work.run
    <3>1. queued[m] \in Carried => queued[m] \in Carried'
      BY <1>1, <2>3, InCarried, InCarriedNext
    <3> QED
      BY <2>1, <2>2, <3>1
  <2>4. CASE queued[m] = work.run
    <3>1. m = row[work.run].key /\ work.run # 0
      BY <2>1, <2>4, RunOfWork DEF JobsInv, CarriersApart
    <3>2. UNCHANGED queued /\ row[work.run].status = "gone"
      BY <3>1
    <3> QED
      BY <2>1, <2>4, <3>2
  <2> QED
    BY <2>3, <2>4
<1> QED
  BY <1>4, <1>5, <1>6

LEMMA LeftKeeps ==
    ASSUME JobsInv, Working, work' = IdleWorker, queued' \in [Keys -> 0..MaxRuns],
           \/ \A m \in Keys : queued'[m] = IF m = row[work.run].key THEN 0 ELSE queued[m]
           \/ UNCHANGED queued /\ (closing \/ row[work.run].status = "gone"),
           UNCHANGED <<series, home, row, jobs, closing, request, changes, restarts>>
    PROVE  JobsInv'
<1>1. ~Working' /\ work'.pc = "idle" /\ work' \in WorkerState
  BY IdleTypes DEF Working
<1>2. CarriedRunsReserved' /\ CarriersApart' /\ LeakOnlyByCascade'
  BY <1>1, LeftCarriers
<1>3. Holding' /\ RowsAgree'
  BY <1>1 DEF JobsInv, Holding, Carrying, RowsAgree
<1>4. WorkAgrees' /\ WorkAddsUp'
  BY <1>1 DEF WorkAgrees, WorkAddsUp
<1>5. CountsAgree' /\ ResultsAddUp'
  BY DEF JobsInv, CountsAgree, ResultsAddUp
<1>6. TypeOK'
  BY <1>1 DEF JobsInv, TypeOK, WorkerState
<1> QED
  BY <1>2, <1>3, <1>4, <1>5, <1>6 DEF JobsInv

LEMMA ReleaseKeeps ==
    ASSUME JobsInv, Release
    PROVE  JobsInv'
<1>1. /\ Working /\ work.pc = "release" /\ queued' = [queued EXCEPT ![work.key] = 0] /\ work' = IdleWorker
      /\ UNCHANGED <<series, home, row, jobs, closing, request, changes, restarts>>
  BY DEF Release, Working, catalog, bounds
<1>2. work.key = row[work.run].key /\ 0 \in 0..MaxRuns
  BY <1>1, RunOfWork, Bounds
<1>3. /\ queued' \in [Keys -> 0..MaxRuns]
      /\ \A m \in Keys : queued'[m] = IF m = row[work.run].key THEN 0 ELSE queued[m]
  BY <1>1, <1>2, Typed
<1> QED
  BY <1>1, <1>3, LeftKeeps

(* The worker writes its own row, and only if it is there. *)
OwnRowOnly ==
    /\ Working /\ work' \in WorkerState /\ work'.pc # "idle" /\ work'.run = work.run
    /\ work'.pc # "read" => work'.key = row[work.run].key
    /\ row' \in [Runs -> RowState]
    /\ \A r \in Runs : r # work.run => row'[r] = row[r]
    /\ \/ row'[work.run] = row[work.run]
       \/ /\ Exists(work.run) /\ row'[work.run].status # "none"
          /\ row'[work.run].key = row[work.run].key /\ row'[work.run].series = row[work.run].series
    /\ UNCHANGED <<series, home, queued, jobs, closing, request, changes, restarts>>

LEMMA OwnRowKeeps ==
    ASSUME JobsInv, OwnRowOnly
    PROVE  /\ TypeOK' /\ Holding'
           /\ CarriedRunsReserved' /\ CarriersApart' /\ LeakOnlyByCascade'
           /\ RowsAgree'
<1>0. Working /\ Working' /\ work'.run = work.run /\ work.run \in Runs /\ row[work.run].key \in Keys
  BY RunOfWork DEF OwnRowOnly, Working
<1>1. TypeOK'
  BY DEF JobsInv, OwnRowOnly, TypeOK, WorkerState, RowState
<1>2. Holding'
  BY <1>0 DEF JobsInv, OwnRowOnly, Holding, Carrying
<1>3. CarriedRunsReserved' /\ CarriersApart' /\ LeakOnlyByCascade'
  <2>1. RowsStay
    BY DEF OwnRowOnly, RowsStay, Exists
  <2>2. SameCarriers
    BY <1>0, <2>1 DEF OwnRowOnly, SameCarriers, Carrying
  <2> QED
    BY <2>2, SameCarriersKeeps
<1>4. RowsAgree'
  <2>1. \A q \in Requests : Carrying(q) => row'[request[q].run] = row[request[q].run]
    BY <1>0, RunOfWork DEF JobsInv, Holding, OwnRowOnly
  <2>2. \A q \in Requests :
           /\ request[q].pc = "insert" => row'[request[q].run].status = "none"
           /\ request[q].pc \in {"readback", "send"} =>
                 /\ row'[request[q].run].status \in {"queued", "gone"}
                 /\ row'[request[q].run].key = request[q].key
    BY <2>1 DEF JobsInv, RowsAgree, Carrying
  <2>3. \A i \in 1..Len(jobs) : row'[jobs[i]] = row[jobs[i]]
    BY <1>0, RunOfWork, Typed DEF OwnRowOnly
  <2>4. \A i \in 1..Len(jobs) : row'[jobs[i]].status \in {"queued", "gone"}
    BY <2>3 DEF JobsInv, RowsAgree
  <2>5. \A r \in Runs : IF row'[r].status = "none" THEN row'[r] = NoRow
                        ELSE row'[r].key \in Keys /\ row'[r].series \in Series
    BY DEF JobsInv, RowsAgree, OwnRowOnly, Exists
  <2> QED
    BY <2>2, <2>4, <2>5 DEF OwnRowOnly, RowsAgree
<1> QED
  BY <1>1, <1>2, <1>3, <1>4

(* The step writes no row. *)
LEMMA NoRowWritten ==
    ASSUME JobsInv, Working, work' \in WorkerState, work'.pc # "idle",
           work'.run = work.run, work'.pc # "read" => work'.key = row[work.run].key,
           UNCHANGED <<series, home, row, queued, jobs, closing, request, changes, restarts>>,
           WorkAgrees', WorkAddsUp'
    PROVE  JobsInv'
<1>1. OwnRowOnly
  BY Typed DEF OwnRowOnly
<1>2. CountsAgree' /\ ResultsAddUp'
  BY DEF JobsInv, CountsAgree, ResultsAddUp
<1> QED
  BY <1>1, <1>2, OwnRowKeeps DEF JobsInv

-----------------------------------------------------------------------------
(* execute.                                                                *)

(* execute comes to its end with outcome o. *)
LEMMA FinishKeeps ==
    ASSUME JobsInv, Working, work.pc # "read", NEW o \in Terminal, Finish(o),
           UNCHANGED <<series, home, row, queued, jobs, closing, request, changes, restarts>>,
           row[work.run].status \in {"queued", "running", "gone"},
           o \in {"success", "partial"} => row[work.run].status \in {"running", "gone"},
           Processed(work.n) <= work.n.total,
           o \in {"success", "partial"} => Processed(work.n) = work.n.total,
           o = "success" => work.n.failed = 0,
           o = "partial" => work.n.failed \in 1..work.n.total - 1
    PROVE  JobsInv'
<1> DEFINE w == [work EXCEPT !.pc = "finish", !.outcome = o]
<1>1. /\ w \in WorkerState /\ w.pc = "finish" /\ w.run = work.run /\ w.key = work.key
      /\ w.n = work.n /\ w.outcome = o
  BY Typed DEF WorkerState
<1>2. work' = w
  BY DEF Finish
<1>3. work.key = row[work.run].key
  BY RunOfWork
<1> HIDE DEF w
<1>4. WorkAgrees'
  BY <1>1, <1>2 DEF WorkAgrees, Working
<1>5. WorkAddsUp'
  BY <1>1, <1>2 DEF WorkAddsUp
<1> QED
  BY <1>1, <1>2, <1>3, <1>4, <1>5, NoRowWritten

LEMMA AtWork ==
    ASSUME JobsInv, Working
    PROVE  /\ work.run \in Runs /\ row[work.run] \in RowState /\ row[work.run].status # "none"
           /\ row[work.run].key \in Keys /\ row[work.run].series \in Series
           /\ row[work.run].key[1] \in {"book_index", "series_index", "series_thumbnail"}
           /\ work.pc # "read" => work.key = row[work.run].key /\ work.key \in Keys
<1>1. work.run \in Runs /\ row[work.run].key \in Keys /\ (work.pc # "read" => work.key = row[work.run].key)
  BY RunOfWork
<1>2. row[work.run].status # "none"
  BY DEF JobsInv, WorkAgrees
<1>3. row[work.run].series \in Series /\ row[work.run] \in RowState
  BY <1>1, <1>2, Typed DEF JobsInv, RowsAgree
<1> QED
  BY <1>1, <1>2, <1>3, KeyTypes

LEMMA ReadRunKeeps ==
    ASSUME JobsInv, ReadRun
    PROVE  JobsInv'
<1>0. /\ Working /\ work.pc = "read"
      /\ UNCHANGED <<series, home, row, queued, jobs, closing, request, changes, restarts>>
  BY DEF ReadRun, Working, catalog, bounds
<1>1. row[work.run].status \in {"queued", "gone"}
  BY <1>0 DEF JobsInv, WorkAgrees
<1>2. CASE ~RowReachable
  <2>1. work' = IdleWorker
    BY <1>2 DEF ReadRun
  <2>2. closing \/ row[work.run].status = "gone"
    BY <1>1, <1>2 DEF RowReachable, Exists
  <2>3. queued' \in [Keys -> 0..MaxRuns]
    BY <1>0, Typed
  <2> QED
    BY <1>0, <2>1, <2>2, <2>3, LeftKeeps
<1>3. CASE RowReachable
  <2> DEFINE me == row[work.run]
             w == [work EXCEPT !.key = me.key, !.series = me.series, !.n = me.n,
                               !.pc = IF me.cancel THEN "finish" ELSE "mark",
                               !.outcome = IF me.cancel THEN "canceled" ELSE "none"]
  <2>1. work' = w
    BY <1>3 DEF ReadRun
  <2>2. me.status = "queued"
    BY <1>1, <1>3 DEF RowReachable, Exists
  <2>3. /\ me.n \in Counts /\ me.n.done = 0 /\ me.n.failed = 0 /\ me.n.total \in Nat
        /\ me.key[1] # "series_index" => me.n.total = 1
    BY <1>0, <2>2, AtWork, Counted DEF JobsInv, CountsAgree
  <2>4. /\ w \in WorkerState /\ w.run = work.run /\ w.key = me.key /\ w.n = me.n /\ w.todo = work.todo
        /\ w.pc \in {"finish", "mark"} /\ (w.pc = "finish" => w.outcome = "canceled")
    <3>1. me.key \in MaybeKey /\ me.series \in Series /\ work \in WorkerState
      BY <1>0, AtWork, Typed DEF MaybeKey
    <3> QED
      BY <2>3, <3>1 DEF WorkerState, Terminal
  <2>5. work.todo = {}
    BY <1>0 DEF JobsInv, WorkAddsUp
  <2> HIDE DEF w
  <2>6. WorkAgrees'
    BY <1>0, <2>1, <2>2, <2>4 DEF WorkAgrees, Terminal
  <2>7. Processed(me.n) = 0 /\ Processed(me.n) <= me.n.total
    BY <2>3 DEF Processed
  <2>8. WorkAddsUp'
    BY <2>1, <2>3, <2>4, <2>5, <2>7 DEF WorkAddsUp, Unstarted
  <2> QED
    BY <1>0, <2>1, <2>4, <2>6, <2>8, NoRowWritten
<1> QED
  BY <1>2, <1>3

LEMMA MarkRunningKeeps ==
    ASSUME JobsInv, MarkRunning
    PROVE  JobsInv'
<1> DEFINE pc == IF work.key[1] = "series_thumbnail" THEN "check" ELSE "list"
           w == [work EXCEPT !.pc = pc]
           x == [row[work.run] EXCEPT !.status = "running"]
<1>0. /\ Working /\ work.pc = "mark" /\ work' = w
      /\ row' = IF RowReachable THEN [row EXCEPT ![work.run] = x] ELSE row
      /\ UNCHANGED <<series, home, queued, jobs, closing, request, changes, restarts>>
  BY DEF MarkRunning, Goto, Working, catalog, bounds
<1>1. row[work.run].status \in {"queued", "gone"}
  BY <1>0 DEF JobsInv, WorkAgrees
<1>2. /\ w \in WorkerState /\ w.pc = pc /\ w.run = work.run /\ w.key = work.key /\ w.n = work.n
      /\ w.todo = work.todo /\ pc \in {"check", "list"}
  BY Typed DEF WorkerState
<1>3. Unstarted /\ work.todo = {} /\ (work.key[1] # "series_index" => work.n.total = 1)
  BY <1>0 DEF JobsInv, WorkAddsUp
<1>4. /\ x \in RowState /\ x.status = "running" /\ x.n = row[work.run].n
      /\ x.key = row[work.run].key /\ x.series = row[work.run].series
  BY <1>0, AtWork DEF RowState, Live
<1>5. (pc = "check" => work.key[1] = "series_thumbnail") /\ (pc = "list" => work.key[1] # "series_thumbnail")
  OBVIOUS
<1> HIDE DEF pc, w, x
<1>6. WorkAddsUp'
  BY <1>0, <1>2, <1>3, <1>5 DEF WorkAddsUp, Unstarted
<1>7. CASE RowReachable
  <2>1. row' \in [Runs -> RowState] /\ row'[work.run] = x /\ \A q \in Runs : q # work.run => row'[q] = row[q]
    BY <1>0, <1>4, <1>7, AtWork, Typed
  <2>2. OwnRowOnly
    BY <1>0, <1>2, <1>4, <1>7, <2>1, AtWork DEF OwnRowOnly, RowReachable
  <2>3. WorkAgrees'
    BY <1>0, <1>2, <1>4, <2>1 DEF WorkAgrees
  <2>4. CountsAgree'
    BY <1>4, <2>1 DEF JobsInv, CountsAgree
  <2>5. ResultsAddUp'
    BY <1>4, <2>1 DEF JobsInv, ResultsAddUp
  <2> QED
    BY <1>6, <2>2, <2>3, <2>4, <2>5, OwnRowKeeps DEF JobsInv
<1>8. CASE ~RowReachable
  <2>1. row' = row
    BY <1>0, <1>8
  <2>2. row[work.run].status = "gone" \/ (row[work.run].status = "queued" /\ closing)
    BY <1>1, <1>8 DEF RowReachable, Exists
  <2>3. WorkAgrees'
    BY <1>0, <1>2, <2>1, <2>2 DEF WorkAgrees
  <2> QED
    BY <1>0, <1>2, <1>6, <2>1, <2>3, AtWork, NoRowWritten
<1> QED
  BY <1>7, <1>8

LEMMA ListBooksKeeps ==
    ASSUME JobsInv, ListBooks
    PROVE  JobsInv'
<1>0. /\ Working /\ work.pc = "list"
      /\ UNCHANGED <<series, home, row, queued, jobs, closing, request, changes, restarts>>
  BY DEF ListBooks, Working, catalog, bounds
<1>1. /\ Unstarted /\ (work.key[1] # "series_index" => work.n.total = 1)
      /\ work.key[1] # "series_thumbnail"
  BY <1>0 DEF JobsInv, WorkAddsUp
<1>2. row[work.run].status \in {"running", "gone"} \/ (row[work.run].status = "queued" /\ closing)
  BY <1>0 DEF JobsInv, WorkAgrees
<1>3. /\ work.key \in Keys /\ work.key = row[work.run].key
      /\ work.key[1] \in {"book_index", "series_index", "series_thumbnail"}
  BY <1>0, AtWork
<1>4. CASE closing \/ (work.key[1] = "book_index" /\ home[work.key[2]] = None)
  <2>1. Finish("failed") /\ "failed" \in Terminal
    BY <1>4 DEF ListBooks, Terminal
  <2>2. Processed(work.n) <= work.n.total
    BY <1>1, Counted DEF Unstarted, Processed
  <2> QED
    BY <1>0, <1>2, <2>1, <2>2, FinishKeeps
<1>5. CASE ~closing /\ work.key[1] = "book_index" /\ home[work.key[2]] # None
  <2> DEFINE w == [work EXCEPT !.pc = "build", !.todo = {work.key[2]}]
  <2>1. work' = w
    BY <1>5 DEF ListBooks
  <2>2. work.key[2] \in Books
    BY <1>3, <1>5, KeyTypes
  <2>3. w \in WorkerState /\ w.pc = "build" /\ w.run = work.run /\ w.key = work.key /\ w.n = work.n
    BY <2>2, Typed DEF WorkerState
  <2> HIDE DEF w
  <2>4. WorkAgrees'
    BY <1>0, <1>2, <1>5, <2>1, <2>3, AtWork DEF WorkAgrees
  <2>5. WorkAddsUp'
    BY <1>1, <1>5, <2>1, <2>3 DEF WorkAddsUp, Unstarted
  <2> QED
    BY <1>0, <1>3, <2>1, <2>3, <2>4, <2>5, NoRowWritten
<1>6. CASE ~closing /\ work.key[1] # "book_index"
  <2> DEFINE B == BooksIn(work.series)
             n == [work.n EXCEPT !.total = Cardinality(B)]
             w == [work EXCEPT !.pc = "progress", !.todo = B, !.n = n]
  <2>1. work' = w
    BY <1>6 DEF ListBooks
  <2>2. B \in SUBSET Books
    BY DEF BooksIn
  <2>3. Cardinality(B) \in Items /\ Cardinality(B) \in Nat
    BY <2>2, BookCount, ItemRange DEF Items
  <2>4. n \in Counts /\ n.done = 0 /\ n.failed = 0 /\ n.total = Cardinality(B)
    BY <1>1, <2>3, Counted DEF Counts, Unstarted
  <2> HIDE DEF n, B
  <2>5. /\ w \in WorkerState /\ w.pc = "progress" /\ w.run = work.run /\ w.key = work.key
        /\ w.n = n /\ w.todo = B
    BY <2>2, <2>4, Typed DEF WorkerState
  <2> HIDE DEF w
  <2>6. WorkAgrees'
    BY <1>0, <1>2, <1>6, <2>1, <2>5, AtWork DEF WorkAgrees
  <2>7. Processed(n) + Cardinality(B) = n.total
    BY <2>3, <2>4 DEF Processed
  <2>8. WorkAddsUp'
    BY <1>1, <1>6, <2>1, <2>5, <2>7 DEF WorkAddsUp
  <2> QED
    BY <1>0, <1>3, <2>1, <2>5, <2>6, <2>8, NoRowWritten
<1> QED
  BY <1>4, <1>5, <1>6

LEMMA ResultOf ==
    ASSUME NEW n \in Counts
    PROVE  /\ Result(n) \in Terminal /\ (Result(n) = "success" => n.failed = 0)
           /\ Result(n) = "partial" /\ Processed(n) = n.total => n.failed \in 1..n.total - 1
<1>1. n.done \in Nat /\ n.failed \in Nat /\ n.total \in Nat
  BY ItemRange DEF Counts
<1>2. Result(n) \in Terminal /\ (Result(n) = "success" => n.failed = 0)
  BY DEF Result, Terminal
<1>3. Result(n) = "partial" => n.failed # 0 /\ n.done # 0
  BY DEF Result
<1> QED
  BY <1>1, <1>2, <1>3 DEF Processed

(* Its row is not reachable, or to be canceled. *)
LEMMA CanceledKeeps ==
    ASSUME JobsInv, work.pc \in {"progress", "check"}, Finish("canceled"),
           UNCHANGED <<series, home, row, queued, jobs, closing, request, changes, restarts>>
    PROVE  JobsInv'
<1>1. Working /\ work.pc # "read" /\ "canceled" \in Terminal
  BY DEF Working, Terminal
<1>2. row[work.run].status \in {"queued", "running", "gone"}
  BY DEF JobsInv, WorkAgrees
<1>3. Processed(work.n) <= work.n.total
  <2>1. \/ Processed(work.n) + Cardinality(work.todo) = work.n.total
        \/ Unstarted /\ work.n.total = 1
    BY DEF JobsInv, WorkAddsUp
  <2> QED
    BY <2>1, Counted DEF Processed, Unstarted
<1> QED
  BY <1>1, <1>2, <1>3, FinishKeeps

LEMMA ProgressWritten ==
    ASSUME JobsInv, UpdateProgress, RowReachable, ~row[work.run].cancel
    PROVE  JobsInv'
<1> DEFINE x == [row[work.run] EXCEPT !.n = work.n]
           finished == [work EXCEPT !.pc = "finish", !.outcome = Result(work.n)]
           next == [work EXCEPT !.pc = "check"]
<1>0. /\ Working /\ work.pc = "progress" /\ row' = [row EXCEPT ![work.run] = x]
      /\ work' = IF work.todo = {} THEN finished ELSE next
      /\ UNCHANGED <<series, home, queued, jobs, closing, request, changes, restarts>>
  BY DEF UpdateProgress, Finish, Goto, Working, catalog, bounds
<1>1. row[work.run].status = "running"
  BY <1>0 DEF JobsInv, WorkAgrees, RowReachable, Exists
<1>2. /\ work.key[1] # "book_index"
      /\ work.key[1] = "series_thumbnail" => work.todo = {}
      /\ Processed(work.n) + Cardinality(work.todo) = work.n.total
  BY <1>0 DEF JobsInv, WorkAddsUp
<1>3. Processed(work.n) <= work.n.total /\ (work.todo = {} => Processed(work.n) = work.n.total)
  <2>1. Processed(work.n) \in Nat
    BY Counted DEF Processed
  <2>2. work.todo = {} => Cardinality(work.todo) = 0
    BY Counted, BookCount
  <2> QED
    BY <1>2, <2>1, <2>2, Counted
<1>4. /\ x \in RowState /\ x.status = "running" /\ x.n = work.n
      /\ x.key = row[work.run].key /\ x.series = row[work.run].series
  <2>1. row[work.run] \in RowState /\ work.n \in Counts
    BY <1>0, AtWork, Counted
  <2> QED
    BY <1>1, <2>1 DEF RowState
<1>5. /\ Result(work.n) \in Terminal /\ (Result(work.n) = "success" => work.n.failed = 0)
      /\ work.todo = {} /\ Result(work.n) = "partial" => work.n.failed \in 1..work.n.total - 1
  BY <1>3, Counted, ResultOf
<1>6. work' \in WorkerState /\ work'.run = work.run /\ work'.key = work.key /\ work'.n = work.n
  BY <1>0, <1>5, Typed DEF WorkerState
<1>7. CASE work.todo = {}
  <2>1. work'.pc = "finish" /\ work'.outcome = Result(work.n)
    BY <1>0, <1>7, Typed DEF WorkerState
  <2>2. WorkAddsUp'
    BY <1>3, <1>5, <1>6, <1>7, <2>1 DEF WorkAddsUp
  <2> QED
    <3> HIDE DEF x, finished, next
    <3>1. row' \in [Runs -> RowState] /\ row'[work.run] = x /\ \A q \in Runs : q # work.run => row'[q] = row[q]
      BY <1>0, <1>4, AtWork, Typed
    <3>2. OwnRowOnly
      BY <1>0, <1>4, <1>6, <2>1, <3>1, AtWork DEF OwnRowOnly, RowReachable
    <3>3. WorkAgrees'
      BY <1>4, <1>5, <1>6, <2>1, <3>1 DEF WorkAgrees
    <3>4. CountsAgree'
      BY <1>4, <3>1 DEF JobsInv, CountsAgree
    <3>5. ResultsAddUp'
      BY <1>3, <1>4, <3>1 DEF JobsInv, ResultsAddUp
    <3> QED
      BY <2>2, <3>2, <3>3, <3>4, <3>5, OwnRowKeeps DEF JobsInv
<1>8. CASE work.todo # {}
  <2>1. work'.pc = "check" /\ work'.todo = work.todo
    BY <1>0, <1>8, Typed DEF WorkerState
  <2>2. work.key[1] = "series_index"
    BY <1>0, <1>2, <1>8, AtWork
  <2>3. WorkAddsUp'
    BY <1>2, <1>6, <1>8, <2>1, <2>2 DEF WorkAddsUp
  <2> QED
    <3> HIDE DEF x, finished, next
    <3>1. row' \in [Runs -> RowState] /\ row'[work.run] = x /\ \A q \in Runs : q # work.run => row'[q] = row[q]
      BY <1>0, <1>4, AtWork, Typed
    <3>2. OwnRowOnly
      BY <1>0, <1>4, <1>6, <2>1, <3>1, AtWork DEF OwnRowOnly, RowReachable
    <3>3. WorkAgrees'
      BY <1>4, <1>6, <2>1, <3>1 DEF WorkAgrees
    <3>4. CountsAgree'
      BY <1>4, <3>1 DEF JobsInv, CountsAgree
    <3>5. ResultsAddUp'
      BY <1>3, <1>4, <3>1 DEF JobsInv, ResultsAddUp
    <3> QED
      BY <2>3, <3>2, <3>3, <3>4, <3>5, OwnRowKeeps DEF JobsInv
<1> QED
  BY <1>7, <1>8

LEMMA UpdateProgressKeeps ==
    ASSUME JobsInv, UpdateProgress
    PROVE  JobsInv'
<1>1. CASE RowReachable /\ ~row[work.run].cancel
  BY <1>1, ProgressWritten
<1>2. CASE ~(RowReachable /\ ~row[work.run].cancel)
  <2>1. Finish("canceled") /\ UNCHANGED row
    BY <1>2 DEF UpdateProgress
  <2>2. /\ work.pc = "progress"
        /\ UNCHANGED <<series, home, queued, jobs, closing, request, changes, restarts>>
    BY DEF UpdateProgress, catalog, bounds
  <2> QED
    BY <2>1, <2>2, CanceledKeeps
<1> QED
  BY <1>1, <1>2

LEMMA CheckCancelKeeps ==
    ASSUME JobsInv, CheckCancel
    PROVE  JobsInv'
<1>0. /\ Working /\ work.pc = "check"
      /\ UNCHANGED <<series, home, row, queued, jobs, closing, request, changes, restarts>>
  BY DEF CheckCancel, Working, catalog, bounds
<1>1. CASE RowReachable /\ ~row[work.run].cancel
  <2> DEFINE w == [work EXCEPT !.pc = "build"]
  <2>1. work' = w
    BY <1>1 DEF CheckCancel, Goto
  <2>2. /\ w \in WorkerState /\ w.pc = "build" /\ w.run = work.run /\ w.key = work.key
        /\ w.n = work.n /\ w.todo = work.todo
    BY Typed DEF WorkerState
  <2>3. row[work.run].status = "running"
    BY <1>0, <1>1 DEF JobsInv, WorkAgrees, RowReachable, Exists
  <2>4. \/ /\ work.key[1] = "series_index" /\ work.todo # {}
           /\ Processed(work.n) + Cardinality(work.todo) = work.n.total
        \/ work.key[1] = "series_thumbnail" /\ work.todo = {} /\ Unstarted /\ work.n.total = 1
    BY <1>0 DEF JobsInv, WorkAddsUp
  <2> HIDE DEF w
  <2>5. WorkAgrees'
    BY <1>0, <2>1, <2>2, <2>3, AtWork DEF WorkAgrees
  <2>6. WorkAddsUp'
    BY <2>1, <2>2, <2>4 DEF WorkAddsUp, Unstarted
  <2> QED
    BY <1>0, <2>1, <2>2, <2>5, <2>6, AtWork, NoRowWritten
<1>2. CASE ~(RowReachable /\ ~row[work.run].cancel)
  <2>1. Finish("canceled")
    BY <1>2 DEF CheckCancel
  <2> QED
    BY <1>0, <2>1, CanceledKeeps
<1> QED
  BY <1>1, <1>2

(* One more of the items is counted, as done or as failed. *)
LEMMA OneMore ==
    ASSUME NEW n \in Counts, NEW o \in {"done", "failed"}, Processed(n) < n.total
    PROVE  LET m == [n EXCEPT ![o] = @ + 1] IN
           m \in Counts /\ m.total = n.total /\ Processed(m) = Processed(n) + 1
<1> DEFINE m == [n EXCEPT ![o] = @ + 1]
<1> SUFFICES m \in Counts /\ m.total = n.total /\ Processed(m) = Processed(n) + 1
  OBVIOUS
<1>1. /\ n.done \in Nat /\ n.failed \in Nat /\ n.total \in Nat
      /\ n.done + 1 \in Items /\ n.failed + 1 \in Items /\ n.total \in Items
  BY ItemRange DEF Counts, Processed, Items
<1>2. CASE o = "done"
  <2>0. m = [n EXCEPT !.done = n.done + 1]
    BY <1>2
  <2> HIDE DEF m
  <2>1. m.done = n.done + 1 /\ m.failed = n.failed /\ m.total = n.total /\ m \in Counts
    BY <1>1, <2>0 DEF Counts
  <2>2. Processed(m) = Processed(n) + 1
    BY <1>1, <2>1 DEF Processed
  <2> QED
    BY <2>1, <2>2
<1>3. CASE o = "failed"
  <2>0. m = [n EXCEPT !.failed = n.failed + 1]
    BY <1>3
  <2> HIDE DEF m
  <2>1. m.done = n.done /\ m.failed = n.failed + 1 /\ m.total = n.total /\ m \in Counts
    BY <1>1, <2>0 DEF Counts
  <2>2. Processed(m) = Processed(n) + 1
    BY <1>1, <2>1 DEF Processed
  <2> QED
    BY <2>1, <2>2
<1> QED
  BY <1>2, <1>3

LEMMA RestOf ==
    ASSUME NEW S \in SUBSET Books, NEW rest \in Rests(S)
    PROVE  /\ rest \in SUBSET Books
           /\ S = {} => rest = {}
           /\ S # {} => Cardinality(rest) = Cardinality(S) - 1
<1>1. CASE S = {}
  BY <1>1 DEF Rests
<1>2. CASE S # {}
  <2>1. PICK b \in S : rest = S \ {b}
    BY <1>2 DEF Rests
  <2> QED
    BY <1>2, <2>1, OneBookLess
<1> QED
  BY <1>1, <1>2

LEMMA BuildKeeps ==
    ASSUME JobsInv, Build
    PROVE  JobsInv'
<1>0. /\ Working /\ work.pc = "build"
      /\ UNCHANGED <<series, home, row, queued, jobs, closing, request, changes, restarts>>
  BY DEF Build, Working, catalog, bounds
<1>1. PICK o \in {"done", "failed"}, rest \in Rests(work.todo) :
         LET n == [work.n EXCEPT ![o] = @ + 1] IN
         work' = [work EXCEPT !.n = n, !.todo = rest,
                              !.pc = IF work.key[1] = "book_index" THEN "finish" ELSE "progress",
                              !.outcome = IF work.key[1] = "book_index" THEN Result(n) ELSE "none"]
  BY DEF Build
<1> DEFINE n == [work.n EXCEPT ![o] = @ + 1]
           pc == IF work.key[1] = "book_index" THEN "finish" ELSE "progress"
           outcome == IF work.key[1] = "book_index" THEN Result(n) ELSE "none"
<1>2. work' = [work EXCEPT !.n = n, !.todo = rest, !.pc = pc, !.outcome = outcome]
  BY <1>1
<1>3. /\ rest \in SUBSET Books
      /\ work.todo = {} => rest = {}
      /\ work.todo # {} => Cardinality(rest) = Cardinality(work.todo) - 1
  BY Counted, RestOf
<1>4. \/ /\ work.key[1] = "series_index" /\ work.todo # {}
         /\ Processed(work.n) + Cardinality(work.todo) = work.n.total
      \/ work.key[1] = "series_thumbnail" /\ work.todo = {} /\ Unstarted /\ work.n.total = 1
      \/ work.key[1] = "book_index" /\ Unstarted /\ work.n.total = 1
  BY <1>0 DEF JobsInv, WorkAddsUp
<1>5. Processed(work.n) < work.n.total
  <2>1. CASE Unstarted /\ work.n.total = 1
    BY <2>1 DEF Unstarted, Processed
  <2>2. CASE work.todo # {} /\ Processed(work.n) + Cardinality(work.todo) = work.n.total
    <3>1. Cardinality(work.todo) # 0
      BY <2>2, Counted, BookCount
    <3> QED
      BY <2>2, <3>1, Counted DEF Processed
  <2> QED
    BY <1>4, <2>1, <2>2
<1>6. n \in Counts /\ n.total = work.n.total /\ Processed(n) = Processed(work.n) + 1
  BY <1>5, Counted, OneMore
<1>7. Processed(work.n) \in Nat /\ Processed(n) \in Nat
  BY <1>6, Counted DEF Processed
<1> HIDE DEF n
<1>8. Result(n) \in Terminal /\ (Result(n) = "success" => n.failed = 0)
      /\ (Result(n) = "partial" /\ Processed(n) = n.total => n.failed \in 1..n.total - 1)
  BY <1>6, ResultOf
<1>9. /\ work' \in WorkerState /\ work'.pc = pc /\ work'.run = work.run /\ work'.key = work.key
      /\ work'.n = n /\ work'.todo = rest /\ work'.outcome = outcome
  <2>1. work \in WorkerState /\ outcome \in {"none"} \cup Terminal
    BY <1>8, Typed
  <2> HIDE DEF outcome
  <2> QED
    BY <1>2, <1>3, <1>6, <2>1 DEF WorkerState
<1>10. work'.key = row[work.run].key /\ row[work.run].status \in {"running", "gone"}
  BY <1>0, <1>9, AtWork DEF JobsInv, WorkAgrees
<1>11. CASE work.key[1] = "book_index"
  <2>1. pc = "finish" /\ outcome = Result(n)
    BY <1>11
  <2> HIDE DEF pc, outcome
  <2>2. Processed(n) = n.total
    BY <1>4, <1>6, <1>11 DEF Unstarted, Processed
  <2>3. WorkAgrees'
    BY <1>0, <1>8, <1>9, <1>10, <2>1 DEF WorkAgrees
  <2>4. WorkAddsUp'
    BY <1>6, <1>7, <1>8, <1>9, <2>1, <2>2 DEF WorkAddsUp
  <2> QED
    BY <1>0, <1>9, <1>10, <2>1, <2>3, <2>4, NoRowWritten
<1>12. CASE work.key[1] # "book_index"
  <2>1. pc = "progress"
    BY <1>12
  <2> HIDE DEF pc, outcome
  <2>2. work.key[1] = "series_thumbnail" => rest = {}
    BY <1>3, <1>4
  <2>3. Processed(n) + Cardinality(rest) = n.total
    <3>1. CASE work.todo = {}
      <4>1. Cardinality(rest) = 0
        BY <1>3, <3>1, BookCount
      <4> QED
        BY <1>4, <1>6, <1>12, <3>1, <4>1 DEF Unstarted, Processed
    <3>2. CASE work.todo # {}
      BY <1>3, <1>4, <1>6, <1>7, <1>12, <3>2, Counted
    <3> QED
      BY <3>1, <3>2
  <2>4. WorkAgrees'
    BY <1>0, <1>9, <1>10, <2>1 DEF WorkAgrees
  <2>5. WorkAddsUp'
    BY <1>9, <1>12, <2>1, <2>2, <2>3 DEF WorkAddsUp
  <2> QED
    BY <1>0, <1>9, <1>10, <2>1, <2>4, <2>5, NoRowWritten
<1> QED
  BY <1>11, <1>12

LEMMA FinishRunKeeps ==
    ASSUME JobsInv, FinishRun
    PROVE  JobsInv'
<1> DEFINE w == [work EXCEPT !.pc = "release", !.todo = {}, !.n = NoCounts]
           x == [row[work.run] EXCEPT !.status = work.outcome, !.n = work.n]
<1>0. /\ Working /\ work.pc = "finish" /\ work' = w
      /\ UNCHANGED <<series, home, queued, jobs, closing, request, changes, restarts>>
  BY DEF FinishRun, Working, catalog, bounds
<1>1. (Exists(work.run) /\ row' = [row EXCEPT ![work.run] = x]) \/ row' = row
  BY DEF FinishRun
<1>2. work.run \in Runs /\ work.outcome \in Terminal /\ work.key = row[work.run].key
  BY <1>0, AtWork DEF JobsInv, WorkAgrees
<1>3. /\ Processed(work.n) <= work.n.total
      /\ work.outcome \in {"success", "partial"} => Processed(work.n) = work.n.total
      /\ work.outcome = "success" => work.n.failed = 0
      /\ work.outcome = "partial" => work.n.failed \in 1..work.n.total - 1
  BY <1>0 DEF JobsInv, WorkAddsUp
<1>4. w \in WorkerState /\ w.pc = "release" /\ w.run = work.run /\ w.key = work.key
  <2>1. work \in WorkerState /\ NoCounts \in Counts
    BY IdleTypes, Typed
  <2> QED
    BY <2>1 DEF WorkerState
<1>5. /\ x \in RowState /\ x.status = work.outcome /\ x.n = work.n
      /\ x.key = row[work.run].key /\ x.series = row[work.run].series
  <2>1. row[work.run] \in RowState /\ work.n \in Counts
    BY <1>2, Counted
  <2> QED
    BY <1>2, <2>1 DEF RowState
<1> HIDE DEF w, x
<1>6. WorkAddsUp'
  BY <1>0, <1>4 DEF WorkAddsUp
<1>7. CASE row' = row
  <2>1. WorkAgrees'
    BY <1>0, <1>4, <1>7, AtWork DEF WorkAgrees
  <2> QED
    BY <1>0, <1>2, <1>4, <1>6, <1>7, <2>1, NoRowWritten
<1>8. CASE Exists(work.run) /\ row' = [row EXCEPT ![work.run] = x]
  <2>1. row' \in [Runs -> RowState] /\ row'[work.run] = x /\ \A q \in Runs : q # work.run => row'[q] = row[q]
    BY <1>2, <1>5, <1>8, Typed
  <2>2. x.status \notin {"none", "queued"}
    BY <1>2, <1>5 DEF Terminal
  <2>3. OwnRowOnly
    BY <1>0, <1>2, <1>4, <1>5, <1>8, <2>1, <2>2 DEF OwnRowOnly
  <2>4. WorkAgrees'
    BY <1>0, <1>4, <2>1, <2>2 DEF WorkAgrees
  <2>5. CountsAgree'
    BY <2>1, <2>2 DEF JobsInv, CountsAgree
  <2>6. ResultsAddUp'
    BY <1>3, <1>5, <2>1 DEF JobsInv, ResultsAddUp
  <2> QED
    BY <1>6, <2>3, <2>4, <2>5, <2>6, OwnRowKeeps DEF JobsInv
<1> QED
  BY <1>1, <1>7, <1>8

-----------------------------------------------------------------------------
(* The theorems.                                                           *)

LEMMA NextInv == JobsInv /\ [Next]_vars => JobsInv'
<1> SUFFICES ASSUME JobsInv, [Next]_vars
             PROVE  JobsInv'
  OBVIOUS
<1>1. ASSUME NEW p \in Requests, RequestStep(p) PROVE JobsInv'
  BY <1>1, ReserveKeeps, InsertRunKeeps, ReadBackKeeps, SendJobKeeps, StartFailsKeeps DEF RequestStep
<1>2. ASSUME NEW p \in Requests, NEW k \in Keys, ReadTarget(p, k) PROVE JobsInv'
  BY <1>2, ReadTargetKeeps
<1>3. ASSUME NEW r \in Runs, Cancel(r) PROVE JobsInv'
  BY <1>3, CancelKeeps
<1>4. CASE WorkerStep
  BY <1>4, TakeJobKeeps, ReadRunKeeps, MarkRunningKeeps, ListBooksKeeps, UpdateProgressKeeps,
     CheckCancelKeeps, BuildKeeps, FinishRunKeeps, ReleaseKeeps DEF WorkerStep
<1>5. ASSUME NEW b \in Books, DropBook(b) PROVE JobsInv'
  BY <1>5, DropBookKeeps
<1>6. ASSUME NEW b \in Books, NEW s \in Series, PlaceBook(b, s) PROVE JobsInv'
  BY <1>6, PlaceBookKeeps
<1>7. ASSUME NEW s \in Series, DropSeries(s) PROVE JobsInv'
  BY <1>7, DropSeriesKeeps
<1>8. CASE Close \/ Restart \/ UNCHANGED vars
  BY <1>8, CloseKeeps, RestartKeeps, StutterKeeps
<1> QED
  BY <1>1, <1>2, <1>3, <1>4, <1>5, <1>6, <1>7, <1>8 DEF Next

LEMMA AlwaysJobsInv == Spec => []JobsInv
BY InitInv, NextInv, PTL DEF Spec

(* Every variable of the maintenance jobs keeps its type: the counters of  *)
(* a run stay within the books there are, the channel within its capacity. *)
THEOREM TypeCorrect == Spec => []TypeOK
<1>1. JobsInv => TypeOK
  BY DEF JobsInv
<1> QED
  BY <1>1, AlwaysJobsInv, PTL

(* Two jobs of one kind for one target are never under way together:       *)
(* whoever carries a run carries the one Manager.queued holds for its key, *)
(* also when scans have moved or removed the target.                       *)
THEOREM RunsReserved == Spec => []CarriedRunsReserved
<1>1. JobsInv => CarriedRunsReserved
  BY DEF JobsInv
<1> QED
  BY <1>1, AlwaysJobsInv, PTL

(* A target is refused as "already queued or running" only while a run is  *)
(* under way for it, unless a scan removed the run's row with the target:  *)
(* no failing step of a start or of execute leaves a reservation behind in *)
(* any other way.                                                          *)
THEOREM LeaksByCascade == Spec => []LeakOnlyByCascade
<1>1. JobsInv => LeakOnlyByCascade
  BY DEF JobsInv
<1> QED
  BY <1>1, AlwaysJobsInv, PTL

(* The counters the detail page shows of a run add up, however the books   *)
(* of its series changed between the request and the job.                  *)
THEOREM TotalsAddUp == Spec => []ResultsAddUp
<1>1. JobsInv => ResultsAddUp
  BY DEF JobsInv
<1> QED
  BY <1>1, AlwaysJobsInv, PTL

-----------------------------------------------------------------------------
(* The rows live as RunLifecycle promises.                                 *)

(* What may become of one row in one step. *)
RowStep(r) ==
    \/ /\ row'[r].cancel = row[r].cancel
       /\ \/ row'[r].status = row[r].status
          \/ row[r].status = "none" /\ row'[r].status = "queued"
          \/ row[r].status = "queued" /\ row'[r].status = "running"
          \/ /\ row[r].status \in Live /\ row'[r].status \in Terminal
             /\ row'[r].status \in {"success", "partial"} => row[r].status = "running"
          \/ row[r].status # "none" /\ row'[r].status = "gone"
    \/ row[r].status \in Live /\ row'[r].status = row[r].status /\ row'[r].cancel = TRUE

LEMMA RowStepsLive ==
    ASSUME \A r \in Runs : RowStep(r)
    PROVE  Lifecycle!Next
<1> SUFFICES ASSUME NEW r \in Runs
             PROVE  \/ Lifecycle!Accept(r) \/ Lifecycle!Start(r) \/ Lifecycle!RequestCancel(r)
                    \/ Lifecycle!End(r) \/ Lifecycle!Remove(r) \/ Lifecycle!Rest(r)
  BY DEF Lifecycle!Next
<1>1. RowStep(r)
  OBVIOUS
<1> QED
  BY <1>1 DEF RowStep, Live, Terminal, Lifecycle!Accept, Lifecycle!Start, Lifecycle!RequestCancel,
     Lifecycle!End, Lifecycle!Remove, Lifecycle!Rest, Lifecycle!Live, Lifecycle!Terminal

LEMMA SameRowsLive ==
    ASSUME UNCHANGED row
    PROVE  \A r \in Runs : RowStep(r)
BY DEF RowStep

(* One row is replaced. *)
LEMMA OneRowLives ==
    ASSUME JobsInv, NEW r \in Runs, NEW x \in RowState, row' = [row EXCEPT ![r] = x], RowStep(r)
    PROVE  \A q \in Runs : RowStep(q)
<1> SUFFICES ASSUME NEW q \in Runs, q # r PROVE RowStep(q)
  OBVIOUS
<1>1. row'[q] = row[q]
  BY Typed
<1> QED
  BY <1>1 DEF RowStep

LEMMA InsertLives ==
    ASSUME JobsInv, NEW p \in Requests, InsertRun(p)
    PROVE  \A r \in Runs : RowStep(r)
<1> DEFINE n == [NoCounts EXCEPT !.total = request[p].total]
           x == [key |-> request[p].key, series |-> request[p].series, status |-> "queued",
                 cancel |-> FALSE, n |-> n]
<1>1. Carrying(p) /\ request[p].pc = "insert" /\ row' = [row EXCEPT ![request[p].run] = x]
  BY DEF InsertRun, Carrying
<1>2. /\ request[p].run \in Runs /\ request[p].key \in MaybeKey /\ request[p].series \in Series
      /\ request[p].total \in Items
  BY <1>1, RunOfRequest, Typed DEF RequestState, MaybeKey
<1>3. row[request[p].run].status = "none" /\ row[request[p].run].cancel = FALSE
  BY <1>1, <1>2, IdleTypes DEF JobsInv, RowsAgree
<1>4. n \in Counts
  BY <1>2, IdleTypes DEF Counts
<1> HIDE DEF n
<1>5. x \in RowState /\ x.status = "queued" /\ x.cancel = FALSE
  BY <1>2, <1>4 DEF RowState, Live
<1> HIDE DEF x
<1>6. row'[request[p].run] = x
  BY <1>1, <1>2, Typed
<1>7. RowStep(request[p].run)
  <2>1. /\ row'[request[p].run].status = "queued"
        /\ row'[request[p].run].cancel = row[request[p].run].cancel
    BY <1>3, <1>5, <1>6
  <2> QED
    BY <1>3, <2>1 DEF RowStep
<1> QED
  BY <1>1, <1>2, <1>5, <1>7, OneRowLives

LEMMA CancelLives ==
    ASSUME JobsInv, NEW r \in Runs, Cancel(r)
    PROVE  \A q \in Runs : RowStep(q)
<1> DEFINE x == [row[r] EXCEPT !.cancel = TRUE]
<1>1. row' = [row EXCEPT ![r] = x] /\ row[r].status \in Live
  BY DEF Cancel
<1>2. x \in RowState /\ x.cancel = TRUE /\ x.status = row[r].status
  BY Typed DEF RowState
<1> HIDE DEF x
<1>3. row'[r] = x
  BY <1>1, Typed
<1>4. RowStep(r)
  BY <1>1, <1>2, <1>3 DEF RowStep
<1> QED
  BY <1>1, <1>2, <1>4, OneRowLives

(* A cascade takes only rows that are there: the others are for no key and *)
(* no series.                                                              *)
LEMMA CascadeLives ==
    ASSUME JobsInv, NEW lost \in SUBSET Runs, row' = Cascade(lost),
           \A r \in lost : row[r].series \in Series \/ row[r].key # <<>>
    PROVE  \A r \in Runs : RowStep(r)
<1> SUFFICES ASSUME NEW r \in Runs PROVE RowStep(r)
  OBVIOUS
<1>1. row'[r] = IF r \in lost THEN [row[r] EXCEPT !.status = "gone"] ELSE row[r]
  BY DEF Cascade
<1>2. row[r] \in RowState
  BY Typed
<1>3. r \in lost => row[r].status # "none"
  BY IdleTypes, Bounds DEF JobsInv, RowsAgree
<1> QED
  BY <1>1, <1>2, <1>3 DEF RowStep, RowState

LEMMA RestartLives ==
    ASSUME JobsInv, Restart
    PROVE  \A r \in Runs : RowStep(r)
<1> SUFFICES ASSUME NEW r \in Runs PROVE RowStep(r)
  OBVIOUS
<1>1. row'[r] = Repaired(r) /\ row[r] \in RowState
  BY Typed DEF Restart
<1> QED
  BY <1>1 DEF RowStep, RowState, Repaired, Terminal

(* The worker replaces its own row. *)
LEMMA ProgressLives ==
    ASSUME JobsInv, UpdateProgress
    PROVE  \A r \in Runs : RowStep(r)
<1>1. CASE UNCHANGED row
  BY <1>1, SameRowsLive
<1>2. CASE row' # row
  <2> DEFINE x == [row[work.run] EXCEPT !.n = work.n]
  <2>1. row' = [row EXCEPT ![work.run] = x] /\ Working
    BY <1>2 DEF UpdateProgress, Working
  <2>2. work.run \in Runs /\ row[work.run] \in RowState /\ work.n \in Counts
    BY <2>1, AtWork, Counted
  <2>3. x \in RowState /\ x.status = row[work.run].status /\ x.cancel = row[work.run].cancel
    BY <2>2 DEF RowState
  <2> HIDE DEF x
  <2>4. row'[work.run] = x
    BY <2>1, <2>2, Typed
  <2>5. RowStep(work.run)
    BY <2>3, <2>4 DEF RowStep
  <2> QED
    BY <2>1, <2>2, <2>3, <2>5, OneRowLives
<1> QED
  BY <1>1, <1>2

LEMMA MarkLives ==
    ASSUME JobsInv, MarkRunning
    PROVE  \A r \in Runs : RowStep(r)
<1>1. CASE UNCHANGED row
  BY <1>1, SameRowsLive
<1>2. CASE row' # row
  <2> DEFINE x == [row[work.run] EXCEPT !.status = "running"]
  <2>1. row' = [row EXCEPT ![work.run] = x] /\ Exists(work.run) /\ work.pc = "mark" /\ Working
    BY <1>2 DEF MarkRunning, Working, RowReachable
  <2>2. work.run \in Runs /\ row[work.run] \in RowState
    BY <2>1, AtWork
  <2>3. row[work.run].status = "queued"
    BY <2>1 DEF JobsInv, WorkAgrees, Exists
  <2>4. x \in RowState /\ x.status = "running" /\ x.cancel = row[work.run].cancel
    BY <2>2 DEF RowState, Live
  <2> HIDE DEF x
  <2>5. row'[work.run] = x
    BY <2>1, <2>2, Typed
  <2>6. RowStep(work.run)
    BY <2>3, <2>4, <2>5 DEF RowStep
  <2> QED
    BY <2>1, <2>2, <2>4, <2>6, OneRowLives
<1> QED
  BY <1>1, <1>2

LEMMA FinishLives ==
    ASSUME JobsInv, FinishRun
    PROVE  \A r \in Runs : RowStep(r)
<1>1. CASE UNCHANGED row
  BY <1>1, SameRowsLive
<1>2. CASE row' # row
  <2> DEFINE x == [row[work.run] EXCEPT !.status = work.outcome, !.n = work.n]
  <2>1. row' = [row EXCEPT ![work.run] = x] /\ Exists(work.run) /\ work.pc = "finish" /\ Working
    BY <1>2 DEF FinishRun, Working
  <2>2. work.run \in Runs /\ row[work.run] \in RowState /\ work.n \in Counts
    BY <2>1, AtWork, Counted
  <2>3. /\ row[work.run].status \in Live /\ work.outcome \in Terminal
        /\ work.outcome \in {"success", "partial"} => row[work.run].status = "running"
    BY <2>1 DEF JobsInv, WorkAgrees, Exists, Live
  <2>4. x \in RowState /\ x.status = work.outcome /\ x.cancel = row[work.run].cancel
    BY <2>2, <2>3 DEF RowState
  <2> HIDE DEF x
  <2>5. row'[work.run] = x
    BY <2>1, <2>2, Typed
  <2>6. RowStep(work.run)
    BY <2>3, <2>4, <2>5 DEF RowStep
  <2> QED
    BY <2>1, <2>2, <2>4, <2>6, OneRowLives
<1> QED
  BY <1>1, <1>2

LEMMA InitLives == Init => Lifecycle!Init
<1> SUFFICES ASSUME Init PROVE Lifecycle!Init
  OBVIOUS
<1>1. \A r \in Runs : row[r].status = "none" /\ row[r].cancel = FALSE
  BY DEF Init, NoRow
<1>2. [r \in Runs |-> row[r].status] = [r \in Runs |-> "none"] /\ [r \in Runs |-> row[r].cancel] = [r \in Runs |-> FALSE]
  BY <1>1
<1> QED
  BY <1>2 DEF Lifecycle!Init

LEMMA NextRows ==
    ASSUME JobsInv, [Next]_vars
    PROVE  \A r \in Runs : RowStep(r)
<1>1. ASSUME NEW p \in Requests, RequestStep(p) PROVE \A r \in Runs : RowStep(r)
  <2>1. CASE InsertRun(p)
    BY <2>1, InsertLives
  <2>2. CASE ~InsertRun(p)
    BY <1>1, <2>2, SameRowsLive DEF RequestStep, Reserve, ReadBack, SendJob, StartFails
  <2> QED
    BY <2>1, <2>2
<1>2. ASSUME NEW p \in Requests, NEW k \in Keys, ReadTarget(p, k) PROVE UNCHANGED row
  BY <1>2 DEF ReadTarget
<1>3. ASSUME NEW r \in Runs, Cancel(r) PROVE \A q \in Runs : RowStep(q)
  BY <1>3, CancelLives
<1>4. CASE WorkerStep
  <2>1. CASE TakeJob \/ ReadRun \/ ListBooks \/ CheckCancel \/ Build \/ Release
    BY <2>1, SameRowsLive DEF TakeJob, ReadRun, ListBooks, CheckCancel, Build, Release
  <2>2. CASE MarkRunning \/ UpdateProgress \/ FinishRun
    BY <2>2, MarkLives, ProgressLives, FinishLives
  <2> QED
    BY <1>4, <2>1, <2>2 DEF WorkerStep
<1>5. ASSUME NEW b \in Books, DropBook(b) PROVE \A r \in Runs : RowStep(r)
  <2> DEFINE lost == {r \in Runs : row[r].key = <<"book_index", b>>}
  <2>1. row' = Cascade(lost) /\ \A r \in lost : row[r].key # <<>>
    BY <1>5 DEF DropBook
  <2> QED
    BY <2>1, CascadeLives
<1>6. ASSUME NEW s \in Series, DropSeries(s) PROVE \A r \in Runs : RowStep(r)
  <2> DEFINE lost == {r \in Runs : row[r].series = s \/ \E b \in BooksIn(s) : row[r].key = <<"book_index", b>>}
  <2>1. row' = Cascade(lost)
    BY <1>6 DEF DropSeries
  <2>2. \A r \in lost : row[r].series \in Series \/ row[r].key # <<>>
    OBVIOUS
  <2> QED
    BY <2>1, <2>2, CascadeLives
<1>7. ASSUME NEW b \in Books, NEW s \in Series, PlaceBook(b, s) PROVE UNCHANGED row
  BY <1>7 DEF PlaceBook
<1>8. CASE Restart
  BY <1>8, RestartLives
<1>9. CASE Close \/ UNCHANGED vars
  BY <1>9, SameRowsLive DEF Close, vars
<1> QED
  BY <1>1, <1>2, <1>3, <1>4, <1>5, <1>6, <1>7, <1>8, <1>9, SameRowsLive DEF Next

LEMMA NextLives == JobsInv /\ [Next]_vars => [Lifecycle!Next]_Lifecycle!lifecycle
BY NextRows, RowStepsLive

(* The maintenance_runs rows live as RunLifecycle promises: a result is    *)
(* written once, of a run that was seen running if it is a success, and a  *)
(* row removed with its target does not come back.                         *)
THEOREM RowsLive == Spec => RowsFollowLifecycle
BY InitLives, NextLives, AlwaysJobsInv, PTL DEF Spec, Lifecycle!Spec, RowsFollowLifecycle

-----------------------------------------------------------------------------
(* A run canceled before its start.                                        *)

(* What it has come to, and where the worker may stand that takes it: it   *)
(* reads the flag with the row, before it marks the row as running.        *)
Doomed(r) ==
    /\ row[r].status \in {"queued", "failed", "canceled", "gone"}
    /\ row[r].status = "queued" => row[r].cancel
    /\ work.pc # "idle" /\ work.run = r =>
          /\ work.pc \in {"read", "finish", "release"}
          /\ work.pc = "finish" => work.outcome = "canceled"

(* Only the worker writes that a run runs. *)
LEMMA RunningByMark ==
    ASSUME JobsInv, [Next]_vars, NEW r \in Runs, row[r].status # "running", row'[r].status = "running"
    PROVE  MarkRunning /\ work.run = r
<1>0. row \in [Runs -> RowState] /\ row[r] \in RowState
  BY Typed
<1>1. row' # row
  OBVIOUS
<1>2. ASSUME NEW p \in Requests, RequestStep(p) PROVE FALSE
  <2>1. InsertRun(p)
    BY <1>1, <1>2 DEF RequestStep, Reserve, ReadBack, SendJob, StartFails
  <2> QED
    BY <1>0, <2>1 DEF InsertRun
<1>3. ASSUME NEW q \in Runs, Cancel(q) PROVE FALSE
  BY <1>0, <1>3 DEF Cancel, RowState
<1>4. ASSUME NEW lost \in SUBSET Runs, row' = Cascade(lost) PROVE FALSE
  BY <1>0, <1>4 DEF Cascade, RowState
<1>5. ASSUME Restart PROVE FALSE
  BY <1>0, <1>5 DEF Restart, Repaired, RowState
<1>6. ASSUME FinishRun PROVE FALSE
  <2>1. work.outcome \in Terminal
    BY <1>6 DEF FinishRun, JobsInv, WorkAgrees
  <2> QED
    BY <1>0, <1>6, <2>1 DEF FinishRun, RowState, Terminal
<1>7. ASSUME UpdateProgress PROVE FALSE
  BY <1>0, <1>7 DEF UpdateProgress, RowState
<1>8. ~ \E b \in Books : DropBook(b)
  BY <1>4 DEF DropBook
<1>9. ~ \E s \in Series : DropSeries(s)
  BY <1>4 DEF DropSeries
<1>10. MarkRunning
  BY <1>1, <1>2, <1>3, <1>5, <1>6, <1>7, <1>8, <1>9
     DEF Next, vars, ReadTarget, WorkerStep, TakeJob, ReadRun, ListBooks, CheckCancel, Build, Release,
         PlaceBook, Close
<1> QED
  BY <1>0, <1>10 DEF MarkRunning

(* A flag is not taken back, and a row that is there not inserted again. *)
LEMMA DoomedRow ==
    ASSUME NEW r \in Runs, RowStep(r), Doomed(r), row'[r].status # "running"
    PROVE  /\ row'[r].status \in {"queued", "failed", "canceled", "gone"}
           /\ row'[r].status = "queued" => row'[r].cancel
<1>1. CASE row'[r].cancel = row[r].cancel
  <2>1. /\ row'[r].status \in {row[r].status, "queued", "failed", "canceled", "gone"}
        /\ row'[r].status = "queued" => row[r].status = "queued"
    BY DEF RowStep, Doomed, Live, Terminal
  <2> QED
    BY <1>1, <2>1 DEF Doomed
<1>2. CASE row[r].status \in Live /\ row'[r].status = row[r].status /\ row'[r].cancel = TRUE
  BY <1>2 DEF Doomed
<1> QED
  BY <1>1, <1>2 DEF RowStep

LEMMA DoomedWork ==
    ASSUME JobsInv, [Next]_vars, NEW r \in Runs, Doomed(r), work'.pc # "idle", work'.run = r
    PROVE  /\ work'.pc \in {"read", "finish", "release"}
           /\ work'.pc = "finish" => work'.outcome = "canceled"
<1>0. work \in WorkerState
  BY Typed
<1>1. CASE UNCHANGED work
  BY <1>1 DEF Doomed
<1>2. CASE TakeJob
  BY <1>2, IdleTypes DEF TakeJob, IdleWorker
<1>3. CASE ReadRun
  <2>1. work.pc = "read" /\ RowReachable /\ work.run = r
    BY <1>0, <1>3, IdleTypes DEF ReadRun, WorkerState
  <2>2. row[r].cancel
    BY <2>1 DEF Doomed, JobsInv, WorkAgrees, RowReachable, Exists
  <2> QED
    BY <1>0, <1>3, <2>1, <2>2 DEF ReadRun, WorkerState
<1>4. CASE FinishRun
  BY <1>0, <1>4 DEF FinishRun, WorkerState
<1>5. CASE Release \/ Restart
  BY <1>5, IdleTypes DEF Release, Restart
<1>6. ASSUME MarkRunning \/ ListBooks \/ UpdateProgress \/ CheckCancel \/ Build PROVE FALSE
  <2>1. work.pc \in {"mark", "list", "progress", "check", "build"} /\ work'.run = work.run
    BY <1>0, <1>6 DEF MarkRunning, ListBooks, UpdateProgress, CheckCancel, Build, Finish, Goto, WorkerState
  <2> QED
    BY <2>1 DEF Doomed
<1>7. CASE \/ \E p \in Requests : RequestStep(p) \/ \E k \in Keys : ReadTarget(p, k)
           \/ \E q \in Runs : Cancel(q)
           \/ \E b \in Books : DropBook(b) \/ \E s \in Series : PlaceBook(b, s)
           \/ \E s \in Series : DropSeries(s)
           \/ Close \/ UNCHANGED vars
  <2>1. UNCHANGED work
    BY <1>7 DEF RequestStep, Reserve, InsertRun, ReadBack, SendJob, StartFails, ReadTarget, Cancel, DropBook,
                PlaceBook, DropSeries, Close, vars, mem
  <2> QED
    BY <1>1, <2>1
<1> QED
  BY <1>2, <1>3, <1>4, <1>5, <1>6, <1>7 DEF Next, WorkerStep

LEMMA DoomedStays ==
    ASSUME NEW r \in Runs
    PROVE  JobsInv /\ [Next]_vars /\ Doomed(r) => Doomed(r)'
<1> SUFFICES ASSUME JobsInv, [Next]_vars, Doomed(r)
             PROVE  Doomed(r)'
  OBVIOUS
<1>1. row'[r].status # "running"
  <2>1. row[r].status # "running" /\ ~(work.pc = "mark" /\ work.run = r)
    BY DEF Doomed
  <2> QED
    BY <2>1, RunningByMark DEF MarkRunning
<1>2. /\ row'[r].status \in {"queued", "failed", "canceled", "gone"}
      /\ row'[r].status = "queued" => row'[r].cancel
  BY <1>1, NextRows, DoomedRow
<1>3. work'.pc # "idle" /\ work'.run = r =>
         /\ work'.pc \in {"read", "finish", "release"}
         /\ work'.pc = "finish" => work'.outcome = "canceled"
  BY DoomedWork
<1> QED
  BY <1>2, <1>3 DEF Doomed

(* A run whose cancel is recorded before the worker has taken it neither   *)
(* starts nor succeeds, in this process or, after a restart, in the next.  *)
THEOREM CanceledNeverStarts == Spec => CancelBeforeStartHolds
<1> SUFFICES ASSUME NEW r \in Runs
             PROVE  Spec => [](row[r].status = "queued" /\ row[r].cancel /\ work.run # r
                                 => [](row[r].status \notin {"running", "success", "partial"}))
  BY DEF CancelBeforeStartHolds
<1>1. row[r].status = "queued" /\ row[r].cancel /\ work.run # r => Doomed(r)
  BY DEF Doomed
<1>2. Doomed(r) => row[r].status \notin {"running", "success", "partial"}
  BY DEF Doomed
<1>3. JobsInv /\ [Next]_vars /\ Doomed(r) => Doomed(r)'
  BY DoomedStays
<1> QED
  BY <1>1, <1>2, <1>3, AlwaysJobsInv, PTL DEF Spec
=============================================================================
