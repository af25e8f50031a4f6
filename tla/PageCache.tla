------------------------------ MODULE PageCache ------------------------------
(***************************************************************************)
(* The disk cache of one type (range blocks or pages): a file and a row of *)
(* cache_entries per key, one load at a time per key, and an eviction that *)
(* every Put and every save of the limit runs.  Entries have size 1.       *)
(*                                                                         *)
(* Every file operation, every statement and every critical section of     *)
(* Manager.mu is a step.  A statement needs one of the Conns connections   *)
(* of the pool; an eviction that has not read its query to the end keeps   *)
(* one while it deletes.                                                   *)
(***************************************************************************)
EXTENDS Naturals, FiniteSets, Sequences

CONSTANTS
    Keys,       \* cache keys
    Readers,    \* callers of GetOrLoad
    Saver,      \* the admin's putSettings
    Conns,      \* SetMaxOpenConns
    Limits,     \* values of the limit, 0 for none
    MaxChanges, \* bound: changes of the limit and Clears
    MaxFaults,  \* bound: failed Puts and process restarts
    None        \* no reader

ASSUME CacheAssumption ==
    /\ Limits \subseteq Nat
    /\ Conns \in Nat \ {0}
    /\ MaxChanges \in Nat /\ MaxFaults \in Nat
    /\ Saver \notin Readers /\ None \notin Readers \cup {Saver}

VARIABLES
    file,      \* the keys whose file exists
    lru,       \* the keys with a row, ORDER BY last_access_at
    limit,     \* the setting
    flight,    \* Manager.inflight: the reader that loads the key
    call,      \* the calls of Readers and Saver
    clearing,  \* Clear: what RemoveAll has not removed yet
    enforced,  \* history: the limit the last eviction measured against
    changes, faults

disk   == <<file, lru>>
bounds == <<changes, faults>>
vars   == <<disk, limit, flight, call, clearing, enforced, bounds>>

Callers == Readers \cup {Saver}
Called(l, k, max) == [pc |-> l, key |-> k, limit |-> max, total |-> 0, victims |-> <<>>, open |-> FALSE]
Idle  == Called("idle", None, 0)
Quiet == [pc |-> "idle", todo |-> {}]

CallState ==
    [pc : {"idle", "get", "touch", "join", "wait", "load", "rename", "insert", "sum", "select",
           "remove", "delete", "close", "forget"},
     key : Keys \cup {None}, limit : Limits \cup {0}, total : Nat,
     victims : Seq(Keys), open : BOOLEAN]

TypeOK ==
    /\ file \in SUBSET Keys
    /\ lru \in Seq(Keys)
    /\ limit \in Limits
    /\ flight \in [Keys -> Readers \cup {None}]
    /\ call \in [Callers -> CallState]
    /\ clearing \in [pc : {"idle", "files", "rows"}, todo : SUBSET Keys]
    /\ enforced \in Limits \cup {0}
    /\ changes \in 0..MaxChanges
    /\ faults \in 0..MaxFaults

Init ==
    /\ file = {}
    /\ lru = <<>>
    /\ limit \in Limits
    /\ flight = [k \in Keys |-> None]
    /\ call = [c \in Callers |-> Idle]
    /\ clearing = Quiet
    /\ enforced = 0
    /\ changes = 0
    /\ faults = 0

Goto(c, l) == call' = [call EXCEPT ![c].pc = l]
At(c, l)   == call[c].pc = l
Fault      == faults < MaxFaults /\ faults' = faults + 1 /\ UNCHANGED changes

(* Evictions with an open query, and whether another statement can run. *)
Open     == {c \in Callers : call[c].open}
HasConn  == Cardinality(Open) < Conns

(* The primary key: a key is in lru at most once. *)
Places(k)  == {i \in 1 .. Len(lru) : lru[i] = k}
Without(k) ==
    IF Places(k) = {} THEN lru
    ELSE LET i == CHOOSE i \in Places(k) : TRUE
         IN  SubSeq(lru, 1, i - 1) \o SubSeq(lru, i + 1, Len(lru))

(* last_access_at is text with the trailing zeros of the fraction cut off: *)
(* within a second its order is not that of time, so the entry just used   *)
(* can sort anywhere among the others.                                     *)
Used(k) ==
    LET rest == Without(k)
    IN  {SubSeq(rest, 1, i) \o <<k>> \o SubSeq(rest, i + 1, Len(rest)) : i \in 0 .. Len(rest)}

-----------------------------------------------------------------------------
(* GetOrLoad.                                                              *)

(* The limit is read when the archive is opened, before the call. *)
Start(r, k) ==
    /\ At(r, "idle")
    /\ call' = [call EXCEPT ![r] = Called("get", k, limit)]
    /\ UNCHANGED <<disk, limit, flight, clearing, enforced, bounds>>

Get(r) ==
    /\ At(r, "get")
    /\ Goto(r, IF call[r].key \in file THEN "touch" ELSE "join")
    /\ UNCHANGED <<disk, limit, flight, clearing, enforced, bounds>>

(* The error of the UPDATE is ignored. *)
Touch(r) ==
    LET k == call[r].key IN
    /\ At(r, "touch") /\ HasConn
    /\ call' = [call EXCEPT ![r] = Idle]
    /\ lru' \in IF Places(k) # {} THEN Used(k) ELSE {lru}
    /\ UNCHANGED <<file, limit, flight, clearing, enforced, bounds>>

(* Fault: the flight of a key is entered without looking. *)
JoinUnchecked(r) ==
    LET k == call[r].key IN
    /\ At(r, "join")
    /\ flight' = [flight EXCEPT ![k] = r]
    /\ Goto(r, "load")
    /\ UNCHANGED <<disk, limit, clearing, enforced, bounds>>

(* Lead the key's flight or wait for it; one already answered answers at   *)
(* once.                                                                   *)
Join(r) ==
    LET k == call[r].key IN
    /\ At(r, "join")
    /\ \/ /\ flight[k] = None
          /\ flight' = [flight EXCEPT ![k] = r]
          /\ Goto(r, "load")
       \/ /\ flight[k] # None
          /\ IF At(flight[k], "forget") THEN call' = [call EXCEPT ![r] = Idle] ELSE Goto(r, "wait")
          /\ UNCHANGED flight
    /\ UNCHANGED <<disk, limit, clearing, enforced, bounds>>

(* The waiter's request is canceled. *)
LeaveFlight(r) ==
    /\ At(r, "wait")
    /\ call' = [call EXCEPT ![r] = Idle]
    /\ UNCHANGED <<disk, limit, flight, clearing, enforced, bounds>>

Load(r, ok) ==
    /\ At(r, "load")
    /\ Goto(r, IF ok THEN "rename" ELSE "close")
    /\ UNCHANGED <<disk, limit, flight, clearing, enforced, bounds>>

(* Put: the temporary file, complete, takes the key's name; then its row.  *)
Rename(r) ==
    /\ At(r, "rename")
    /\ file' = file \cup {call[r].key}
    /\ Goto(r, "insert")
    /\ UNCHANGED <<lru, limit, flight, clearing, enforced, bounds>>

Insert(r) ==
    /\ At(r, "insert") /\ HasConn
    /\ lru' \in Used(call[r].key)
    /\ Goto(r, "sum")
    /\ UNCHANGED <<file, limit, flight, clearing, enforced, bounds>>

(* The disk or the database refuses, or the leader's request is canceled.  *)
PutFails(r) ==
    /\ call[r].pc \in {"rename", "insert", "sum", "select"}
    /\ Fault
    /\ Goto(r, "close")
    /\ UNCHANGED <<disk, limit, flight, clearing, enforced>>

(* Fault: the flight is forgotten, and not answered. *)
CloseSilent(r) ==
    /\ At(r, "close")
    /\ Goto(r, "forget")
    /\ UNCHANGED <<disk, limit, flight, clearing, enforced, bounds>>

(* Everyone who waits has the leader's data or the leader's error. *)
Close(r) ==
    /\ At(r, "close")
    /\ call' = [c \in Callers |->
           IF c = r THEN [call[c] EXCEPT !.pc = "forget"]
           ELSE IF At(c, "wait") /\ call[c].key = call[r].key THEN Idle ELSE call[c]]
    /\ UNCHANGED <<disk, limit, flight, clearing, enforced, bounds>>

Forget(r) ==
    /\ At(r, "forget")
    /\ flight' = [flight EXCEPT ![call[r].key] = None]
    /\ call' = [call EXCEPT ![r] = Idle]
    /\ UNCHANGED <<disk, limit, clearing, enforced, bounds>>

-----------------------------------------------------------------------------
(* enforceLimit, at the end of a Put and of a save of the setting.         *)

Done(c) == IF c = Saver THEN Idle ELSE [call[c] EXCEPT !.pc = "close", !.victims = <<>>, !.open = FALSE]

Sum(c) ==
    /\ At(c, "sum") /\ HasConn
    /\ enforced' = call[c].limit
    /\ call' = [call EXCEPT ![c] = IF @.limit > 0 /\ Len(lru) > @.limit
                                   THEN [@ EXCEPT !.pc = "select", !.total = Len(lru)]
                                   ELSE Done(c)]
    /\ UNCHANGED <<disk, limit, flight, clearing, bounds>>

(* How many rows are read until the rest fits. *)
Excess(total, max, rows) == IF total - max < rows THEN total - max ELSE rows

(* Fault: the loop ends one row early. *)
SelectShort(c) ==
    LET n == Excess(call[c].total, call[c].limit, Len(lru)) - 1 IN
    /\ At(c, "select") /\ HasConn
    /\ call' = [call EXCEPT ![c] = IF n = 0 THEN Done(c)
                  ELSE [@ EXCEPT !.pc = "remove", !.victims = SubSeq(lru, 1, n), !.open = n < Len(lru)]]
    /\ UNCHANGED <<disk, limit, flight, clearing, enforced, bounds>>

(* rows.Next closes the query at the last row only. *)
Select(c) ==
    LET n == Excess(call[c].total, call[c].limit, Len(lru)) IN
    /\ At(c, "select") /\ HasConn
    /\ call' = [call EXCEPT ![c] = IF n = 0 THEN Done(c)
                  ELSE [@ EXCEPT !.pc = "remove", !.victims = SubSeq(lru, 1, n), !.open = n < Len(lru)]]
    /\ UNCHANGED <<disk, limit, flight, clearing, enforced, bounds>>

RemoveVictim(c) ==
    /\ At(c, "remove")
    /\ file' = file \ {Head(call[c].victims)}
    /\ Goto(c, "delete")
    /\ UNCHANGED <<lru, limit, flight, clearing, enforced, bounds>>

Deleted(c) ==
    call' = [call EXCEPT ![c] = IF Len(@.victims) = 1 THEN Done(c)
                                ELSE [@ EXCEPT !.pc = "remove", !.victims = Tail(call[c].victims)]]

DeleteVictim(c) ==
    /\ At(c, "delete") /\ HasConn
    /\ lru' = Without(Head(call[c].victims))
    /\ Deleted(c)
    /\ UNCHANGED <<file, limit, flight, clearing, enforced, bounds>>

(* The error of the DELETE is ignored; so is its cancellation, which needs *)
(* no connection.                                                          *)
DeleteFails(c) ==
    /\ At(c, "delete") /\ Fault
    /\ Deleted(c)
    /\ UNCHANGED <<disk, limit, flight, clearing, enforced>>

-----------------------------------------------------------------------------
(* The admin's save of the limit, Clear, and a new process.                *)

SaveLimit(l) ==
    /\ At(Saver, "idle") /\ HasConn
    /\ changes < MaxChanges /\ changes' = changes + 1
    /\ limit' = l
    /\ call' = [call EXCEPT ![Saver] = Called("sum", None, l)]
    /\ UNCHANGED <<disk, flight, clearing, enforced, faults>>

SaveFails ==
    /\ call[Saver].pc \in {"sum", "select"} /\ Fault
    /\ call' = [call EXCEPT ![Saver] = Idle]
    /\ UNCHANGED <<disk, limit, flight, clearing, enforced>>

Clear ==
    /\ clearing = Quiet
    /\ changes < MaxChanges /\ changes' = changes + 1
    /\ clearing' = [pc |-> "files", todo |-> Keys]
    /\ UNCHANGED <<disk, limit, flight, call, enforced, faults>>

(* RemoveAll: every file is in a directory of its own name's first byte.   *)
ClearFile(k) ==
    /\ clearing.pc = "files" /\ k \in clearing.todo
    /\ file' = file \ {k}
    /\ clearing' = [pc |-> IF clearing.todo = {k} THEN "rows" ELSE "files", todo |-> clearing.todo \ {k}]
    /\ UNCHANGED <<lru, limit, flight, call, enforced, bounds>>

ClearRows ==
    /\ clearing.pc = "rows" /\ HasConn
    /\ lru' = <<>>
    /\ clearing' = Quiet
    /\ UNCHANGED <<file, limit, flight, call, enforced, bounds>>

(* A new file in a directory, or the database, stops Clear half-way. *)
ClearFails ==
    /\ clearing # Quiet
    /\ clearing' = Quiet
    /\ UNCHANGED <<disk, limit, flight, call, enforced, bounds>>

Restart ==
    /\ Fault
    /\ flight' = [k \in Keys |-> None]
    /\ call' = [c \in Callers |-> Idle]
    /\ clearing' = Quiet
    /\ UNCHANGED <<disk, limit, enforced>>

-----------------------------------------------------------------------------
ReaderStep(r) ==
    \/ Get(r) \/ Touch(r) \/ Join(r)
    \/ \E ok \in BOOLEAN : Load(r, ok)
    \/ Rename(r) \/ Insert(r) \/ Close(r) \/ Forget(r)
EvictStep(c) == Sum(c) \/ Select(c) \/ RemoveVictim(c) \/ DeleteVictim(c)

Next ==
    \/ \E r \in Readers, k \in Keys : Start(r, k)
    \/ \E r \in Readers : ReaderStep(r) \/ LeaveFlight(r) \/ PutFails(r)
    \/ \E c \in Callers : EvictStep(c) \/ DeleteFails(c)
    \/ \E l \in Limits : SaveLimit(l)
    \/ SaveFails
    \/ Clear \/ ClearRows \/ ClearFails \/ \E k \in Keys : ClearFile(k)
    \/ Restart

Spec == Init /\ [][Next]_vars

(* A goroutine that can run is run; one that waits for a connection gets   *)
(* one that stays free.                                                    *)
FairSpec ==
    /\ Spec
    /\ \A r \in Readers : WF_vars(ReaderStep(r))
    /\ \A c \in Callers : WF_vars(EvictStep(c))

-----------------------------------------------------------------------------
(* Properties.                                                             *)

(* One load per key at a time; and whoever waits, waits for a reader that  *)
(* still has to answer, on the same key: no wake-up is lost.               *)
FlightAgrees ==
    /\ \A r \in Readers, k \in Keys :
          flight[k] = r <=>
              /\ call[r].key = k
              /\ call[r].pc \in {"load", "rename", "insert", "sum", "select", "remove", "delete",
                                 "close", "forget"}
    /\ \A r \in Readers :
          call[r].pc = "wait" => /\ flight[call[r].key] # None
                                 /\ call[flight[call[r].key]].pc # "forget"

(* When nobody is between an INSERT and the end of its eviction, and no    *)
(* statement has failed, the rows fit the limit that the last eviction     *)
(* measured against, whatever other evictions, saves and Clears did        *)
(* meanwhile.                                                              *)
RowsFitLimit ==
    /\ faults = 0 /\ enforced > 0
    /\ \A c \in Callers : call[c].pc \notin {"sum", "select", "remove", "delete"}
    => Len(lru) <= enforced

(* Every connection is kept by an eviction that waits for one more.        *)
PoolDeadlocked == Cardinality(Open) = Conns /\ \A c \in Open : call[c].pc = "delete"

(* A call returns, unless the evictions of the pool's size wait for one    *)
(* another.                                                                *)
CallsReturn == \A c \in Callers : call[c].pc # "idle" ~> (call[c].pc = "idle" \/ PoolDeadlocked)

-----------------------------------------------------------------------------
(* What the repository says and the code does not do.                      *)

(* A limit holds for the cache ("Range cache: 10 GiB", "lowering the limit *)
(* evicts at once", README.md): the files on disk fit it once nobody is at *)
(* work, if nothing has failed.                                            *)
FilesFitLimit ==
    /\ faults = 0 /\ enforced > 0
    /\ clearing = Quiet
    /\ \A c \in Callers : call[c].pc = "idle"
    => Cardinality(file) <= enforced
=============================================================================
