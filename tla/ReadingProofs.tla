---------------------------- MODULE ReadingProofs ----------------------------
(***************************************************************************)
(* What a reader's requests leave behind, for any books, series, requests, *)
(* pages and changes of the catalog.  Of the archive indexes: a call works *)
(* with its own version of the book, and the prefetcher's keys, queue and  *)
(* worker agree.  Of reading progress: the types of its tables, that their *)
(* rows point to a book and a series that exist, and that the three        *)
(* read_status filters divide the series.                                  *)
(***************************************************************************)
EXTENDS ArchiveIndex, FiniteSetTheorems, TLAPS

(* Reading progress has the books and series of the archive indexes, and   *)
(* calls and tables of its own.                                            *)
CONSTANT Handlers
VARIABLES known, home, progress, loaded, handler, strict, edits

Progress == INSTANCE ReadProgress WITH book <- home, call <- handler, changes <- edits, Calls <- Handlers

-----------------------------------------------------------------------------
(* The types of the calls and jobs, more exact than in TypeOK.             *)

Keys == Books \X Versions
Copy == [book : Books \cup {None}, series : Series \cup {None}, version : Versions]
Jobs == [copy : [book : Books, series : Series \cup {None}, version : Versions], page : 0 .. Pages + 1]

WorkerPositions == {"idle", "index", "build", "save", "setting", "next", "book", "finish", "gone"}
Positions == WorkerPositions \cup {"delete", "page", "load", "served", "claim", "send"}

CallState ==
    [pc : Positions, kind : {"list", "read", "worker"}, copy : Copy, page : 0 .. Pages + 1,
     pages : Versions, data : Versions, key : Keys \cup {<<>>}]

(* What a call may be: one under way has a book, one that reads a page has *)
(* a page, what it holds is of its own version; and the worker is a worker *)
(* and has a key while it has a job only.                                  *)
CallOK(c, s) ==
    /\ s \in CallState
    /\ s.pc \notin {"idle", "gone"} => s.copy.book \in Books
    /\ s.kind = "read" => s.page >= 1
    /\ s.pc \in {"page", "load"} => s.kind = "read" /\ s.pages = s.copy.version
    /\ s.pc = "load" => s.page <= Pages
    /\ s.pc = "served" => s.data = s.copy.version
    /\ c = Worker => /\ s.pc \in WorkerPositions
                     /\ s.pc \notin {"idle", "gone"} => s.kind = "worker"
                     /\ s.pc \in {"idle", "gone"} => s.key = <<>>

CallsOK == call \in [Callers -> CallState] /\ \A c \in Callers : CallOK(c, call[c])

(* The tables; every cached page is of the version in its key.             *)
Tables ==
    /\ book \in [Books -> [series : Series \cup {None}, version : Versions]]
    /\ index \in [Books -> Versions \cup {None}]
    /\ cached \in SUBSET [key : Books \X Versions \X (1..Pages), data : Versions]
    /\ \A e \in cached : e.data = e.key[2]
    /\ changes \in 0..MaxChanges

Queue ==
    /\ jobs \in Seq(Jobs) /\ Len(jobs) <= Cap
    /\ pending \in SUBSET Keys
    /\ closed \in BOOLEAN

(* Who holds a key, and that nobody else does.                             *)
Waiting(k) == \E i \in 1..Len(jobs) : KeyOf(jobs[i].copy) = k
Sending(k) == \E r \in Readers : call[r].pc = "send" /\ KeyOf(call[r].copy) = k

Kept == \A k \in Keys : k \in pending <=> Waiting(k) \/ call[Worker].key = k \/ Sending(k)

Apart ==
    /\ \A i, j \in 1..Len(jobs) : KeyOf(jobs[i].copy) = KeyOf(jobs[j].copy) => i = j
    /\ \A i \in 1..Len(jobs) : KeyOf(jobs[i].copy) # call[Worker].key
    /\ \A r \in Readers : call[r].pc = "send" =>
          /\ KeyOf(call[r].copy) # call[Worker].key
          /\ \A i \in 1..Len(jobs) : KeyOf(jobs[i].copy) # KeyOf(call[r].copy)
          /\ \A q \in Readers : call[q].pc = "send" /\ KeyOf(call[q].copy) = KeyOf(call[r].copy) => q = r

ReadInv == Tables /\ Queue /\ CallsOK /\ Kept /\ Apart

-----------------------------------------------------------------------------
(* Constants and the initial states.                                       *)

LEMMA KeyIsKey ==
    ASSUME NEW copy, copy.book \in Books, copy.version \in Versions
    PROVE  KeyOf(copy) \in Keys
BY DEF KeyOf, Keys

LEMMA NoKey == <<>> \notin Keys
<1>1. ASSUME NEW b, NEW v PROVE <<b, v>> # <<>>
  <2>1. Len(<<b, v>>) = 2 /\ Len(<<>>) = 0
    OBVIOUS
  <2> QED
    BY <2>1
<1>2. ASSUME <<>> \in Keys PROVE FALSE
  <2>1. PICK b \in Books, v \in Versions : <<>> = <<b, v>>
    BY <1>2 DEF Keys
  <2> QED
    BY <1>1, <2>1
<1> QED
  BY <1>2

LEMMA JobKey ==
    ASSUME Queue, NEW i \in 1..Len(jobs)
    PROVE  jobs[i] \in Jobs /\ KeyOf(jobs[i].copy) \in Keys
<1>1. jobs[i] \in Jobs
  BY DEF Queue
<1> QED
  BY <1>1, KeyIsKey DEF Jobs

LEMMA IdleOK == \A c \in Callers : CallOK(c, Idle)
<1>1. 0 \in Versions /\ 0 \in 0 .. Pages + 1
  BY ArchiveAssumption DEF Versions
<1>2. Idle \in CallState
  BY <1>1 DEF Idle, NoCopy, CallState, Copy, Positions, WorkerPositions
<1> QED
  BY <1>2 DEF CallOK, Idle, WorkerPositions

LEMMA InitRead == Init => ReadInv
<1> SUFFICES ASSUME Init PROVE ReadInv
  OBVIOUS
<1>1. 0 \in Versions
  BY ArchiveAssumption DEF Versions
<1>2. Tables
  BY <1>1, ArchiveAssumption DEF Init, Tables
<1>3. Queue
  <2>1. jobs = <<>> /\ pending = {} /\ closed = FALSE
    BY DEF Init
  <2>2. <<>> \in Seq(Jobs) /\ Len(<<>>) = 0
    OBVIOUS
  <2>3. jobs \in Seq(Jobs) /\ Len(jobs) <= Cap
    BY <2>1, <2>2, ArchiveAssumption
  <2>4. pending \in SUBSET Keys /\ closed \in BOOLEAN
    BY <2>1
  <2> QED
    BY <2>3, <2>4 DEF Queue
<1>4. CallsOK
  BY IdleOK DEF Init, CallsOK, CallOK
<1>5. Worker \in Callers /\ Readers \subseteq Callers
  BY DEF Callers
<1>6. \A c \in Callers : call[c].pc = "idle" /\ call[c].key = <<>>
  BY DEF Init, Idle
<1>7. Len(jobs) = 0
  BY DEF Init
<1>8. Kept
  BY <1>5, <1>6, <1>7, NoKey DEF Init, Kept, Waiting, Sending
<1>9. Apart
  BY <1>5, <1>6, <1>7 DEF Apart
<1> QED
  BY <1>2, <1>3, <1>4, <1>8, <1>9 DEF ReadInv

-----------------------------------------------------------------------------
(* A step of one call.                                                     *)

Becomes(c, s) == CallOK(c, s) /\ call' = [call EXCEPT ![c] = s]

LEMMA BecomesOK ==
    ASSUME CallsOK, NEW c \in Callers, NEW s, Becomes(c, s)
    PROVE  CallsOK'
<1>1. s \in CallState
  BY DEF Becomes, CallOK
<1>2. call' \in [Callers -> CallState]
  BY <1>1 DEF Becomes, CallsOK
<1>3. ASSUME NEW d \in Callers PROVE CallOK(d, call'[d])
  BY DEF Becomes, CallsOK
<1>4. \A d \in Callers : CallOK(d, call[d])'
  BY <1>3 DEF CallOK
<1> QED
  BY <1>2, <1>4 DEF CallsOK

(* One that neither has nor takes a key to send, and if it is the worker's *)
(* keeps its key, changes nothing between keys, queue and worker.          *)
Walks(c) ==
    \E s : /\ Becomes(c, s)
           /\ s.pc # "send" /\ call[c].pc # "send"
           /\ c = Worker => s.key = call[c].key

LEMMA WalkKeepsKeys ==
    ASSUME CallsOK, Kept, Apart, NEW c \in Callers, Walks(c), UNCHANGED <<jobs, pending>>
    PROVE  CallsOK' /\ Kept' /\ Apart'
<1>1. PICK s : Becomes(c, s) /\ s.pc # "send" /\ call[c].pc # "send" /\ (c = Worker => s.key = call[c].key)
  BY Zenon DEF Walks
<1>2. CallsOK'
  BY <1>1, BecomesOK
<1>3. Worker \in Callers /\ Readers \subseteq Callers
  BY DEF Callers
<1>4. call'[Worker].key = call[Worker].key
  BY <1>1, <1>3 DEF Becomes, CallsOK
<1>5. ASSUME NEW r \in Readers
      PROVE  /\ call'[r].pc = "send" <=> call[r].pc = "send"
             /\ call[r].pc = "send" => call'[r].copy = call[r].copy
  BY <1>1, <1>3 DEF Becomes, CallsOK
<1>6. Kept'
  BY <1>4, <1>5 DEF Kept, Waiting, Sending, KeyOf, Keys, Versions
<1>7. Apart'
  BY <1>4, <1>5 DEF Apart, KeyOf
<1> QED
  BY <1>2, <1>6, <1>7

-----------------------------------------------------------------------------
(* The steps of ListPages.                                                 *)

LEMMA GotoOK ==
    ASSUME CallsOK, NEW c \in Callers, NEW l \in Positions,
           call[c].pc \notin {"idle", "gone"}, l \notin {"idle", "page", "load", "served", "gone"},
           c = Worker => l \in WorkerPositions
    PROVE  CallOK(c, [call[c] EXCEPT !.pc = l])
<1>1. CallOK(c, call[c])
  BY DEF CallsOK
<1>2. [call[c] EXCEPT !.pc = l] \in CallState
  BY <1>1 DEF CallOK, CallState
<1> QED
  BY <1>1, <1>2 DEF CallOK, CallState

LEMMA GotoWalks ==
    ASSUME CallsOK, NEW c \in Callers, NEW l \in Positions, Goto(c, l),
           call[c].pc \notin {"idle", "gone", "send"},
           l \notin {"idle", "page", "load", "served", "send", "gone"},
           c = Worker => l \in WorkerPositions
    PROVE  Walks(c)
<1> DEFINE s == [call[c] EXCEPT !.pc = l]
<1>1. Becomes(c, s)
  BY GotoOK DEF Goto, Becomes
<1>2. s.pc = l /\ s.key = call[c].key
  BY DEF CallsOK, CallState
<1> QED
  BY <1>1, <1>2 DEF Walks

LEMMA ReaderRests ==
    ASSUME CallsOK, NEW c \in Callers, c # Worker, call[c].pc # "send",
           call' = [call EXCEPT ![c] = Idle]
    PROVE  Walks(c)
<1>1. Becomes(c, Idle) /\ Idle.pc # "send"
  BY IdleOK DEF Becomes, Idle
<1> QED
  BY <1>1 DEF Walks

LEMMA ListedWalks ==
    ASSUME CallsOK, NEW c \in Callers, call[c].pc \in {"index", "save"},
           Listed(c, call[c].copy.version)
    PROVE  Walks(c)
<1> DEFINE s == call[c]
           t == [s EXCEPT !.pc = "finish"]
           u == [s EXCEPT !.pc = "page", !.pages = s.copy.version]
<1>1. CallOK(c, s) /\ s \in CallState
  BY DEF CallsOK, CallOK
<1>2. CASE s.kind = "list"
  <2>1. c # Worker
    BY <1>1, <1>2 DEF CallOK
  <2>2. call' = [call EXCEPT ![c] = Idle]
    BY <1>2 DEF Listed
  <2> QED
    BY <2>1, <2>2, ReaderRests
<1>3. CASE s.kind = "worker"
  <2>1. Goto(c, "finish")
    BY <1>3 DEF Listed, Goto
  <2> QED
    BY <2>1, GotoWalks DEF Positions, WorkerPositions
<1>4. CASE s.kind = "read"
  <2>1. c # Worker
    BY <1>1, <1>4 DEF CallOK
  <2>2. u \in CallState /\ u.pc = "page" /\ u.kind = "read" /\ u.copy = s.copy /\ u.page = s.page
        /\ u.pages = u.copy.version
    BY <1>1, <1>4 DEF CallState, Copy, Positions, WorkerPositions
  <2>3. CallOK(c, u)
    BY <1>1, <1>4, <2>1, <2>2 DEF CallOK
  <2>4. call' = [call EXCEPT ![c] = u]
    BY <1>4 DEF Listed
  <2> QED
    BY <2>1, <2>2, <2>3, <2>4 DEF Walks, Becomes
<1> QED
  BY <1>1, <1>2, <1>3, <1>4 DEF CallState

LEMMA FailedWalks ==
    ASSUME CallsOK, NEW c \in Callers, call[c].pc \in {"delete", "index", "build", "save", "page", "load"},
           Failed(c)
    PROVE  Walks(c)
<1>1. CASE c = Worker
  BY <1>1, GotoWalks DEF Failed, Positions, WorkerPositions
<1>2. CASE c # Worker
  BY <1>2, ReaderRests DEF Failed
<1> QED
  BY <1>1, <1>2

LEMMA ListStepOK ==
    ASSUME Tables, Queue, CallsOK, NEW c \in Callers, ListStep(c)
    PROVE  Tables' /\ Queue' /\ Walks(c) /\ UNCHANGED <<jobs, pending>>
<1>1. CASE ArchiveIndexRawForVersion(c)
  <2>1. call[c].pc = "index"
    BY <1>1 DEF ArchiveIndexRawForVersion, At
  <2>2. ASSUME Listed(c, call[c].copy.version) PROVE Walks(c)
    BY <2>1, <2>2, ListedWalks
  <2>3. ASSUME Goto(c, "build") PROVE Walks(c)
    BY <2>1, <2>3, GotoWalks DEF Positions, WorkerPositions
  <2>4. Walks(c)
    BY <1>1, <2>2, <2>3 DEF ArchiveIndexRawForVersion
  <2> QED
    BY <1>1, <2>4 DEF ArchiveIndexRawForVersion, prefetcher, Tables, Queue
<1>2. CASE BuildPages(c)
  <2>1. Walks(c)
    BY <1>2, GotoWalks DEF BuildPages, At, Positions, WorkerPositions
  <2> QED
    BY <1>2, <2>1 DEF BuildPages, prefetcher, Tables, Queue
<1>3. CASE RecordArchiveIndexBuild(c)
  <2>1. call[c].pc = "save"
    BY <1>3 DEF RecordArchiveIndexBuild, At
  <2>2. Walks(c)
    BY <1>3, <2>1, ListedWalks, FailedWalks DEF RecordArchiveIndexBuild
  <2>3. call[c].copy.version \in Versions
    BY DEF CallsOK, CallState, Copy
  <2>4. index' \in [Books -> Versions \cup {None}]
    <3>1. index' = [index EXCEPT ![call[c].copy.book] = call[c].copy.version] \/ index' = index
      BY <1>3 DEF RecordArchiveIndexBuild
    <3>2. index \in [Books -> Versions \cup {None}]
      BY DEF Tables
    <3> QED
      BY <2>3, <3>1, <3>2
  <2>5. UNCHANGED <<book, cached, jobs, pending, closed, changes>>
    BY <1>3 DEF RecordArchiveIndexBuild, prefetcher
  <2>6. Tables'
    BY <2>4, <2>5 DEF Tables
  <2> QED
    BY <2>2, <2>5, <2>6 DEF Queue
<1>4. CASE Fail(c)
  <2>1. Walks(c)
    BY <1>4, FailedWalks DEF Fail
  <2> QED
    BY <1>4, <2>1 DEF Fail, prefetcher, Tables, Queue
<1> QED
  BY <1>1, <1>2, <1>3, <1>4 DEF ListStep

-----------------------------------------------------------------------------
(* Steps that leave the keys alone: scans, evictions, the start of a call, *)
(* and reading a page.                                                     *)

LEMMA CallsUnchanged ==
    ASSUME CallsOK, Kept, Apart, UNCHANGED <<call, jobs, pending>>
    PROVE  CallsOK' /\ Kept' /\ Apart'
<1>1. CallsOK'
  <2>1. \A c \in Callers : CallOK(c, call'[c])
    BY DEF CallsOK
  <2>2. \A c \in Callers : CallOK(c, call[c])'
    BY <2>1 DEF CallOK
  <2> QED
    BY <2>2 DEF CallsOK
<1>2. Kept'
  BY DEF Kept, Waiting, Sending, KeyOf
<1>3. Apart'
  BY DEF Apart, KeyOf
<1> QED
  BY <1>1, <1>2, <1>3

LEMMA ScanOK ==
    ASSUME ReadInv, NEW b \in Books, NEW s \in Series \cup {None}, NEW replaced \in BOOLEAN,
           Scan(b, s, replaced)
    PROVE  ReadInv'
<1>1. CallsOK' /\ Kept' /\ Apart' /\ Queue'
  BY CallsUnchanged DEF ReadInv, Scan, prefetcher, Queue
<1>2. changes' \in 0..MaxChanges /\ changes + 1 \in Versions
  BY ArchiveAssumption DEF ReadInv, Tables, Scan, Versions
<1>3. book' \in [Books -> [series : Series \cup {None}, version : Versions]]
  <2> DEFINE row == [series |-> s, version |-> IF replaced THEN changes + 1 ELSE book[b].version]
  <2>1. book \in [Books -> [series : Series \cup {None}, version : Versions]]
    BY DEF ReadInv, Tables
  <2>2. row \in [series : Series \cup {None}, version : Versions]
    BY <1>2, <2>1
  <2>3. book' = [book EXCEPT ![b] = row]
    BY DEF Scan
  <2> QED
    BY <2>1, <2>2, <2>3
<1>4. index' \in [Books -> Versions \cup {None}]
  BY DEF ReadInv, Tables, Scan
<1>5. Tables'
  BY <1>2, <1>3, <1>4 DEF ReadInv, Tables, Scan
<1> QED
  BY <1>1, <1>5 DEF ReadInv

LEMMA EvictOK ==
    ASSUME ReadInv, Evict
    PROVE  ReadInv'
<1>1. CallsOK' /\ Kept' /\ Apart' /\ Queue'
  BY CallsUnchanged DEF ReadInv, Evict, prefetcher, Queue
<1>2. index' \in [Books -> Versions \cup {None}]
  BY DEF ReadInv, Tables, Evict
<1>3. cached' \subseteq cached
  BY DEF Evict
<1>4. Tables'
  BY <1>2, <1>3 DEF ReadInv, Tables, Evict
<1> QED
  BY <1>1, <1>4 DEF ReadInv

LEMMA CloseOK ==
    ASSUME ReadInv, Close
    PROVE  ReadInv'
<1>1. CallsOK' /\ Kept' /\ Apart'
  BY CallsUnchanged DEF ReadInv, Close
<1>2. Tables' /\ Queue'
  BY DEF ReadInv, Close, Tables, Queue
<1> QED
  BY <1>1, <1>2 DEF ReadInv

(* The copy a call takes of a book that exists. *)
LEMMA CopyOK ==
    ASSUME Tables, NEW b \in Books
    PROVE  BookByID(b) \in Copy /\ BookByID(b).book = b /\ BookByID(b).series = book[b].series
BY DEF Tables, BookByID, Copy

LEMMA StartOK ==
    ASSUME Tables, CallsOK, NEW r \in Readers, NEW b \in Books,
           \/ \E n \in 1 .. Pages + 1 : Read(r, b, n)
           \/ \E force \in BOOLEAN : List(r, b, force)
    PROVE  Walks(r) /\ UNCHANGED <<book, index, cached, prefetcher, changes>>
<1>1. r \in Callers /\ r # Worker
  BY ArchiveAssumption DEF Callers
<1>2. Idle \in CallState /\ Idle.kind = "list" /\ Idle.page = 0
  BY IdleOK, <1>1 DEF CallOK, Idle
<1>3. BookByID(b) \in Copy /\ BookByID(b).book = b
  BY CopyOK
<1>4. ASSUME NEW n \in 1 .. Pages + 1, Read(r, b, n)
      PROVE  Walks(r)
  <2> DEFINE s == [Idle EXCEPT !.pc = "index", !.kind = "read", !.copy = BookByID(b), !.page = n]
  <2>1. n \in 0 .. Pages + 1 /\ n >= 1
    BY ArchiveAssumption
  <2>2. s \in CallState /\ s.pc = "index" /\ s.copy.book = b /\ s.page = n
    BY <1>2, <1>3, <2>1 DEF CallState, Positions, WorkerPositions
  <2>3. CallOK(r, s)
    BY <1>1, <2>1, <2>2 DEF CallOK
  <2>4. call' = [call EXCEPT ![r] = s] /\ call[r].pc = "idle"
    BY <1>4 DEF Read, At
  <2> QED
    BY <1>1, <2>2, <2>3, <2>4 DEF Walks, Becomes
<1>5. ASSUME NEW force \in BOOLEAN, List(r, b, force)
      PROVE  Walks(r)
  <2> DEFINE l == IF force THEN "delete" ELSE "index"
             s == [Idle EXCEPT !.pc = l, !.copy = BookByID(b)]
  <2>1. s \in CallState /\ s.pc = l /\ s.copy.book = b /\ s.kind = "list"
    BY <1>2, <1>3 DEF CallState, Positions, WorkerPositions
  <2>2. CallOK(r, s)
    BY <1>1, <2>1 DEF CallOK
  <2>3. call' = [call EXCEPT ![r] = s] /\ call[r].pc = "idle"
    BY <1>5 DEF List, At
  <2>4. Becomes(r, s) /\ s.pc # "send"
    BY <2>1, <2>2, <2>3 DEF Becomes
  <2> QED
    BY <1>1, <2>3, <2>4 DEF Walks
<1> QED
  BY <1>4, <1>5 DEF Read, List

(* A page found in the cache is of the version in its key.                 *)
LEMMA HitOK ==
    ASSUME Tables, NEW r, NEW e \in cached, e.key = PageKey(r)
    PROVE  e.data = call[r].copy.version
<1>1. PageKey(r)[2] = call[r].copy.version
  BY DEF PageKey
<1> QED
  BY <1>1 DEF Tables

LEMMA FindPageWalks ==
    ASSUME Tables, CallsOK, NEW r \in Readers, FindPage(r)
    PROVE  Walks(r)
<1> DEFINE s == call[r]
           hits == {e \in cached : e.key = PageKey(r)}
           load == [s EXCEPT !.pc = "load"]
           served == [s EXCEPT !.pc = "served", !.pages = 0, !.data = (CHOOSE e \in hits : TRUE).data]
<1>1. r \in Callers /\ r # Worker
  BY ArchiveAssumption DEF Callers
<1>2. CallOK(r, s) /\ s \in CallState /\ s.pc = "page"
  BY <1>1 DEF CallsOK, CallOK, FindPage, At
<1>3. CASE s.page > Pages
  <2>1. call' = [call EXCEPT ![r] = Idle]
    BY <1>3 DEF FindPage
  <2> QED
    BY <1>1, <1>2, <2>1, ReaderRests
<1>4. CASE ~(s.page > Pages) /\ hits = {}
  <2>1. call' = [call EXCEPT ![r] = load]
    BY <1>4 DEF FindPage
  <2>2. /\ load \in CallState /\ load.pc = "load" /\ load.kind = s.kind /\ load.page = s.page
        /\ load.pages = s.pages /\ load.copy = s.copy
    BY <1>2 DEF CallState, Positions, WorkerPositions
  <2>3. s.page <= Pages
    BY <1>2, <1>4, ArchiveAssumption DEF CallState
  <2>4. CallOK(r, load)
    BY <1>1, <1>2, <2>2, <2>3 DEF CallOK
  <2>5. Becomes(r, load) /\ load.pc # "send"
    BY <2>1, <2>2, <2>4 DEF Becomes
  <2> QED
    BY <1>1, <1>2, <2>5 DEF Walks
<1>5. CASE ~(s.page > Pages) /\ hits # {}
  <2>1. call' = [call EXCEPT ![r] = served]
    BY <1>5 DEF FindPage
  <2>2. (CHOOSE e \in hits : TRUE) \in hits
    BY <1>5
  <2>3. (CHOOSE e \in hits : TRUE).data = s.copy.version
    BY <2>2, HitOK
  <2>4. s.copy.version \in Versions /\ 0 \in Versions
    BY <1>2, ArchiveAssumption DEF CallState, Copy, Versions
  <2> HIDE DEF hits
  <2>5. /\ served \in CallState /\ served.pc = "served" /\ served.kind = s.kind /\ served.page = s.page
        /\ served.data = s.copy.version /\ served.copy = s.copy
    BY <1>2, <2>3, <2>4 DEF CallState, Positions, WorkerPositions
  <2> HIDE DEF served
  <2>6. CallOK(r, served)
    BY <1>1, <1>2, <2>5 DEF CallOK
  <2>7. Becomes(r, served) /\ served.pc # "send"
    BY <2>1, <2>5, <2>6 DEF Becomes
  <2> QED
    BY <1>1, <1>2, <2>7 DEF Walks
<1> QED
  BY <1>3, <1>4, <1>5

LEMMA ReadEntryOK ==
    ASSUME Tables, CallsOK, NEW r \in Readers, NEW keep \in BOOLEAN, ReadEntry(r, keep)
    PROVE  Tables' /\ Walks(r)
<1> DEFINE s == call[r]
           v == s.copy.version
           e == [key |-> PageKey(r), data |-> v]
           served == [s EXCEPT !.pc = "served", !.pages = 0, !.data = v]
<1>1. r \in Callers /\ r # Worker
  BY ArchiveAssumption DEF Callers
<1>2. CallOK(r, s) /\ s \in CallState /\ s.pc = "load"
  BY <1>1 DEF CallsOK, CallOK, ReadEntry, At
<1>3. v \in Versions /\ 0 \in Versions /\ s.copy.book \in Books /\ s.page \in 1..Pages
  BY <1>2, ArchiveAssumption DEF CallOK, CallState, Copy, Versions
<1>4. e \in [key : Books \X Versions \X (1..Pages), data : Versions] /\ e.data = e.key[2]
  BY <1>3 DEF PageKey
<1>5. Tables'
  <2> HIDE DEF e
  <2>1. cached' = cached \cup {e} \/ cached' = cached
    BY DEF ReadEntry, e
  <2>2. UNCHANGED <<book, index, changes>>
    BY DEF ReadEntry
  <2> QED
    BY <1>4, <2>1, <2>2 DEF Tables
<1>6. Walks(r)
  <2>1. call' = [call EXCEPT ![r] = served]
    BY DEF ReadEntry
  <2>2. /\ served \in CallState /\ served.pc = "served" /\ served.kind = s.kind /\ served.page = s.page
        /\ served.data = v /\ served.copy = s.copy
    BY <1>2, <1>3 DEF CallState, Positions, WorkerPositions
  <2> HIDE DEF served
  <2>3. CallOK(r, served)
    BY <1>1, <1>2, <2>2 DEF CallOK
  <2>4. Becomes(r, served) /\ served.pc # "send"
    BY <2>1, <2>2, <2>3 DEF Becomes
  <2> QED
    BY <1>1, <1>2, <2>4 DEF Walks
<1> QED
  BY <1>5, <1>6

LEMMA SentWalks ==
    ASSUME CallsOK, NEW r \in Readers, Sent(r)
    PROVE  Walks(r)
<1> DEFINE s == call[r]
           claim == [s EXCEPT !.pc = "claim", !.data = 0]
<1>1. r \in Callers /\ r # Worker
  BY ArchiveAssumption DEF Callers
<1>2. CallOK(r, s) /\ s \in CallState /\ s.pc = "served"
  BY <1>1 DEF CallsOK, CallOK, Sent, At
<1>3. CASE call' = [call EXCEPT ![r] = Idle]
  BY <1>1, <1>2, <1>3, ReaderRests
<1>4. CASE call' = [call EXCEPT ![r] = claim]
  <2>1. 0 \in Versions
    BY ArchiveAssumption DEF Versions
  <2>2. /\ claim \in CallState /\ claim.pc = "claim" /\ claim.kind = s.kind /\ claim.page = s.page
        /\ claim.copy = s.copy
    BY <1>2, <2>1 DEF CallState, Positions, WorkerPositions
  <2> HIDE DEF claim
  <2>3. CallOK(r, claim)
    BY <1>1, <1>2, <2>2 DEF CallOK
  <2>4. Becomes(r, claim) /\ claim.pc # "send"
    BY <1>4, <2>2, <2>3 DEF Becomes
  <2> QED
    BY <1>1, <1>2, <2>4 DEF Walks
<1> QED
  BY <1>3, <1>4 DEF Sent

LEMMA ReaderStepOK ==
    ASSUME Tables, Queue, CallsOK, NEW r \in Readers,
           \/ DeleteArchiveIndex(r) \/ FindPage(r) \/ \E keep \in BOOLEAN : ReadEntry(r, keep) \/ Sent(r)
    PROVE  Tables' /\ Queue' /\ Walks(r) /\ UNCHANGED <<jobs, pending>>
<1>1. r \in Callers /\ r # Worker
  BY ArchiveAssumption DEF Callers
<1>2. CASE DeleteArchiveIndex(r)
  <2>1. Walks(r)
    BY <1>1, <1>2, GotoWalks DEF DeleteArchiveIndex, At, Positions, WorkerPositions
  <2>2. index' \in [Books -> Versions \cup {None}]
    BY <1>2 DEF DeleteArchiveIndex, Tables
  <2> QED
    BY <1>2, <2>1, <2>2 DEF DeleteArchiveIndex, prefetcher, Tables, Queue
<1>3. CASE FindPage(r)
  BY <1>3, FindPageWalks DEF FindPage, prefetcher, Tables, Queue
<1>4. ASSUME NEW keep \in BOOLEAN, ReadEntry(r, keep)
      PROVE  Tables' /\ Queue' /\ Walks(r) /\ UNCHANGED <<jobs, pending>>
  BY <1>4, ReadEntryOK DEF ReadEntry, prefetcher, Queue
<1>5. CASE Sent(r)
  BY <1>5, SentWalks DEF Sent, prefetcher, Tables, Queue
<1> QED
  BY <1>2, <1>3, <1>4, <1>5

-----------------------------------------------------------------------------
(* Trigger.                                                                *)

(* A step of a reader as the keys see it.                                  *)
LEMMA ReaderView ==
    ASSUME CallsOK, NEW r \in Readers, NEW s, Becomes(r, s)
    PROVE  /\ call'[Worker] = call[Worker] /\ call'[r] = s
           /\ \A q \in Readers : q # r => call'[q] = call[q]
<1>1. r \in Callers /\ r # Worker /\ Worker \in Callers /\ Readers \subseteq Callers
  BY ArchiveAssumption DEF Callers
<1> QED
  BY <1>1 DEF Becomes, CallsOK

LEMMA SenderKey ==
    ASSUME CallsOK, NEW r \in Readers, call[r].pc \in {"claim", "send"}
    PROVE  KeyOf(call[r].copy) \in Keys
<1>1. r \in Callers
  BY DEF Callers
<1>2. call[r].copy.book \in Books /\ call[r].copy.version \in Versions
  BY <1>1 DEF CallsOK, CallOK, CallState, Copy
<1> QED
  BY <1>2, KeyIsKey

LEMMA ClaimOK ==
    ASSUME ReadInv, NEW r \in Readers, Claim(r)
    PROVE  ReadInv'
<1> DEFINE s == call[r]
           key == KeyOf(s.copy)
           t == [s EXCEPT !.pc = "send"]
<1>1. r \in Callers /\ r # Worker
  BY ArchiveAssumption DEF Callers
<1>2. Tables /\ Queue /\ CallsOK /\ Kept /\ Apart
  BY DEF ReadInv
<1>3. s.pc = "claim"
  BY DEF Claim, At
<1>4. UNCHANGED <<book, index, cached, jobs, closed, changes>>
  BY DEF Claim
<1>5. Tables'
  BY <1>2, <1>4 DEF Tables
<1>6. CASE call' = [call EXCEPT ![r] = Idle] /\ UNCHANGED pending
  <2>1. Walks(r)
    BY <1>1, <1>2, <1>3, <1>6, ReaderRests
  <2>2. CallsOK' /\ Kept' /\ Apart'
    BY <1>1, <1>2, <1>4, <1>6, <2>1, WalkKeepsKeys
  <2>3. Queue'
    BY <1>2, <1>4, <1>6 DEF Queue
  <2> QED
    BY <1>5, <2>2, <2>3 DEF ReadInv
<1>7. CASE key \notin pending /\ pending' = pending \cup {key} /\ Goto(r, "send")
  <2>1. CallOK(r, t)
    BY <1>1, <1>2, <1>3, GotoOK DEF Positions
  <2>2. Becomes(r, t)
    BY <1>7, <2>1 DEF Becomes, Goto
  <2>3. t.pc = "send" /\ t.copy = s.copy
    BY <1>1, <1>2 DEF CallsOK, CallState
  <2> HIDE DEF t
  <2>4. /\ call'[Worker] = call[Worker] /\ call'[r] = t
        /\ \A q \in Readers : q # r => call'[q] = call[q]
    BY <1>2, <2>2, ReaderView
  <2>5. CallsOK'
    BY <1>1, <1>2, <2>2, BecomesOK
  <2>6. key \in Keys
    BY <1>2, <1>3, SenderKey
  <2>7. Queue'
    BY <1>2, <1>4, <1>7, <2>6 DEF Queue
  <2>8. ~Waiting(key) /\ call[Worker].key # key /\ ~Sending(key)
    BY <1>2, <1>7, <2>6 DEF Kept
  <2> DEFINE K(q) == KeyOf(call[q].copy)
  <2>9. \A q \in Readers : KeyOf(call'[q].copy) = K(q)
    BY <2>3, <2>4
  <2>10. \A q \in Readers : call'[q].pc = "send" <=> call[q].pc = "send" \/ q = r
    BY <2>3, <2>4
  <2>11. Kept'
    <3>1. ASSUME NEW k \in Keys
          PROVE  k \in pending' <=> \/ Waiting(k) \/ call[Worker].key = k
                                    \/ \E q \in Readers : (call[q].pc = "send" \/ q = r) /\ K(q) = k
      BY <1>2, <1>7 DEF Kept, Sending
    <3> QED
      BY <1>4, <2>4, <2>9, <2>10, <3>1 DEF Kept, Waiting, Sending, Keys, Versions, KeyOf
  <2>12. Apart'
    <3>1. \A i \in 1..Len(jobs) : KeyOf(jobs[i].copy) # key
      BY <2>8 DEF Waiting
    <3>2. \A q \in Readers : call[q].pc = "send" => K(q) # key
      BY <2>8 DEF Sending
    <3>3. /\ \A i, j \in 1..Len(jobs) : KeyOf(jobs[i].copy) = KeyOf(jobs[j].copy) => i = j
          /\ \A i \in 1..Len(jobs) : KeyOf(jobs[i].copy) # call'[Worker].key
      BY <1>2, <2>4 DEF Apart
    <3>4. ASSUME NEW p \in Readers, call'[p].pc = "send"
          PROVE  /\ K(p) # call'[Worker].key
                 /\ \A i \in 1..Len(jobs) : KeyOf(jobs[i].copy) # K(p)
                 /\ \A q \in Readers : call'[q].pc = "send" /\ K(q) = K(p) => q = p
      <4>1. CASE p = r
        BY <2>4, <2>8, <2>10, <3>1, <3>2, <4>1
      <4>2. CASE p # r
        <5>1. call[p].pc = "send" /\ K(p) # key
          BY <2>10, <3>2, <3>4, <4>2
        <5> QED
          BY <1>2, <2>4, <2>10, <4>2, <5>1 DEF Apart
      <4> QED
        BY <4>1, <4>2
    <3> QED
      BY <1>4, <2>9, <3>3, <3>4 DEF Apart, KeyOf
  <2> QED
    BY <1>5, <2>5, <2>7, <2>11, <2>12 DEF ReadInv
<1> QED
  BY <1>6, <1>7 DEF Claim

LEMMA SendOK ==
    ASSUME ReadInv, NEW r \in Readers, Send(r)
    PROVE  ReadInv'
<1> DEFINE s == call[r]
           key == KeyOf(s.copy)
           job == [copy |-> s.copy, page |-> s.page]
           n == Len(jobs)
           K(q) == KeyOf(call[q].copy)
           J(i) == KeyOf(jobs[i].copy)
<1>1. r \in Callers /\ r # Worker
  BY ArchiveAssumption DEF Callers
<1>2. Tables /\ Queue /\ CallsOK /\ Kept /\ Apart
  BY DEF ReadInv
<1>3. s.pc = "send"
  BY DEF Send, At
<1>4. UNCHANGED <<book, index, cached, closed, changes>> /\ call' = [call EXCEPT ![r] = Idle]
  BY DEF Send
<1>5. Tables'
  BY <1>2, <1>4 DEF Tables
<1>6. Becomes(r, Idle)
  BY <1>1, <1>4, IdleOK DEF Becomes
<1>7. CallsOK'
  BY <1>1, <1>2, <1>6, BecomesOK
<1>8. /\ call'[Worker] = call[Worker] /\ call'[r].pc = "idle"
      /\ \A q \in Readers : q # r => call'[q] = call[q]
  BY <1>2, <1>6, ReaderView DEF Idle
<1>9. \A q \in Readers : call'[q].pc = "send" => q # r /\ call[q].pc = "send" /\ KeyOf(call'[q].copy) = K(q)
  BY <1>8
<1>10. \A q \in Readers : q # r /\ call[q].pc = "send" => call'[q].pc = "send" /\ KeyOf(call'[q].copy) = K(q)
  BY <1>8
<1>11. key \in Keys
  BY <1>2, <1>3, SenderKey
<1>12. n \in Nat
  BY <1>2 DEF Queue
<1>13. \A q \in Readers : q # r /\ call[q].pc = "send" => K(q) # key
  BY <1>2, <1>3 DEF Apart
<1>14. \A i \in 1..n : J(i) # key
  BY <1>2, <1>3 DEF Apart
<1>15. call[Worker].key # key
  BY <1>2, <1>3 DEF Apart
<1>16. CASE n < Cap /\ jobs' = Append(jobs, job) /\ UNCHANGED pending
  <2>1. job \in Jobs
    BY <1>1, <1>2, <1>3 DEF CallsOK, CallOK, CallState, Copy, Jobs
  <2>2. jobs \in Seq(Jobs)
    BY <1>2 DEF Queue
  <2>3. job.copy = s.copy
    OBVIOUS
  <2> HIDE DEF job
  <2>4. /\ jobs' \in Seq(Jobs) /\ Len(jobs') = n + 1 /\ jobs'[n + 1] = job
        /\ \A i \in 1..n : jobs'[i] = jobs[i]
    BY <1>16, <2>1, <2>2
  <2>5. Queue'
    BY <1>2, <1>4, <1>12, <1>16, <2>4, ArchiveAssumption DEF Queue
  <2>6. \A i \in 1 .. n + 1 : KeyOf(jobs'[i].copy) = IF i = n + 1 THEN key ELSE J(i)
    BY <1>12, <2>3, <2>4
  <2>7. Kept'
    <3>1. ASSUME NEW k \in Keys
          PROVE  k \in pending <=> \/ \E i \in 1..n : J(i) = k
                                   \/ call[Worker].key = k
                                   \/ \E q \in Readers : call[q].pc = "send" /\ K(q) = k
      BY <1>2 DEF Kept, Waiting, Sending
    <3>2. ASSUME NEW k \in Keys
          PROVE  (\E i \in 1 .. n + 1 : KeyOf(jobs'[i].copy) = k) <=> (\E i \in 1..n : J(i) = k) \/ k = key
      <4>1. ASSUME NEW i \in 1 .. n + 1, KeyOf(jobs'[i].copy) = k
            PROVE  (\E j \in 1..n : J(j) = k) \/ k = key
        <5>1. i = n + 1 \/ i \in 1..n
          BY <1>12
        <5> QED
          BY <2>6, <4>1, <5>1, <1>12
      <4>2. ASSUME NEW i \in 1..n, J(i) = k
            PROVE  \E j \in 1 .. n + 1 : KeyOf(jobs'[j].copy) = k
        <5>1. i \in 1 .. n + 1 /\ i # n + 1
          BY <1>12
        <5>2. KeyOf(jobs'[i].copy) = k
          BY <2>6, <4>2, <5>1
        <5> QED
          BY <5>1, <5>2
      <4>3. ASSUME k = key
            PROVE  \E j \in 1 .. n + 1 : KeyOf(jobs'[j].copy) = k
        <5>1. n + 1 \in 1 .. n + 1
          BY <1>12
        <5> QED
          BY <2>6, <4>3, <5>1
      <4> QED
        BY <4>1, <4>2, <4>3
    <3>3. ASSUME NEW k \in Keys
          PROVE  (\E q \in Readers : call[q].pc = "send" /\ K(q) = k)
                     <=> (\E q \in Readers : call'[q].pc = "send" /\ KeyOf(call'[q].copy) = k) \/ k = key
      BY <1>3, <1>9, <1>10
    <3>4. ASSUME NEW k \in Keys
          PROVE  k \in pending' <=> \/ \E i \in 1 .. n + 1 : KeyOf(jobs'[i].copy) = k
                                    \/ call'[Worker].key = k
                                    \/ \E q \in Readers : call'[q].pc = "send" /\ KeyOf(call'[q].copy) = k
      <4>1. call'[Worker].key = call[Worker].key /\ pending' = pending
        BY <1>8, <1>16
      <4> QED
        BY <3>1, <3>2, <3>3, <4>1, Zenon
    <3> QED
      BY <2>4, <3>4 DEF Kept, Waiting, Sending, Keys, Versions, KeyOf
  <2>8. Apart'
    <3>1. ASSUME NEW i \in 1 .. n + 1, NEW j \in 1 .. n + 1, KeyOf(jobs'[i].copy) = KeyOf(jobs'[j].copy)
          PROVE  i = j
      <4>1. (i = n + 1 \/ i \in 1..n) /\ (j = n + 1 \/ j \in 1..n)
        BY <1>12
      <4>2. i \in 1..n /\ j \in 1..n => J(i) = J(j)
        BY <1>12, <2>6, <3>1
      <4>3. i \in 1..n /\ j \in 1..n => i = j
        BY <1>2, <4>2 DEF Apart
      <4>4. ~(i \in 1..n /\ j = n + 1) /\ ~(i = n + 1 /\ j \in 1..n)
        BY <1>12, <1>14, <2>6, <3>1
      <4> QED
        BY <4>1, <4>3, <4>4
    <3>2. ASSUME NEW i \in 1 .. n + 1
          PROVE  KeyOf(jobs'[i].copy) # call'[Worker].key
      <4>1. i = n + 1 \/ i \in 1..n
        BY <1>12
      <4>2. i \in 1..n => J(i) # call[Worker].key
        BY <1>2 DEF Apart
      <4> QED
        BY <1>8, <1>15, <2>6, <4>1, <4>2
    <3>3. ASSUME NEW p \in Readers, call'[p].pc = "send"
          PROVE  /\ KeyOf(call'[p].copy) # call'[Worker].key
                 /\ \A i \in 1 .. n + 1 : KeyOf(jobs'[i].copy) # KeyOf(call'[p].copy)
                 /\ \A q \in Readers : call'[q].pc = "send" /\ KeyOf(call'[q].copy) = KeyOf(call'[p].copy) => q = p
      <4>1. p # r /\ call[p].pc = "send" /\ KeyOf(call'[p].copy) = K(p)
        BY <1>9, <3>3
      <4>2. K(p) # call'[Worker].key /\ K(p) # key
        BY <1>2, <1>8, <1>13, <4>1 DEF Apart
      <4>3. \A i \in 1..n : J(i) # K(p)
        BY <1>2, <4>1 DEF Apart
      <4>4. ASSUME NEW i \in 1 .. n + 1 PROVE KeyOf(jobs'[i].copy) # K(p)
        <5>1. i = n + 1 \/ i \in 1..n
          BY <1>12
        <5> QED
          BY <2>6, <4>2, <4>3, <5>1
      <4>5. \A q \in Readers : call[q].pc = "send" /\ K(q) = K(p) => q = p
        BY <1>2, <4>1 DEF Apart
      <4> QED
        BY <1>9, <4>1, <4>2, <4>4, <4>5
    <3> QED
      BY <2>4, <3>1, <3>2, <3>3 DEF Apart, KeyOf
  <2> QED
    BY <1>5, <1>7, <2>5, <2>7, <2>8 DEF ReadInv
<1>17. CASE pending' = pending \ {key} /\ UNCHANGED jobs
  <2>1. Queue'
    BY <1>2, <1>4, <1>17 DEF Queue
  <2>2. Kept'
    <3>1. ASSUME NEW k \in Keys
          PROVE  k \in pending' <=> \/ \E i \in 1..n : J(i) = k
                                    \/ call'[Worker].key = k
                                    \/ \E q \in Readers : call'[q].pc = "send" /\ KeyOf(call'[q].copy) = k
      <4>1. k \in pending <=> \/ \E i \in 1..n : J(i) = k
                              \/ call[Worker].key = k
                              \/ \E q \in Readers : call[q].pc = "send" /\ K(q) = k
        BY <1>2 DEF Kept, Waiting, Sending
      <4> QED
        BY <1>8, <1>9, <1>10, <1>13, <1>14, <1>15, <1>17, <4>1
    <3> QED
      BY <1>17, <3>1 DEF Kept, Waiting, Sending, Keys, Versions, KeyOf
  <2>3. Apart'
    <3>1. /\ \A i, j \in 1..n : J(i) = J(j) => i = j
          /\ \A i \in 1..n : J(i) # call'[Worker].key
      BY <1>2, <1>8 DEF Apart
    <3>2. ASSUME NEW p \in Readers, call'[p].pc = "send"
          PROVE  /\ KeyOf(call'[p].copy) # call'[Worker].key
                 /\ \A i \in 1..n : J(i) # KeyOf(call'[p].copy)
                 /\ \A q \in Readers : call'[q].pc = "send" /\ KeyOf(call'[q].copy) = KeyOf(call'[p].copy) => q = p
      BY <1>2, <1>8, <1>9, <3>2 DEF Apart
    <3> QED
      BY <1>17, <3>1, <3>2 DEF Apart, KeyOf
  <2> QED
    BY <1>5, <1>7, <2>1, <2>2, <2>3 DEF ReadInv
<1> QED
  BY <1>16, <1>17 DEF Send

-----------------------------------------------------------------------------
(* The worker.                                                             *)

(* A step of the worker as the keys see it.                                *)
LEMMA WorkerView ==
    ASSUME CallsOK, NEW s, Becomes(Worker, s)
    PROVE  call'[Worker] = s /\ \A r \in Readers : call'[r] = call[r]
<1>1. Worker \in Callers /\ Readers \subseteq Callers /\ Worker \notin Readers
  BY ArchiveAssumption DEF Callers
<1> QED
  BY <1>1 DEF Becomes, CallsOK

LEMMA TakeJobOK ==
    ASSUME ReadInv, TakeJob
    PROVE  ReadInv'
<1> DEFINE n == Len(jobs)
           job == jobs[1]
           key == KeyOf(job.copy)
           s == [Idle EXCEPT !.pc = "setting", !.kind = "worker", !.copy = job.copy, !.page = job.page, !.key = key]
           K(q) == KeyOf(call[q].copy)
           J(i) == KeyOf(jobs[i].copy)
<1>1. Worker \in Callers
  BY DEF Callers
<1>2. Tables /\ Queue /\ CallsOK /\ Kept /\ Apart
  BY DEF ReadInv
<1>3. jobs \in Seq(Jobs) /\ jobs # <<>> /\ jobs' = Tail(jobs)
  BY <1>2 DEF Queue, TakeJob
<1>4. n \in Nat \ {0} /\ 1 \in 1..n /\ Head(jobs) = job
  BY <1>3
<1>5. /\ jobs' \in Seq(Jobs) /\ Len(jobs') = n - 1
      /\ \A i \in 1 .. n - 1 : jobs'[i] = jobs[i + 1]
  BY <1>3, <1>4
<1>6. job \in Jobs /\ key \in Keys
  BY <1>2, <1>4, JobKey
<1>7. call[Worker].pc = "idle" /\ call[Worker].key = <<>>
  BY <1>1, <1>2 DEF TakeJob, At, CallsOK, CallOK
<1>8. Becomes(Worker, s) /\ s.key = key
  <2>1. Idle \in CallState
    BY <1>1, IdleOK DEF CallOK
  <2>2. job.copy \in Copy /\ job.copy.book \in Books /\ job.page \in 0 .. Pages + 1
    BY <1>6 DEF Jobs, Copy
  <2>3. /\ s \in CallState /\ s.pc = "setting" /\ s.kind = "worker" /\ s.copy = job.copy /\ s.key = key
    BY <1>6, <2>1, <2>2 DEF CallState, Positions, WorkerPositions
  <2>4. call' = [call EXCEPT ![Worker] = s]
    BY <1>4 DEF TakeJob
  <2> HIDE DEF s
  <2>5. CallOK(Worker, s)
    BY <2>2, <2>3 DEF CallOK, WorkerPositions
  <2> QED
    BY <2>3, <2>4, <2>5 DEF Becomes
<1> HIDE DEF s
<1>9. call'[Worker].key = key /\ \A r \in Readers : call'[r] = call[r]
  BY <1>2, <1>8, WorkerView
<1>10. CallsOK'
  BY <1>1, <1>2, <1>8, BecomesOK
<1>11. UNCHANGED <<book, index, cached, pending, closed, changes>>
  BY DEF TakeJob
<1>12. Tables'
  BY <1>2, <1>11 DEF Tables
<1>13. Queue'
  BY <1>2, <1>4, <1>5, <1>11, ArchiveAssumption DEF Queue
<1>14. \A i \in 1 .. n - 1 : KeyOf(jobs'[i].copy) = J(i + 1) /\ i + 1 \in 1..n /\ i + 1 # 1
  BY <1>4, <1>5
<1>15. \A i \in 1..n : i # 1 => J(i) # key
  BY <1>2, <1>4 DEF Apart
<1>16. Kept'
  <2>1. ASSUME NEW k \in Keys
        PROVE  k \in pending' <=> \/ \E i \in 1 .. n - 1 : KeyOf(jobs'[i].copy) = k
                                  \/ call'[Worker].key = k
                                  \/ \E q \in Readers : call'[q].pc = "send" /\ KeyOf(call'[q].copy) = k
    <3>1. k \in pending <=> \/ \E i \in 1..n : J(i) = k
                            \/ call[Worker].key = k
                            \/ \E q \in Readers : call[q].pc = "send" /\ K(q) = k
      BY <1>2 DEF Kept, Waiting, Sending
    <3>2. call[Worker].key # k
      BY <1>7, NoKey
    <3>3. (\E i \in 1..n : J(i) = k) <=> (\E i \in 1 .. n - 1 : KeyOf(jobs'[i].copy) = k) \/ key = k
      <4>1. ASSUME NEW i \in 1..n, J(i) = k
            PROVE  (\E j \in 1 .. n - 1 : KeyOf(jobs'[j].copy) = k) \/ key = k
        <5>1. CASE i = 1
          BY <4>1, <5>1
        <5>2. CASE i # 1
          <6>1. i - 1 \in 1 .. n - 1 /\ (i - 1) + 1 = i
            BY <1>4, <5>2
          <6>2. KeyOf(jobs'[i - 1].copy) = J((i - 1) + 1)
            BY <1>14, <6>1
          <6> QED
            BY <4>1, <6>1, <6>2
        <5> QED
          BY <5>1, <5>2
      <4>2. ASSUME NEW j \in 1 .. n - 1, KeyOf(jobs'[j].copy) = k
            PROVE  \E i \in 1..n : J(i) = k
        <5>1. J(j + 1) = k /\ j + 1 \in 1..n
          BY <1>14, <4>2
        <5> QED
          BY <5>1
      <4>3. ASSUME key = k PROVE \E i \in 1..n : J(i) = k
        BY <1>4, <4>3
      <4> QED
        BY <4>1, <4>2, <4>3
    <3>4. pending' = pending /\ call'[Worker].key = key
      BY <1>9, <1>11
    <3>5. (\E q \in Readers : call'[q].pc = "send" /\ KeyOf(call'[q].copy) = k)
            <=> (\E q \in Readers : call[q].pc = "send" /\ K(q) = k)
      BY <1>9
    <3> QED
      BY <3>1, <3>2, <3>3, <3>4, <3>5, Zenon
  <2> QED
    BY <1>5, <2>1 DEF Kept, Waiting, Sending, Keys, Versions, KeyOf
<1>17. Apart'
  <2>1. ASSUME NEW i \in 1 .. n - 1, NEW j \in 1 .. n - 1, KeyOf(jobs'[i].copy) = KeyOf(jobs'[j].copy)
        PROVE  i = j
    <3>1. J(i + 1) = J(j + 1) /\ i + 1 \in 1..n /\ j + 1 \in 1..n
      BY <1>14, <2>1
    <3>2. i + 1 = j + 1
      BY <1>2, <3>1 DEF Apart
    <3> QED
      BY <1>4, <3>2
  <2>2. \A i \in 1 .. n - 1 : KeyOf(jobs'[i].copy) # call'[Worker].key
    BY <1>9, <1>14, <1>15
  <2>3. ASSUME NEW p \in Readers, call'[p].pc = "send"
        PROVE  /\ KeyOf(call'[p].copy) # call'[Worker].key
               /\ \A i \in 1 .. n - 1 : KeyOf(jobs'[i].copy) # KeyOf(call'[p].copy)
               /\ \A q \in Readers : call'[q].pc = "send" /\ KeyOf(call'[q].copy) = KeyOf(call'[p].copy) => q = p
    <3>1. call[p].pc = "send" /\ KeyOf(call'[p].copy) = K(p)
      BY <1>9, <2>3
    <3>2. \A i \in 1..n : J(i) # K(p)
      BY <1>2, <3>1 DEF Apart
    <3>3. K(p) # key
      BY <1>4, <3>2
    <3>4. \A q \in Readers : call[q].pc = "send" /\ K(q) = K(p) => q = p
      BY <1>2, <3>1 DEF Apart
    <3> QED
      BY <1>9, <1>14, <3>1, <3>2, <3>3, <3>4
  <2> QED
    BY <1>5, <2>1, <2>2, <2>3 DEF Apart, KeyOf
<1> QED
  BY <1>10, <1>12, <1>13, <1>16, <1>17 DEF ReadInv

LEMMA FinishOK ==
    ASSUME ReadInv, Finish
    PROVE  ReadInv'
<1> DEFINE key == call[Worker].key
           K(q) == KeyOf(call[q].copy)
           J(i) == KeyOf(jobs[i].copy)
<1>1. Worker \in Callers
  BY DEF Callers
<1>2. Tables /\ Queue /\ CallsOK /\ Kept /\ Apart
  BY DEF ReadInv
<1>3. Becomes(Worker, Idle) /\ Idle.key = <<>>
  BY <1>1, IdleOK DEF Finish, Becomes, Idle
<1>4. call'[Worker].key = <<>> /\ \A r \in Readers : call'[r] = call[r]
  BY <1>2, <1>3, WorkerView
<1>5. UNCHANGED <<book, index, cached, jobs, closed, changes>> /\ pending' = pending \ {key}
  BY DEF Finish
<1>6. Tables' /\ Queue' /\ CallsOK'
  BY <1>1, <1>2, <1>3, <1>5, BecomesOK DEF Tables, Queue
<1>7. Kept'
  <2>1. ASSUME NEW k \in Keys
        PROVE  k \in pending' <=> \/ \E i \in 1..Len(jobs) : J(i) = k
                                  \/ call'[Worker].key = k
                                  \/ \E q \in Readers : call'[q].pc = "send" /\ KeyOf(call'[q].copy) = k
    <3>1. k \in pending <=> \/ \E i \in 1..Len(jobs) : J(i) = k
                            \/ key = k
                            \/ \E q \in Readers : call[q].pc = "send" /\ K(q) = k
      BY <1>2 DEF Kept, Waiting, Sending
    <3>2. call'[Worker].key # k
      BY <1>4, NoKey
    <3>3. /\ \A i \in 1..Len(jobs) : J(i) # key
          /\ \A q \in Readers : call[q].pc = "send" => K(q) # key
      BY <1>2 DEF Apart
    <3> QED
      BY <1>4, <1>5, <3>1, <3>2, <3>3
  <2> QED
    BY <1>5, <2>1 DEF Kept, Waiting, Sending, Keys, Versions, KeyOf
<1>8. Apart'
  <2>1. \A i \in 1..Len(jobs) : J(i) # <<>>
    BY <1>2, JobKey, NoKey
  <2>2. \A r \in Readers : call[r].pc = "send" => K(r) # <<>>
    BY <1>2, SenderKey, NoKey
  <2> QED
    BY <1>2, <1>4, <1>5, <2>1, <2>2 DEF Apart, KeyOf
<1> QED
  BY <1>6, <1>7, <1>8 DEF ReadInv

LEMMA WorkerWalks ==
    ASSUME Tables, CallsOK,
           \/ \E enabled \in BOOLEAN : CheckSetting(enabled)
           \/ NextBookInSeries \/ NextBook \/ WorkerGone
    PROVE  Walks(Worker) /\ UNCHANGED <<book, index, cached, prefetcher, changes>>
<1> SUFFICES Walks(Worker)
  BY DEF CheckSetting, NextBookInSeries, NextBook, WorkerGone
<1> DEFINE s == call[Worker]
<1>1. Worker \in Callers
  BY DEF Callers
<1>2. CallOK(Worker, s) /\ s \in CallState
  BY <1>1 DEF CallsOK, CallOK
<1>3. ASSUME NEW enabled \in BOOLEAN, CheckSetting(enabled)
      PROVE  Walks(Worker)
  <2>1. s.pc = "setting" /\ (Goto(Worker, "finish") \/ Goto(Worker, "next"))
    BY <1>3 DEF CheckSetting, At
  <2> QED
    BY <1>1, <2>1, GotoWalks DEF Positions, WorkerPositions
<1>4. CASE NextBookInSeries
  <2> DEFINE b == CHOOSE x \in Following(s.copy) : TRUE
             t == [s EXCEPT !.pc = "book", !.copy = [NoCopy EXCEPT !.book = b]]
  <2>1. s.pc = "next"
    BY <1>4 DEF NextBookInSeries, At
  <2>2. CASE Goto(Worker, "finish")
    BY <1>1, <2>1, <2>2, GotoWalks DEF Positions, WorkerPositions
  <2>3. CASE Following(s.copy) # {} /\ call' = [call EXCEPT ![Worker].pc = "book",
                                                        ![Worker].copy = [NoCopy EXCEPT !.book = b]]
    <3>1. b \in Books
      <4>1. b \in Following(s.copy)
        BY <2>3
      <4>2. \A copy : Following(copy) \subseteq Books
        BY Zenon DEF Following
      <4> HIDE DEF b
      <4> QED
        BY <4>1, <4>2
    <3>2. call' = [call EXCEPT ![Worker] = t]
      BY <1>1, <2>3 DEF CallsOK
    <3> HIDE DEF b
    <3>3. 0 \in Versions
      BY ArchiveAssumption DEF Versions
    <3>4. [NoCopy EXCEPT !.book = b] \in Copy /\ [NoCopy EXCEPT !.book = b].book = b
      BY <3>1, <3>3 DEF NoCopy, Copy
    <3>5. /\ t \in CallState /\ t.pc = "book" /\ t.copy.book = b /\ t.kind = s.kind /\ t.page = s.page
          /\ t.key = s.key
      BY <1>2, <3>4 DEF CallState, Positions, WorkerPositions
    <3> HIDE DEF t
    <3>6. CallOK(Worker, t)
      BY <1>2, <2>1, <3>1, <3>5 DEF CallOK, WorkerPositions
    <3>7. Becomes(Worker, t) /\ t.pc # "send"
      BY <3>2, <3>5, <3>6, Zenon DEF Becomes
    <3>8. call[Worker].pc # "send" /\ t.key = call[Worker].key
      BY <2>1, <3>5
    <3> QED
      BY <3>7, <3>8, Zenon DEF Walks
  <2> QED
    BY <1>4, <2>2, <2>3 DEF NextBookInSeries
<1>5. CASE NextBook
  <2> DEFINE b == s.copy.book
             t == [s EXCEPT !.pc = "index", !.copy = BookByID(b)]
  <2>1. s.pc = "book"
    BY <1>5 DEF NextBook, At
  <2>2. CASE Goto(Worker, "finish")
    BY <1>1, <2>1, <2>2, GotoWalks DEF Positions, WorkerPositions
  <2>3. CASE call' = [call EXCEPT ![Worker].pc = "index", ![Worker].copy = BookByID(b)]
    <3>1. b \in Books
      BY <1>2, <2>1 DEF CallOK
    <3>2. call' = [call EXCEPT ![Worker] = t]
      BY <1>1, <2>3 DEF CallsOK
    <3>3. BookByID(b) \in Copy /\ BookByID(b).book = b
      BY <3>1, CopyOK
    <3>4. /\ t \in CallState /\ t.pc = "index" /\ t.copy.book = b /\ t.kind = s.kind /\ t.page = s.page
          /\ t.key = s.key
      BY <1>2, <3>3 DEF CallState, Positions, WorkerPositions
    <3> HIDE DEF t
    <3>5. CallOK(Worker, t)
      BY <1>2, <2>1, <3>1, <3>4 DEF CallOK, WorkerPositions
    <3>6. Becomes(Worker, t) /\ t.pc # "send"
      BY <3>2, <3>4, <3>5 DEF Becomes
    <3> QED
      BY <2>1, <3>4, <3>6 DEF Walks
  <2> QED
    BY <1>5, <2>2, <2>3 DEF NextBook
<1>6. CASE WorkerGone
  <2> DEFINE t == [s EXCEPT !.pc = "gone"]
  <2>1. s.pc = "idle" /\ call' = [call EXCEPT ![Worker] = t]
    BY <1>6 DEF WorkerGone, At, Goto
  <2>2. t \in CallState /\ t.pc = "gone" /\ t.kind = s.kind /\ t.page = s.page /\ t.key = s.key
    BY <1>2 DEF CallState, Positions, WorkerPositions
  <2> HIDE DEF t
  <2>3. CallOK(Worker, t)
    BY <1>2, <2>1, <2>2 DEF CallOK, WorkerPositions
  <2>4. Becomes(Worker, t) /\ t.pc # "send"
    BY <2>1, <2>2, <2>3 DEF Becomes
  <2> QED
    BY <2>1, <2>2, <2>4 DEF Walks
<1> QED
  BY <1>3, <1>4, <1>5, <1>6

-----------------------------------------------------------------------------
(* The two results.                                                        *)

LEMMA WalkOK ==
    ASSUME ReadInv, NEW c \in Callers, Tables', Queue', Walks(c), UNCHANGED <<jobs, pending>>
    PROVE  ReadInv'
BY WalkKeepsKeys DEF ReadInv

LEMMA FrameOK ==
    ASSUME ReadInv, NEW c \in Callers, Walks(c), UNCHANGED <<book, index, cached, prefetcher, changes>>
    PROVE  ReadInv'
<1>1. Tables' /\ Queue'
  BY DEF ReadInv, Tables, Queue, prefetcher
<1> QED
  BY <1>1, WalkOK DEF prefetcher

LEMMA StepRead == ReadInv /\ [Next]_vars => ReadInv'
<1> SUFFICES ASSUME ReadInv, [Next]_vars PROVE ReadInv'
  OBVIOUS
<1>1. Worker \in Callers /\ Readers \subseteq Callers
  BY DEF Callers
<1>2. Tables /\ Queue /\ CallsOK
  BY DEF ReadInv
<1>3. CASE UNCHANGED vars
  <2>1. CallsOK' /\ Kept' /\ Apart'
    BY <1>3, CallsUnchanged DEF ReadInv, vars, prefetcher
  <2>2. Tables' /\ Queue'
    BY <1>2, <1>3 DEF vars, prefetcher, Tables, Queue
  <2> QED
    BY <2>1, <2>2 DEF ReadInv
<1>4. ASSUME NEW b \in Books, NEW s \in Series \cup {None}, NEW replaced \in BOOLEAN, Scan(b, s, replaced)
      PROVE  ReadInv'
  BY <1>4, ScanOK
<1>5. ASSUME NEW r \in Readers, NEW b \in Books,
             \/ \E n \in 1 .. Pages + 1 : Read(r, b, n)
             \/ \E force \in BOOLEAN : List(r, b, force)
      PROVE  ReadInv'
  BY <1>1, <1>2, <1>5, StartOK, FrameOK
<1>6. ASSUME NEW c \in Callers, ListStep(c) PROVE ReadInv'
  BY <1>2, <1>6, ListStepOK, WalkOK
<1>7. ASSUME NEW r \in Readers, ReaderStep(r) PROVE ReadInv'
  <2>1. CASE DeleteArchiveIndex(r) \/ FindPage(r) \/ (\E keep \in BOOLEAN : ReadEntry(r, keep)) \/ Sent(r)
    BY <1>1, <1>2, <2>1, ReaderStepOK, WalkOK
  <2>2. CASE Claim(r) \/ Send(r)
    BY <2>2, ClaimOK, SendOK
  <2> QED
    BY <1>7, <2>1, <2>2 DEF ReaderStep
<1>8. CASE WorkerStep
  <2>1. CASE (\E enabled \in BOOLEAN : CheckSetting(enabled)) \/ NextBookInSeries \/ NextBook \/ WorkerGone
    BY <1>1, <1>2, <2>1, WorkerWalks, FrameOK
  <2>2. CASE TakeJob \/ Finish
    BY <2>2, TakeJobOK, FinishOK
  <2> QED
    BY <1>8, <2>1, <2>2 DEF WorkerStep
<1>9. CASE Close \/ Evict
  BY <1>9, CloseOK, EvictOK
<1> QED
  BY <1>3, <1>4, <1>5, <1>6, <1>7, <1>8, <1>9 DEF Next

LEMMA AlwaysRead == Spec => []ReadInv
BY InitRead, StepRead, PTL DEF Spec

(* The tables, calls, queue and keys keep their types.                     *)
THEOREM TypeCorrect == Spec => []TypeOK
<1>1. ReadInv => TypeOK
  <2> SUFFICES ASSUME ReadInv PROVE TypeOK
    OBVIOUS
  <2>1. \A c \in Callers : call[c].pc \in Positions /\ call[c].kind \in {"list", "read", "worker"}
    BY DEF ReadInv, CallsOK, CallState
  <2> QED
    BY <2>1 DEF ReadInv, Tables, Queue, TypeOK, Keys, Positions, WorkerPositions
<1> QED
  BY <1>1, AlwaysRead, PTL

(* A call never works with the pages of another version of its book than   *)
(* the one it was started for, and sends a page of that version.           *)
THEOREM CallsKeepVersion == Spec => []OwnVersion
<1>1. ReadInv => OwnVersion
  <2> SUFFICES ASSUME ReadInv, NEW r \in Readers
               PROVE  /\ call[r].pc \in {"page", "load"} => call[r].pages = call[r].copy.version
                      /\ call[r].pc = "served" => call[r].data = call[r].copy.version
    BY DEF OwnVersion
  <2>1. CallOK(r, call[r])
    BY DEF ReadInv, CallsOK, Callers
  <2> QED
    BY <2>1 DEF CallOK
<1> QED
  BY <1>1, AlwaysRead, PTL

(* A key is pending exactly while one job, one worker or one caller about  *)
(* to send has it, and then only one of them.                              *)
THEOREM KeysHeldOnce == Spec => []PendingAgrees
<1>1. ReadInv => PendingAgrees
  <2> SUFFICES ASSUME ReadInv, NEW k \in Books \X Versions
               PROVE  Cardinality(Holders(k)) = IF k \in pending THEN 1 ELSE 0
    BY DEF PendingAgrees
  <2> DEFINE J(i) == KeyOf(jobs[i].copy)
             K(c) == KeyOf(call[c].copy)
  <2>1. k \in Keys /\ Queue /\ CallsOK /\ Kept /\ Apart
    BY DEF ReadInv, Keys
  <2>2. DOMAIN jobs = 1..Len(jobs)
    BY <2>1 DEF Queue
  <2>3. call[Worker].pc # "send"
    BY <2>1 DEF CallsOK, CallOK, Callers, WorkerPositions
  <2>4. Holders(k) = {i \in 1..Len(jobs) : J(i) = k}
                         \cup {c \in Callers : c = Worker /\ call[Worker].key = k}
                         \cup {r \in Readers : call[r].pc = "send" /\ K(r) = k}
    BY <2>2, <2>3 DEF Holders, Callers
  <2>5. CASE k \notin pending
    <3>1. ~Waiting(k) /\ call[Worker].key # k /\ ~Sending(k)
      BY <2>1, <2>5 DEF Kept
    <3>2. Holders(k) = {}
      BY <2>4, <3>1 DEF Waiting, Sending
    <3> QED
      BY <2>5, <3>2, FS_EmptySet
  <2>6. CASE k \in pending
    <3>1. \E h : Holders(k) = {h}
      <4>1. CASE Waiting(k)
        <5>1. PICK i \in 1..Len(jobs) : J(i) = k
          BY <4>1 DEF Waiting
        <5>2. \A j \in 1..Len(jobs) : J(j) = k => j = i
          BY <2>1, <5>1 DEF Apart
        <5>3. call[Worker].key # k /\ \A r \in Readers : call[r].pc = "send" => K(r) # k
          BY <2>1, <5>1 DEF Apart
        <5>4. Holders(k) = {i}
          BY <2>4, <5>1, <5>2, <5>3
        <5> QED
          BY <5>4
      <4>2. CASE call[Worker].key = k
        <5>1. (\A i \in 1..Len(jobs) : J(i) # k) /\ \A r \in Readers : call[r].pc = "send" => K(r) # k
          BY <2>1, <4>2 DEF Apart
        <5>2. Holders(k) = {Worker}
          BY <2>4, <4>2, <5>1 DEF Callers
        <5> QED
          BY <5>2
      <4>3. CASE Sending(k)
        <5>1. PICK r \in Readers : call[r].pc = "send" /\ K(r) = k
          BY <4>3 DEF Sending
        <5>2. /\ call[Worker].key # k
              /\ \A i \in 1..Len(jobs) : J(i) # k
              /\ \A q \in Readers : call[q].pc = "send" /\ K(q) = k => q = r
          BY <2>1, <5>1 DEF Apart
        <5>3. Holders(k) = {r}
          BY <2>4, <5>1, <5>2
        <5> QED
          BY <5>3
      <4> QED
        BY <2>1, <2>6, <4>1, <4>2, <4>3 DEF Kept
    <3> QED
      BY <2>6, <3>1, FS_Singleton
  <2> QED
    BY <2>5, <2>6
<1> QED
  BY <1>1, AlwaysRead, PTL

-----------------------------------------------------------------------------
(* Reading progress: its types.                                            *)

LEMMA InitType ==
    ASSUME 0 \in 0..Pages, Progress!Init, MaxChanges \in Nat
    PROVE  Progress!TypeOK
<1>1. Progress!NoProgress \in Progress!ProgressRow /\ Progress!NoLoaded \in Progress!LoadedRow
            /\ Progress!Idle \in Progress!CallState
  BY DEF Progress!NoProgress, Progress!ProgressRow, Progress!NoLoaded, Progress!LoadedRow, Progress!Idle,
         Progress!CallState
<1> QED
  BY <1>1 DEF Progress!Init, Progress!TypeOK, Progress!NoPut

(* The rows that a cascade leaves. *)
LEMMA CascadeType ==
    ASSUME Progress!TypeOK, 0 \in 0..Pages, Progress!Cascade
    PROVE  /\ progress' \in [Books -> Progress!ProgressRow]
           /\ loaded' \in [Books -> Progress!LoadedRow]
<1>1. Progress!NoProgress \in Progress!ProgressRow /\ Progress!NoLoaded \in Progress!LoadedRow
  BY DEF Progress!NoProgress, Progress!ProgressRow, Progress!NoLoaded, Progress!LoadedRow
<1> QED
  BY <1>1 DEF Progress!Cascade, Progress!TypeOK

(* A scan, and the start of a handler. *)
LEMMA StartType ==
    ASSUME Progress!TypeOK, Pages \in Nat, MaxChanges \in Nat,
           NEW c \in Handlers, NEW b \in Books, NEW pc \in {"patch", "delete", "sent"},
           NEW completed \in BOOLEAN, NEW page \in 0..Pages, Progress!Start(c, b, pc, completed, page)
    PROVE  Progress!TypeOK'
<1>1. [pc |-> pc, book |-> b, series |-> home[b], completed |-> completed, page |-> page] \in Progress!CallState
  BY DEF Progress!TypeOK, Progress!CallState
<1>2. handler' \in [Handlers -> Progress!CallState]
  BY <1>1 DEF Progress!Start, Progress!TypeOK
<1> QED
  BY <1>2 DEF Progress!Start, Progress!TypeOK

LEMMA ChangeType ==
    ASSUME Progress!TypeOK, MaxChanges \in Nat, Progress!Change
    PROVE  edits' \in 0..MaxChanges /\ strict' = Progress!NoPut /\ handler' = handler
BY DEF Progress!Change, Progress!TypeOK

LEMMA AnswerType ==
    ASSUME Progress!TypeOK, Pages \in Nat, NEW c \in Handlers, Progress!Answer(c)
    PROVE  handler' \in [Handlers -> Progress!CallState]
<1>1. Progress!Idle \in Progress!CallState
  BY DEF Progress!Idle, Progress!CallState
<1> QED
  BY <1>1 DEF Progress!Answer, Progress!TypeOK

LEMMA StartPutType ==
    ASSUME Progress!TypeOK, Pages \in Nat, NEW c \in Handlers, NEW s \in Series, NEW upto \in Books \cup {0},
           Progress!StartPut(c, s, upto)
    PROVE  Progress!TypeOK'
<1>1. [pc |-> "put", book |-> upto, series |-> s, completed |-> FALSE, page |-> 0] \in Progress!CallState
  BY DEF Progress!CallState
<1>2. handler' \in [Handlers -> Progress!CallState]
  BY <1>1 DEF Progress!StartPut, Progress!TypeOK
<1> QED
  BY <1>2 DEF Progress!StartPut, Progress!TypeOK

(* The steps of the scanner. *)
LEMMA ScanType ==
    ASSUME Progress!TypeOK, Pages \in Nat, MaxChanges \in Nat,
           \/ \E b \in Books, s \in Series : Progress!ScanBook(b, s)
           \/ \E b \in Books : Progress!DropBook(b)
           \/ \E s \in Series : Progress!DropSeries(s)
    PROVE  Progress!TypeOK'
<1>1. Progress!NoPut \in [series : Series \cup {None}, upto : Books \cup {0}]
  BY DEF Progress!NoPut
<1>2. Progress!Change /\ edits' \in 0..MaxChanges /\ strict' = Progress!NoPut /\ handler' = handler
  BY ChangeType DEF Progress!ScanBook, Progress!DropBook, Progress!DropSeries
<1>3. known' \in SUBSET Series /\ home' \in [Books -> Series \cup {None}]
  BY DEF Progress!ScanBook, Progress!DropBook, Progress!DropSeries, Progress!TypeOK
<1>4. progress' \in [Books -> Progress!ProgressRow] /\ loaded' \in [Books -> Progress!LoadedRow]
  BY CascadeType DEF Progress!ScanBook, Progress!DropBook, Progress!DropSeries, Progress!TypeOK
<1> QED
  BY <1>1, <1>2, <1>3, <1>4 DEF Progress!TypeOK

(* The writes of the handlers. *)
LEMMA UpdateType ==
    ASSUME Progress!TypeOK, Pages \in Nat, NEW c \in Handlers, Progress!UpdateBookReadProgress(c)
    PROVE  Progress!TypeOK'
<1> DEFINE d == handler[c]
           old == progress[d.book]
           new == [exists |-> TRUE, series |-> d.series, completed |-> d.completed,
                   page |-> IF d.page > 0 THEN d.page ELSE old.page]
<1>1. d \in Progress!CallState
  BY DEF Progress!TypeOK
<1>2. d.book \in Books => new \in Progress!ProgressRow
  <2> HAVE d.book \in Books
  <2>1. old \in Progress!ProgressRow
    BY DEF Progress!TypeOK
  <2> QED
    BY <1>1, <2>1 DEF Progress!CallState, Progress!ProgressRow
<1>3. progress' = [progress EXCEPT ![d.book] = new]
  BY DEF Progress!UpdateBookReadProgress
<1>4. progress' \in [Books -> Progress!ProgressRow]
  BY <1>2, <1>3 DEF Progress!TypeOK
<1>5. handler' \in [Handlers -> Progress!CallState]
  BY AnswerType DEF Progress!UpdateBookReadProgress
<1> QED
  BY <1>4, <1>5 DEF Progress!UpdateBookReadProgress, Progress!TypeOK, Progress!NoPut

LEMMA RecordType ==
    ASSUME Progress!TypeOK, Pages \in Nat, NEW c \in Handlers, Progress!RecordBookPageProgress(c)
    PROVE  Progress!TypeOK'
<1> DEFINE d == handler[c]
           old == loaded[d.book]
           new == [series |-> d.series, last |-> d.page,
                   max |-> IF d.page > old.max THEN d.page ELSE old.max, count |-> Pages]
<1>1. d \in Progress!CallState
  BY DEF Progress!TypeOK
<1>2. d.book \in Books => new \in Progress!LoadedRow
  <2> HAVE d.book \in Books
  <2>1. old \in Progress!LoadedRow
    BY DEF Progress!TypeOK
  <2> QED
    BY <1>1, <2>1 DEF Progress!CallState, Progress!LoadedRow
<1>3. loaded' = [loaded EXCEPT ![d.book] = new]
  BY DEF Progress!RecordBookPageProgress
<1>4. loaded' \in [Books -> Progress!LoadedRow]
  BY <1>2, <1>3 DEF Progress!TypeOK
<1>5. handler' \in [Handlers -> Progress!CallState]
  BY AnswerType DEF Progress!RecordBookPageProgress
<1> QED
  BY <1>4, <1>5 DEF Progress!RecordBookPageProgress, Progress!TypeOK

LEMMA DeleteType ==
    ASSUME Progress!TypeOK, Pages \in Nat, NEW c \in Handlers, Progress!DeleteBookReadProgress(c)
    PROVE  Progress!TypeOK'
<1>1. Progress!NoProgress \in Progress!ProgressRow
  BY DEF Progress!NoProgress, Progress!ProgressRow
<1>2. handler' \in [Handlers -> Progress!CallState]
  BY AnswerType DEF Progress!DeleteBookReadProgress
<1> QED
  BY <1>1, <1>2 DEF Progress!DeleteBookReadProgress, Progress!TypeOK, Progress!NoPut

LEMMA PutType ==
    ASSUME Progress!TypeOK, Pages \in Nat, NEW c \in Handlers, Progress!UpdateSeriesReadProgress(c)
    PROVE  Progress!TypeOK'
<1> DEFINE s == handler[c].series
           upto == handler[c].book
<1>1. s \in Series \cup {None} /\ upto \in Books \cup {0}
  BY DEF Progress!TypeOK, Progress!CallState
<1>2. Progress!NoProgress \in Progress!ProgressRow
  BY DEF Progress!NoProgress, Progress!ProgressRow
<1>3. ASSUME NEW b \in Books
      PROVE  [progress[b] EXCEPT !.exists = TRUE, !.series = s, !.completed = TRUE] \in Progress!ProgressRow
  BY <1>1 DEF Progress!TypeOK, Progress!ProgressRow
<1>4. progress' \in [Books -> Progress!ProgressRow]
  BY <1>2, <1>3 DEF Progress!UpdateSeriesReadProgress, Progress!TypeOK
<1>5. handler' \in [Handlers -> Progress!CallState]
  BY AnswerType DEF Progress!UpdateSeriesReadProgress
<1>6. strict' \in [series : Series \cup {None}, upto : Books \cup {0}]
  BY <1>1 DEF Progress!UpdateSeriesReadProgress
<1> QED
  BY <1>4, <1>5, <1>6 DEF Progress!UpdateSeriesReadProgress, Progress!TypeOK

LEMMA StepType == Pages \in Nat /\ MaxChanges \in Nat /\ Progress!TypeOK
            /\ [Progress!Next]_(Progress!vars) => Progress!TypeOK'
<1> SUFFICES ASSUME Pages \in Nat, MaxChanges \in Nat, Progress!TypeOK, [Progress!Next]_(Progress!vars)
        PROVE Progress!TypeOK'
  OBVIOUS
<1>1. CASE UNCHANGED Progress!vars
  BY <1>1 DEF Progress!vars, Progress!TypeOK
<1>2. CASE \/ \E b \in Books, s \in Series : Progress!ScanBook(b, s)
           \/ \E b \in Books : Progress!DropBook(b)
           \/ \E s \in Series : Progress!DropSeries(s)
  BY <1>2, ScanType
<1>3. ASSUME NEW c \in Handlers,
             \/ \E b \in Books, completed \in BOOLEAN, page \in 0..Pages :
                     Progress!StartPatch(c, b, completed, page)
             \/ \E b \in Books : Progress!StartDelete(c, b)
             \/ \E b \in Books, page \in 1..Pages : Progress!SendPage(c, b, page)
      PROVE  Progress!TypeOK'
  <2>1. CASE \E b \in Books, completed \in BOOLEAN, page \in 0..Pages :
          Progress!StartPatch(c, b, completed, page)
    BY <2>1, StartType DEF Progress!StartPatch
  <2>2. CASE \E b \in Books : Progress!StartDelete(c, b)
    <3>1. FALSE \in BOOLEAN /\ 0 \in 0..Pages
      OBVIOUS
    <3> QED
      BY <2>2, <3>1, StartType DEF Progress!StartDelete
  <2>3. CASE \E b \in Books, page \in 1..Pages : Progress!SendPage(c, b, page)
    <3>1. FALSE \in BOOLEAN /\ 1..Pages \subseteq 0..Pages
      OBVIOUS
    <3> QED
      BY <2>3, <3>1, StartType DEF Progress!SendPage
  <2> QED
    BY <1>3, <2>1, <2>2, <2>3
<1>4. ASSUME NEW c \in Handlers, \E s \in Series, upto \in Books \cup {0} : Progress!StartPut(c, s, upto)
      PROVE  Progress!TypeOK'
  BY <1>4, StartPutType
<1>5. ASSUME NEW c \in Handlers, Progress!UpdateBookReadProgress(c) \/ Progress!DeleteBookReadProgress(c)
                             \/ Progress!RecordBookPageProgress(c) \/ Progress!UpdateSeriesReadProgress(c)
      PROVE  Progress!TypeOK'
  BY <1>5, UpdateType, DeleteType, RecordType, PutType
<1>6. ASSUME NEW c \in Handlers, Progress!Fail(c) PROVE Progress!TypeOK'
  BY <1>6, AnswerType DEF Progress!Fail, Progress!TypeOK
<1> QED
  BY <1>1, <1>2, <1>3, <1>4, <1>5, <1>6 DEF Progress!Next

(* The rows keep their types, whatever the handlers were sent. *)
THEOREM ProgressTypeCorrect == Progress!Spec => []Progress!TypeOK
<1>1. Pages \in Nat /\ MaxChanges \in Nat /\ 0 \in 0..Pages
  BY ArchiveAssumption
<1>2. Progress!Init => Progress!TypeOK
  BY <1>1, InitType
<1> QED
  BY <1>1, <1>2, StepType, PTL DEF Progress!Spec

-----------------------------------------------------------------------------
(* Rows have parents.  A handler's copy of the series may be gone by the   *)
(* time it writes; what keeps the rows true is the foreign keys, and for   *)
(* the tracker's PUT, which writes the series it was called with, that it  *)
(* was called with one.                                                    *)

PutHasSeries == \A c \in Handlers : handler[c].pc = "put" => handler[c].series # None

Parents == Progress!RowsHaveParents /\ PutHasSeries

LEMMA InitParents ==
    ASSUME None \notin Series, Progress!Init
    PROVE  Parents
BY DEF Progress!Init, Parents, Progress!RowsHaveParents, PutHasSeries, Progress!NoProgress,
       Progress!NoLoaded, Progress!Idle

LEMMA ScanParents ==
    ASSUME None \notin Series, Progress!TypeOK, Parents,
           \/ \E b \in Books, s \in Series : Progress!ScanBook(b, s)
           \/ \E b \in Books : Progress!DropBook(b)
           \/ \E s \in Series : Progress!DropSeries(s)
    PROVE  Parents'
<1>1. PutHasSeries'
  BY DEF Parents, PutHasSeries, Progress!ScanBook, Progress!DropBook, Progress!DropSeries, Progress!Change
<1>2. ASSUME NEW b \in Books, NEW s \in Series, Progress!ScanBook(b, s)
      PROVE  Progress!RowsHaveParents'
  BY <1>2 DEF Parents, Progress!RowsHaveParents, Progress!ScanBook, Progress!TypeOK
<1>3. ASSUME NEW b \in Books, Progress!DropBook(b)
      PROVE  Progress!RowsHaveParents'
  BY <1>3 DEF Parents, Progress!RowsHaveParents, Progress!DropBook, Progress!Cascade, Progress!TypeOK,
              Progress!NoProgress, Progress!NoLoaded
<1>4. ASSUME NEW s \in Series, Progress!DropSeries(s)
      PROVE  Progress!RowsHaveParents'
  BY <1>4 DEF Parents, Progress!RowsHaveParents, Progress!DropSeries, Progress!Cascade, Progress!TypeOK,
              Progress!NoProgress, Progress!NoLoaded
<1> QED
  BY <1>1, <1>2, <1>3, <1>4 DEF Parents

LEMMA AnswerPuts ==
    ASSUME Progress!TypeOK, PutHasSeries, NEW c \in Handlers, Progress!Answer(c)
    PROVE  PutHasSeries'
BY DEF PutHasSeries, Progress!Answer, Progress!TypeOK, Progress!Idle

LEMMA StartParents ==
    ASSUME None \notin Series, Progress!TypeOK, Parents, NEW c \in Handlers,
           \/ \E b \in Books, completed \in BOOLEAN, page \in 0..Pages :
                   Progress!StartPatch(c, b, completed, page)
           \/ \E b \in Books : Progress!StartDelete(c, b)
           \/ \E b \in Books, page \in 1..Pages : Progress!SendPage(c, b, page)
           \/ \E s \in Series, upto \in Books \cup {0} : Progress!StartPut(c, s, upto)
    PROVE  Parents'
<1>1. Progress!RowsHaveParents'
  BY DEF Parents, Progress!RowsHaveParents, Progress!StartPatch, Progress!StartDelete, Progress!SendPage,
         Progress!Start, Progress!StartPut
<1>2. PutHasSeries'
  BY DEF Parents, PutHasSeries, Progress!StartPatch, Progress!StartDelete, Progress!SendPage,
         Progress!Start, Progress!StartPut, Progress!TypeOK
<1> QED
  BY <1>1, <1>2 DEF Parents

LEMMA WriteParents ==
    ASSUME None \notin Series, Progress!TypeOK, Parents, NEW c \in Handlers,
           \/ Progress!UpdateBookReadProgress(c) \/ Progress!DeleteBookReadProgress(c)
                       \/ Progress!RecordBookPageProgress(c)
           \/ Progress!UpdateSeriesReadProgress(c) \/ Progress!Fail(c)
    PROVE  Parents'
<1>1. PutHasSeries'
  BY AnswerPuts DEF Parents, Progress!UpdateBookReadProgress, Progress!DeleteBookReadProgress,
                    Progress!RecordBookPageProgress,
                    Progress!UpdateSeriesReadProgress, Progress!Fail
<1>2. ASSUME Progress!UpdateBookReadProgress(c) PROVE Progress!RowsHaveParents'
  <2>1. progress'[handler[c].book].series = handler[c].series \/ handler[c].book \notin Books
    BY <1>2 DEF Progress!UpdateBookReadProgress, Progress!TypeOK
  <2>2. \A b \in Books : b # handler[c].book => progress'[b] = progress[b]
    BY <1>2 DEF Progress!UpdateBookReadProgress, Progress!TypeOK
  <2> QED
    BY <1>2, <2>1, <2>2 DEF Parents, Progress!RowsHaveParents, Progress!UpdateBookReadProgress,
                    Progress!Allowed
<1>3. ASSUME Progress!DeleteBookReadProgress(c) PROVE Progress!RowsHaveParents'
  <2>1. \A b \in Books : progress'[b] = IF b = handler[c].book THEN Progress!NoProgress ELSE progress[b]
    BY <1>3 DEF Progress!DeleteBookReadProgress, Progress!TypeOK
  <2> QED
    BY <1>3, <2>1 DEF Parents, Progress!RowsHaveParents, Progress!DeleteBookReadProgress,
                    Progress!NoProgress
<1>4. ASSUME Progress!RecordBookPageProgress(c) PROVE Progress!RowsHaveParents'
  <2>1. loaded'[handler[c].book].series = handler[c].series \/ handler[c].book \notin Books
    BY <1>4 DEF Progress!RecordBookPageProgress, Progress!TypeOK
  <2>2. \A b \in Books : b # handler[c].book => loaded'[b] = loaded[b]
    BY <1>4 DEF Progress!RecordBookPageProgress, Progress!TypeOK
  <2> QED
    BY <1>4, <2>1, <2>2 DEF Parents, Progress!RowsHaveParents, Progress!RecordBookPageProgress,
                    Progress!Allowed
<1>5. ASSUME Progress!UpdateSeriesReadProgress(c) PROVE Progress!RowsHaveParents'
  <2> DEFINE s == handler[c].series
  <2>1. s # None
    BY <1>5 DEF Parents, PutHasSeries, Progress!UpdateSeriesReadProgress
  <2>2. ASSUME NEW b \in Books, progress'[b].exists
        PROVE  home[b] # None /\ progress'[b].series \in known
    <3>1. progress[b] \in Progress!ProgressRow
      BY DEF Progress!TypeOK
    <3>2. CASE home[b] = s /\ b > handler[c].book /\ progress[b].series = s
      BY <1>5, <2>2, <3>2 DEF Progress!UpdateSeriesReadProgress, Progress!NoProgress
    <3>3. CASE ~(home[b] = s /\ b > handler[c].book /\ progress[b].series = s) /\ home[b] = s
                /\ b <= handler[c].book
      <4>1. progress'[b].series = s
        BY <1>5, <3>1, <3>3 DEF Progress!UpdateSeriesReadProgress, Progress!ProgressRow
      <4> QED
        BY <2>1, <3>3, <4>1 DEF Parents, Progress!RowsHaveParents
    <3>4. CASE ~(home[b] = s /\ b > handler[c].book /\ progress[b].series = s) /\ ~(home[b] = s
                /\ b <= handler[c].book)
      <4>1. progress'[b] = progress[b]
        BY <1>5, <3>4 DEF Progress!UpdateSeriesReadProgress
      <4> QED
        BY <2>2, <4>1 DEF Parents, Progress!RowsHaveParents
    <3> QED
      BY <3>2, <3>3, <3>4
  <2> QED
    BY <1>5, <2>2 DEF Parents, Progress!RowsHaveParents, Progress!UpdateSeriesReadProgress
<1>6. ASSUME Progress!Fail(c) PROVE Progress!RowsHaveParents'
  BY <1>6 DEF Parents, Progress!RowsHaveParents, Progress!Fail
<1> QED
  BY <1>1, <1>2, <1>3, <1>4, <1>5, <1>6 DEF Parents

LEMMA StepParents == None \notin Series /\ Progress!TypeOK /\ Parents
            /\ [Progress!Next]_(Progress!vars) => Parents'
<1> SUFFICES ASSUME None \notin Series, Progress!TypeOK, Parents, [Progress!Next]_(Progress!vars)
        PROVE Parents'
  OBVIOUS
<1>1. CASE UNCHANGED Progress!vars
  BY <1>1 DEF Progress!vars, Parents, Progress!RowsHaveParents, PutHasSeries
<1>2. CASE Progress!Next
  BY <1>2, ScanParents, StartParents, WriteParents DEF Progress!Next
<1> QED
  BY <1>1, <1>2

(* No row of either table is ever left without its book or its series,     *)
(* although every handler writes with a copy that scans may have outdated. *)
THEOREM RowsKeepParents == Progress!Spec => []Progress!RowsHaveParents
<1>1. None \notin Series
  BY ArchiveAssumption
<1>2. Progress!Init => Parents
  BY <1>1, InitParents
<1>3. Progress!Spec => []Progress!TypeOK
  BY ProgressTypeCorrect
<1>4. Parents => Progress!RowsHaveParents
  BY DEF Parents
<1> QED
  BY <1>1, <1>2, <1>3, <1>4, StepParents, PTL DEF Progress!Spec

-----------------------------------------------------------------------------
(* The read_status filters.                                                *)

(* The SQL conditions for READ, IN_PROGRESS and UNREAD divide the series:  *)
(* every one is found by exactly one of them, in every state.              *)
THEOREM StatusesDivide == Progress!StatusPartition
<1> SUFFICES ASSUME NEW s \in Series
             PROVE  /\ Progress!SeriesRead(s) \/ Progress!SeriesInProgress(s) \/ Progress!SeriesUnread(s)
                    /\ ~(Progress!SeriesRead(s) /\ Progress!SeriesInProgress(s))
                    /\ ~(Progress!SeriesRead(s) /\ Progress!SeriesUnread(s))
                    /\ ~(Progress!SeriesInProgress(s) /\ Progress!SeriesUnread(s))
  BY DEF Progress!StatusPartition
<1>1. Progress!SeriesRead(s) \/ Progress!SeriesInProgress(s) \/ Progress!SeriesUnread(s)
  BY DEF Progress!SeriesRead, Progress!SeriesInProgress, Progress!SeriesUnread, Progress!Read
<1>2. ~(Progress!SeriesRead(s) /\ Progress!SeriesInProgress(s))
  BY DEF Progress!SeriesRead, Progress!SeriesInProgress
<1>3. ~(Progress!SeriesRead(s) /\ Progress!SeriesUnread(s))
  BY DEF Progress!SeriesRead, Progress!SeriesUnread, Progress!Read
<1>4. ~(Progress!SeriesInProgress(s) /\ Progress!SeriesUnread(s))
  BY DEF Progress!SeriesInProgress, Progress!SeriesUnread
<1> QED
  BY <1>1, <1>2, <1>3, <1>4
==============================================================================
