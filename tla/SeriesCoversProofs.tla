-------------------------- MODULE SeriesCoversProofs --------------------------
(***************************************************************************)
(* For any series, books, calls and changes of the catalog: the types of   *)
(* the covers, that operationMu excludes, that a look never deletes a      *)
(* cover it did not judge, and that it serves the page of the right book.  *)
(***************************************************************************)
EXTENDS SeriesCovers, TLAPS

Holding == {"wait", "first", "book", "row", "file", "insert"}

(* Who is at work has a series, and the book it has looked up. *)
AtWork ==
    /\ \A g \in Gens :
          /\ gen[g].pc # "idle" => gen[g].series \in Series
          /\ gen[g].pc \in {"jobBook", "book", "row", "file", "insert"} => gen[g].first \in Picture
    /\ \A k \in Looks :
          /\ look[k].pc # "idle" => look[k].series \in Series
          /\ look[k].pc \in {"book", "row", "file"} => look[k].first \in Picture

TypeInv == TypeOK /\ AtWork

-----------------------------------------------------------------------------
(* Type correctness.                                                       *)

LEMMA BookType ==
    ASSUME TypeOK, CoverAssumption, NEW b \in Books
    PROVE  /\ BookByID(b) \in Cover
           /\ book[b].series # None => book[b].series \in Series /\ BookByID(b) \in Picture
           /\ BookByID(b) # NoPicture => book[b].series # None
<1>1. book[b].series \in Series \cup {None} /\ book[b].version \in Versions
  BY DEF TypeOK
<1>2. [book |-> b, version |-> book[b].version] \in Picture
  BY <1>1 DEF Picture
<1> QED
  BY <1>1, <1>2 DEF BookByID, Cover

LEMMA NoPictureType == NoPicture \in Cover /\ (CoverAssumption => NoPicture \notin Picture)
<1>1. NoPicture.book = None
  BY DEF NoPicture
<1>2. \A p \in Picture : p.book \in Books
  BY DEF Picture
<1> QED
  BY <1>1, <1>2 DEF Cover, CoverAssumption

LEMMA FirstType ==
    ASSUME TypeOK, CoverAssumption, NEW s \in Series, NEW b \in FirstBook(s)
    PROVE  b \in Books /\ BookByID(b) \in Picture
<1>1. b \in Books /\ book[b].series = s
  BY DEF FirstBook
<1>2. s # None
  BY DEF CoverAssumption
<1> QED
  BY <1>1, <1>2, BookType

(* Steps of a generation and of a look that leave the others alone. *)
LEMMA GenUpdate ==
    ASSUME TypeInv, NEW g \in Gens, NEW t \in GenState, gen' = [gen EXCEPT ![g] = t], UNCHANGED look,
           t.pc # "idle" => t.series \in Series,
           t.pc \in {"jobBook", "book", "row", "file", "insert"} => t.first \in Picture
    PROVE  gen' \in [Gens -> GenState] /\ AtWork'
<1>1. gen' \in [Gens -> GenState] /\ \A h \in Gens : gen'[h] = IF h = g THEN t ELSE gen[h]
  BY DEF TypeInv, TypeOK
<1> QED
  BY <1>1 DEF TypeInv, AtWork

LEMMA LookUpdate ==
    ASSUME TypeInv, NEW k \in Looks, NEW t \in LookState, look' = [look EXCEPT ![k] = t], UNCHANGED gen,
           t.pc # "idle" => t.series \in Series,
           t.pc \in {"book", "row", "file"} => t.first \in Picture
    PROVE  look' \in [Looks -> LookState] /\ AtWork'
<1>1. look' \in [Looks -> LookState] /\ \A h \in Looks : look'[h] = IF h = k THEN t ELSE look[h]
  BY DEF TypeInv, TypeOK
<1> QED
  BY <1>1 DEF TypeInv, AtWork

LEMMA IdleTypes == IdleGen \in GenState /\ IdleGen.pc = "idle" /\ IdleLook \in LookState /\ IdleLook.pc = "idle"
BY NoPictureType DEF IdleGen, GenAt, GenState, IdleLook, LookAt, LookState

(* Every successor of a generation's state. *)
GenNext(g, t) ==
    /\ t \in GenState /\ gen' = [gen EXCEPT ![g] = t]
    /\ t.pc # "idle" => t.series \in Series
    /\ t.pc \in {"jobBook", "book", "row", "file", "insert"} => t.first \in Picture

LEMMA GenGoto ==
    ASSUME TypeInv, NEW g \in Gens, NEW l \in {"wait", "first", "file", "insert"},
           gen' = [gen EXCEPT ![g].pc = l], gen[g].pc # "idle",
           l \in {"file", "insert"} => gen[g].first \in Picture
    PROVE  GenNext(g, [gen[g] EXCEPT !.pc = l])
<1>1. gen[g] \in GenState /\ gen[g].series \in Series
  BY DEF TypeInv, TypeOK, AtWork
<1>2. [gen[g] EXCEPT !.pc = l] \in GenState
  BY <1>1 DEF GenState
<1> QED
  BY <1>1, <1>2 DEF GenNext, GenState

LEMMA GenFirstType ==
    ASSUME TypeInv, NEW g \in Gens, NEW l \in {"jobBook", "book", "row"}, NEW p \in Picture,
           gen' = [gen EXCEPT ![g] = [@ EXCEPT !.pc = l, !.first = p]], gen[g].pc # "idle"
    PROVE  GenNext(g, [gen[g] EXCEPT !.pc = l, !.first = p])
<1>1. gen[g] \in GenState /\ gen[g].series \in Series
  BY DEF TypeInv, TypeOK, AtWork
<1>2. [gen[g] EXCEPT !.pc = l, !.first = p] \in GenState
  BY <1>1 DEF GenState, Cover
<1> QED
  BY <1>1, <1>2 DEF GenNext, GenState

LEMMA GenIdle ==
    ASSUME NEW g \in Gens, gen' = [gen EXCEPT ![g] = IdleGen]
    PROVE  GenNext(g, IdleGen)
BY IdleTypes DEF GenNext

LEMMA GenStarts ==
    ASSUME TypeInv, CoverAssumption, NEW g \in Gens, GenStart(g)
    PROVE  \E t : GenNext(g, t)
<1>1. ASSUME NEW b \in Books, ReadPage(g, b)
      PROVE  \E t : GenNext(g, t)
  <2> DEFINE t == GenAt("claim", FALSE, book[b].series, BookByID(b))
  <2>1. gen' = [gen EXCEPT ![g] = t] /\ book[b].series # None
    BY <1>1 DEF ReadPage
  <2>2. book[b].series \in Series /\ BookByID(b) \in Cover /\ NoPicture \in Cover
    BY <2>1, BookType, NoPictureType DEF TypeInv
  <2>3. GenNext(g, t)
    BY <2>1, <2>2 DEF GenNext, GenAt, GenState
  <2> QED
    BY <2>3
<1>2. ASSUME NEW s \in Series, NEW force \in BOOLEAN, StartJob(g, s, force)
      PROVE  \E t : GenNext(g, t)
  <2> DEFINE t == GenAt("jobFirst", force, s, NoPicture)
  <2>1. gen' = [gen EXCEPT ![g] = t]
    BY <1>2 DEF StartJob
  <2>2. GenNext(g, t)
    BY <2>1, NoPictureType DEF GenNext, GenAt, GenState
  <2> QED
    BY <2>2
<1> QED
  BY <1>1, <1>2 DEF GenStart

LEMMA GenSteps ==
    ASSUME TypeInv, CoverAssumption, NEW g \in Gens, GenLock(g) \/ GenStep(g)
    PROVE  \E t : GenNext(g, t)
<1>0. /\ gen[g] \in GenState
      /\ gen[g].pc # "idle" => gen[g].series \in Series
      /\ gen[g].pc \in {"jobBook", "book", "row", "file", "insert"} => gen[g].first \in Picture
  BY DEF TypeInv, TypeOK, AtWork
<1>1. CASE GenLock(g) \/ GenEnter(g) \/ GenFile(g)
  BY <1>0, <1>1, GenGoto DEF GenLock, GenEnter, GenFile
<1>2. CASE GenFails(g) \/ GenInsert(g)
  BY <1>2, GenIdle DEF GenFails, GenInsert, GenReturn
<1>3. CASE Claim(g)
  <2>1. CASE gen' = [gen EXCEPT ![g] = IdleGen]
    BY <2>1, GenIdle
  <2>2. CASE gen' = [gen EXCEPT ![g] = [@ EXCEPT !.pc = "lock", !.claimed = TRUE]]
    <3> DEFINE t == [gen[g] EXCEPT !.pc = "lock", !.claimed = TRUE]
    <3>1. t \in GenState /\ t.pc = "lock" /\ t.series = gen[g].series
      BY <1>0 DEF GenState
    <3>2. gen[g].series \in Series /\ gen' = [gen EXCEPT ![g] = t]
      BY <1>0, <1>3, <2>2 DEF Claim
    <3> HIDE DEF t
    <3>3. GenNext(g, t)
      BY <3>1, <3>2 DEF GenNext
    <3> QED
      BY <3>3
  <2> QED
    BY <1>3, <2>1, <2>2 DEF Claim
<1>4. CASE JobFirst(g)
  <2>1. ASSUME NEW b \in FirstBook(gen[g].series),
               gen' = [gen EXCEPT ![g] = [@ EXCEPT !.pc = "jobBook", !.first = BookByID(b)]]
        PROVE  \E t : GenNext(g, t)
    <3>1. gen[g].pc # "idle" /\ BookByID(b) \in Picture
      BY <1>0, <1>4, FirstType DEF JobFirst, TypeInv
    <3> QED
      BY <2>1, <3>1, GenFirstType
  <2> QED
    BY <1>4, <2>1, GenIdle DEF JobFirst
<1>5. CASE JobBook(g)
  <2> DEFINE b == gen[g].first.book
             t == GenAt("lock", gen[g].force, book[b].series, BookByID(b))
  <2>1. b \in Books
    BY <1>0, <1>5 DEF JobBook, Picture
  <2>2. CASE book[b].series # None /\ gen' = [gen EXCEPT ![g] = t]
    <3>1. book[b].series \in Series /\ BookByID(b) \in Cover /\ NoPicture \in Cover /\ gen[g].force \in BOOLEAN
      BY <1>0, <2>1, <2>2, BookType, NoPictureType DEF TypeInv, GenState
    <3> HIDE DEF b
    <3>2. GenNext(g, t)
      BY <2>2, <3>1 DEF GenNext, GenAt, GenState
    <3> QED
      BY <3>2
  <2> QED
    BY <1>5, <2>2, GenIdle DEF JobBook
<1>6. CASE GenFirst(g)
  <2>1. PICK b \in FirstBook(gen[g].series) :
           gen' = [gen EXCEPT ![g] = [@ EXCEPT !.pc = "book", !.first = BookByID(b)]]
    BY <1>6 DEF GenFirst
  <2>2. gen[g].pc # "idle" /\ BookByID(b) \in Picture
    BY <1>0, <1>6, FirstType DEF GenFirst, TypeInv
  <2> QED
    BY <2>1, <2>2, GenFirstType
<1>7. CASE GenBook(g)
  <2> DEFINE p == BookByID(gen[g].first.book)
  <2>1. gen[g].first.book \in Books /\ p # NoPicture /\ gen[g].pc # "idle"
    BY <1>0, <1>7 DEF GenBook, Picture
  <2>2. p \in Picture
    BY <2>1, BookType DEF TypeInv
  <2> HIDE DEF p
  <2>3. gen' = [gen EXCEPT ![g] = [@ EXCEPT !.pc = "row", !.first = p]] \/ gen' = [gen EXCEPT ![g] = IdleGen]
    BY <1>7 DEF GenBook, GenReturn, p
  <2> QED
    BY <2>1, <2>2, <2>3, GenFirstType, GenIdle
<1>8. CASE GenRow(g)
  <2>1. gen' = [gen EXCEPT ![g].pc = "file"] \/ gen' = [gen EXCEPT ![g] = IdleGen]
    BY <1>8 DEF GenRow, GenReturn
  <2>2. gen[g].pc = "row"
    BY <1>8 DEF GenRow
  <2> QED
    BY <1>0, <2>1, <2>2, GenGoto, GenIdle
<1> QED
  BY <1>1, <1>2, <1>3, <1>4, <1>5, <1>6, <1>7, <1>8 DEF GenStep

LookNext(k, t) ==
    /\ t \in LookState /\ look' = [look EXCEPT ![k] = t]
    /\ t.pc # "idle" => t.series \in Series
    /\ t.pc \in {"book", "row", "file"} => t.first \in Picture

LEMMA LookFirstType ==
    ASSUME TypeInv, NEW k \in Looks, NEW l \in {"book", "row"}, NEW p \in Picture,
           look' = [look EXCEPT ![k] = [@ EXCEPT !.pc = l, !.first = p]], look[k].pc # "idle"
    PROVE  LookNext(k, [look[k] EXCEPT !.pc = l, !.first = p])
<1>1. look[k] \in LookState /\ look[k].series \in Series
  BY DEF TypeInv, TypeOK, AtWork
<1>2. [look[k] EXCEPT !.pc = l, !.first = p] \in LookState
  BY <1>1 DEF LookState, Cover
<1> QED
  BY <1>1, <1>2 DEF LookNext, LookState

LEMMA LookSteps ==
    ASSUME TypeInv, CoverAssumption, NEW k \in Looks,
           LookStep(k) \/ \E s \in Series, shared \in BOOLEAN : LookLock(k, s, shared)
    PROVE  \E t : LookNext(k, t)
<1>0. /\ look[k] \in LookState
      /\ look[k].pc # "idle" => look[k].series \in Series
      /\ look[k].pc \in {"book", "row", "file"} => look[k].first \in Picture
  BY DEF TypeInv, TypeOK, AtWork
<1>1. ASSUME look' = [look EXCEPT ![k] = IdleLook]
      PROVE  \E t : LookNext(k, t)
  <2>1. LookNext(k, IdleLook)
    BY <1>1, IdleTypes DEF LookNext
  <2> QED
    BY <2>1
<1>2. ASSUME NEW l \in {"first", "removeFile", "deleteRow"}, look' = [look EXCEPT ![k].pc = l], look[k].pc # "idle"
      PROVE  \E t : LookNext(k, t)
  <2>1. LookNext(k, [look[k] EXCEPT !.pc = l])
    BY <1>0, <1>2 DEF LookNext, LookState
  <2> QED
    BY <2>1
<1>3. CASE LookEnter(k) \/ RemoveFile(k)
  BY <1>2, <1>3 DEF LookEnter, RemoveFile, LookGoto
<1>4. CASE LookFails(k) \/ DeleteRow(k)
  BY <1>1, <1>4 DEF LookFails, DeleteRow, LookReturn
<1>5. CASE LookFile(k)
  BY <1>1, <1>2, <1>5 DEF LookFile, LookReturn, LookGoto
<1>6. CASE LookFirst(k)
  <2>1. PICK b \in FirstBook(look[k].series) :
           look' = [look EXCEPT ![k] = [@ EXCEPT !.pc = "book", !.first = BookByID(b)]]
    BY <1>6 DEF LookFirst
  <2>2. look[k].pc # "idle" /\ BookByID(b) \in Picture
    BY <1>0, <1>6, FirstType DEF LookFirst, TypeInv
  <2> QED
    BY <2>1, <2>2, LookFirstType
<1>7. CASE LookBook(k)
  <2> DEFINE p == BookByID(look[k].first.book)
  <2>1. look[k].first.book \in Books /\ p # NoPicture /\ look[k].pc # "idle"
    BY <1>0, <1>7 DEF LookBook, Picture
  <2>2. p \in Picture
    BY <2>1, BookType DEF TypeInv
  <2> HIDE DEF p
  <2>3. look' = [look EXCEPT ![k] = [@ EXCEPT !.pc = "row", !.first = p]]
    BY <1>7 DEF LookBook, p
  <2> QED
    BY <2>1, <2>2, <2>3, LookFirstType
<1>8. CASE LookRow(k)
  <2> DEFINE item == row[look[k].series]
             l == IF item = look[k].first THEN "file" ELSE "removeFile"
             t == [look[k] EXCEPT !.item = item, !.pc = l]
  <2>1. look[k].pc = "row" /\ look' = [look EXCEPT ![k] = t]
    BY <1>8 DEF LookRow
  <2>2. item \in Cover /\ look[k].series \in Series /\ look[k].first \in Picture
    BY <1>0, <2>1 DEF TypeInv, TypeOK
  <2>3. l \in {"file", "removeFile"}
    OBVIOUS
  <2> HIDE DEF item, l
  <2>4. t \in LookState /\ t.pc = l /\ t.series = look[k].series /\ t.first = look[k].first
    BY <1>0, <2>2, <2>3 DEF LookState
  <2> HIDE DEF t
  <2>5. LookNext(k, t)
    BY <2>1, <2>2, <2>4 DEF LookNext
  <2> QED
    BY <2>5
<1>9. ASSUME NEW s \in Series, NEW shared \in BOOLEAN, LookLock(k, s, shared)
      PROVE  \E t : LookNext(k, t)
  <2> DEFINE l == IF shared THEN "first" ELSE "wait"
             t == LookAt(l, s)
  <2>1. look' = [look EXCEPT ![k] = t]
    BY <1>9 DEF LookLock, Entered
  <2>2. l \in {"first", "wait"}
    OBVIOUS
  <2> HIDE DEF l
  <2>3. t \in LookState /\ t.pc = l /\ t.series = s
    BY <2>2, NoPictureType DEF LookAt, LookState
  <2> HIDE DEF t
  <2>4. LookNext(k, t)
    BY <2>1, <2>2, <2>3 DEF LookNext
  <2> QED
    BY <2>4
<1> QED
  BY <1>3, <1>4, <1>5, <1>6, <1>7, <1>8, <1>9 DEF LookStep

(* A step is of the catalog, of one call, of Clear, or a new process. *)
LEMMA StepKinds ==
    ASSUME TypeInv, CoverAssumption, Next
    PROVE  \/ CatalogStep /\ UNCHANGED <<file, torn, lock, inflight, gen, look, clearing, restarts>>
           \/ \E g \in Gens : /\ GenStart(g) \/ GenLock(g) \/ GenStep(g)
                              /\ \E t : GenNext(g, t)
                              /\ UNCHANGED <<catalog, look, clearing, bounds>>
           \/ \E k \in Looks : /\ LookStep(k) \/ \E s \in Series, shared \in BOOLEAN : LookLock(k, s, shared)
                               /\ \E t : LookNext(k, t)
                               /\ UNCHANGED <<catalog, inflight, gen, clearing, bounds>>
           \/ /\ ClearLock \/ ClearEnter \/ ClearFiles \/ ClearRows
              /\ UNCHANGED <<catalog, sharers, inflight, gen, look, bounds>>
           \/ Restart
<1>1. CatalogStep => UNCHANGED <<file, torn, lock, inflight, gen, look, clearing, restarts>>
  BY DEF CatalogStep, ScanBook, DropBook, DropSeries, Change, covers
<1>2. ASSUME NEW g \in Gens, GenStart(g) \/ GenLock(g) \/ GenStep(g)
      PROVE  UNCHANGED <<catalog, look, clearing, bounds>>
  <2>1. GenStart(g) => UNCHANGED <<catalog, look, clearing, bounds>>
    BY ZenonT(30) DEF GenStart, ReadPage, StartJob
  <2>2. GenLock(g) => UNCHANGED <<catalog, look, clearing, bounds>>
    BY DEF GenLock
  <2>3. Claim(g) \/ JobFirst(g) \/ JobBook(g) \/ GenEnter(g) \/ GenFails(g)
        => UNCHANGED <<catalog, look, clearing, bounds>>
    BY ZenonT(30) DEF Claim, JobFirst, JobBook, GenEnter, GenFails
  <2>4. GenFirst(g) \/ GenBook(g) \/ GenRow(g) \/ GenFile(g) \/ GenInsert(g)
        => UNCHANGED <<catalog, look, clearing, bounds>>
    BY ZenonT(30) DEF GenFirst, GenBook, GenRow, GenFile, GenInsert
  <2> QED
    BY <1>2, <2>1, <2>2, <2>3, <2>4 DEF GenStep
<1>3. ASSUME NEW k \in Looks, LookStep(k) \/ \E s \in Series, shared \in BOOLEAN : LookLock(k, s, shared)
      PROVE  UNCHANGED <<catalog, inflight, gen, clearing, bounds>>
  BY <1>3 DEF LookStep, LookLock, LookEnter, LookFails, LookFirst, LookBook, LookRow, LookFile,
              RemoveFile, DeleteRow
<1>4. ClearLock \/ ClearEnter \/ ClearFiles \/ ClearRows
      => UNCHANGED <<catalog, sharers, inflight, gen, look, bounds>>
  BY DEF ClearLock, ClearEnter, ClearFiles, ClearRows, Announce, lock
<1> QED
  BY <1>1, <1>2, <1>3, <1>4, GenStarts, GenSteps, LookSteps DEF Next

(* The catalog and its cascades. *)
LEMMA CatalogTyped ==
    ASSUME TypeInv, CoverAssumption, CatalogStep
    PROVE  /\ known' \in SUBSET Series
           /\ book' \in [Books -> [series : Series \cup {None}, version : Versions]]
           /\ row' \in [Series -> Cover] /\ \A s \in Series : row'[s] \in {row[s], NoPicture}
           /\ changes' \in 0..MaxChanges
<1>0. /\ changes \in Nat /\ MaxChanges \in Nat /\ row \in [Series -> Cover] /\ NoPicture \in Cover
      /\ book \in [Books -> [series : Series \cup {None}, version : Versions]] /\ known \in SUBSET Series
  BY NoPictureType DEF TypeInv, TypeOK, CoverAssumption
<1>1. changes' \in 0..MaxChanges /\ changes + 1 \in Versions
  <2>1. changes < MaxChanges /\ changes' = changes + 1
    BY DEF CatalogStep, ScanBook, DropBook, DropSeries, Change
  <2> QED
    BY <1>0, <2>1 DEF Versions
<1>2. ASSUME NEW gone, Cascade(gone)
      PROVE  row' \in [Series -> Cover] /\ \A s \in Series : row'[s] \in {row[s], NoPicture}
  BY <1>0, <1>2 DEF Cascade
<1>3. ASSUME NEW b \in Books, NEW s \in Series, NEW replaced \in BOOLEAN, ScanBook(b, s, replaced)
      PROVE  /\ known' \in SUBSET Series /\ UNCHANGED row
             /\ book' \in [Books -> [series : Series \cup {None}, version : Versions]]
  <2> DEFINE v == IF replaced THEN changes + 1 ELSE book[b].version
  <2>1. v \in Versions
    BY <1>0, <1>1
  <2>2. book' = [book EXCEPT ![b] = [series |-> s, version |-> v]]
    BY <1>3 DEF ScanBook
  <2> HIDE DEF v
  <2> QED
    BY <1>0, <1>3, <2>1, <2>2 DEF ScanBook, covers
<1>4. ASSUME NEW b \in Books, DropBook(b)
      PROVE  /\ UNCHANGED known
             /\ book' \in [Books -> [series : Series \cup {None}, version : Versions]]
  BY <1>0, <1>4 DEF DropBook
<1>5. ASSUME NEW s \in Series, DropSeries(s)
      PROVE  /\ known' \in SUBSET Series
             /\ book' \in [Books -> [series : Series \cup {None}, version : Versions]]
  <2>1. \A b \in Books : [book[b] EXCEPT !.series = None] \in [series : Series \cup {None}, version : Versions]
    BY <1>0
  <2> QED
    BY <1>0, <1>5, <2>1 DEF DropSeries
<1>6. ASSUME NEW b \in Books, DropBook(b)
      PROVE  row' \in [Series -> Cover] /\ \A s \in Series : row'[s] \in {row[s], NoPicture}
  BY <1>2, <1>6 DEF DropBook
<1>7. ASSUME NEW s \in Series, DropSeries(s)
      PROVE  row' \in [Series -> Cover] /\ \A q \in Series : row'[q] \in {row[q], NoPicture}
  BY <1>2, <1>7 DEF DropSeries
<1>8. ASSUME UNCHANGED row
      PROVE  row' \in [Series -> Cover] /\ \A s \in Series : row'[s] \in {row[s], NoPicture}
  BY <1>0, <1>8
<1> QED
  BY <1>0, <1>1, <1>3, <1>4, <1>5, <1>6, <1>7, <1>8 DEF CatalogStep

(* The steps of generations, looks and Clear on rows, files and the lock. *)
LEMMA CallsTyped ==
    ASSUME TypeInv, CoverAssumption, Next, ~CatalogStep, ~Restart
    PROVE  /\ row' \in [Series -> Cover] /\ file' \in [Series -> Cover] /\ torn' \subseteq Series
           /\ owner' \in Gens \cup Looks \cup {Clearer, None} /\ sharers' \in SUBSET Looks
           /\ inflight' \in SUBSET Series /\ clearing' \in {"idle", "wait", "files", "rows"}
<1> DEFINE Goal == /\ row' \in [Series -> Cover] /\ file' \in [Series -> Cover] /\ torn' \subseteq Series
                   /\ owner' \in Gens \cup Looks \cup {Clearer, None} /\ sharers' \in SUBSET Looks
                   /\ inflight' \in SUBSET Series /\ clearing' \in {"idle", "wait", "files", "rows"}
<1>0. /\ row \in [Series -> Cover] /\ file \in [Series -> Cover] /\ torn \subseteq Series /\ NoPicture \in Cover
      /\ owner \in Gens \cup Looks \cup {Clearer, None} /\ sharers \in SUBSET Looks
      /\ inflight \in SUBSET Series /\ clearing \in {"idle", "wait", "files", "rows"}
  BY NoPictureType DEF TypeInv, TypeOK
<1>1. ASSUME NEW g \in Gens, GenStart(g) \/ GenLock(g) \/ GenStep(g)
      PROVE  Goal
  <2>1. /\ gen[g] \in GenState
        /\ gen[g].pc # "idle" => gen[g].series \in Series
        /\ gen[g].pc \in {"jobBook", "book", "row", "file", "insert"} => gen[g].first \in Picture
    BY DEF TypeInv, TypeOK, AtWork
  <2>2. CASE GenStart(g)
    BY <1>0, <2>2 DEF GenStart, ReadPage, StartJob, covers, lock
  <2>3. CASE GenLock(g)
    BY <1>0, <2>3 DEF GenLock, Announce, covers
  <2>4. CASE Claim(g)
    BY <1>0, <2>1, <2>4 DEF Claim, covers, lock
  <2>5. CASE JobFirst(g) \/ JobBook(g) \/ GenEnter(g) \/ GenFirst(g)
    BY <1>0, <2>5 DEF JobFirst, JobBook, GenEnter, GenFirst, covers, lock
  <2>6. GenReturn(g) => owner' = None /\ sharers' = sharers /\ inflight' \in SUBSET Series
    BY <1>0 DEF GenReturn
  <2>7. CASE GenFails(g) \/ GenBook(g) \/ GenRow(g)
    BY <1>0, <2>6, <2>7 DEF GenFails, GenBook, GenRow, covers, lock
  <2>8. CASE GenFile(g)
    <3>1. gen[g].page \in Cover /\ gen[g].series \in Series
      BY <2>1, <2>8 DEF GenFile, GenState
    <3> QED
      BY <1>0, <2>8, <3>1 DEF GenFile, lock
  <2>9. CASE GenInsert(g)
    <3>1. gen[g].first \in Cover /\ gen[g].series \in Series
      BY <2>1, <2>9 DEF GenInsert, GenState
    <3> QED
      BY <1>0, <2>6, <2>9, <3>1 DEF GenInsert
  <2> QED
    BY <1>1, <2>2, <2>3, <2>4, <2>5, <2>7, <2>8, <2>9 DEF GenStep
<1>2. ASSUME NEW k \in Looks, LookStep(k) \/ \E s \in Series, shared \in BOOLEAN : LookLock(k, s, shared)
      PROVE  Goal
  <2>1. look[k].pc # "idle" => look[k].series \in Series
    BY DEF TypeInv, AtWork
  <2>2. LookReturn(k) => owner' \in Gens \cup Looks \cup {Clearer, None} /\ sharers' \in SUBSET Looks
    BY <1>0 DEF LookReturn
  <2>3. CASE LookEnter(k) \/ LookFirst(k) \/ LookBook(k) \/ LookRow(k)
    BY <1>0, <2>3 DEF LookEnter, LookFirst, LookBook, LookRow, covers, lock
  <2>4. CASE LookFails(k) \/ LookFile(k)
    BY <1>0, <2>2, <2>4 DEF LookFails, LookFile, LookGoto, covers, lock
  <2>5. CASE RemoveFile(k) \/ DeleteRow(k)
    BY <1>0, <2>1, <2>2, <2>5 DEF RemoveFile, DeleteRow, LookGoto, lock
  <2>6. ASSUME NEW s \in Series, NEW shared \in BOOLEAN, LookLock(k, s, shared)
        PROVE  Goal
    BY <1>0, <2>6 DEF LookLock, Announce, covers
  <2> QED
    BY <1>2, <2>3, <2>4, <2>5, <2>6 DEF LookStep
<1>3. ASSUME ClearLock \/ ClearEnter \/ ClearFiles \/ ClearRows
      PROVE  Goal
  <2>1. CASE ClearLock \/ ClearEnter
    BY <1>0, <2>1 DEF ClearLock, ClearEnter, Announce, covers, lock
  <2>2. CASE ClearFiles
    BY <1>0, <2>2 DEF ClearFiles, lock
  <2>3. CASE ClearRows
    <3>1. row' \in [Series -> Cover]
      BY <1>0, <2>3 DEF ClearRows
    <3> QED
      BY <1>0, <2>3, <3>1 DEF ClearRows
  <2> QED
    BY <1>3, <2>1, <2>2, <2>3
<1> HIDE DEF Goal
<1>4. Goal
  BY <1>1, <1>2, <1>3 DEF Next
<1> QED
  BY <1>4 DEF Goal

LEMMA TypeStep ==
    ASSUME TypeInv, CoverAssumption, [Next]_vars
    PROVE  TypeInv'
<1>1. CASE UNCHANGED vars
  BY <1>1 DEF vars, catalog, covers, lock, bounds, TypeInv, TypeOK, AtWork
<1>2. CASE CatalogStep
  <2>1. UNCHANGED <<file, torn, lock, inflight, gen, look, clearing, restarts>>
    BY <1>2 DEF CatalogStep, ScanBook, DropBook, DropSeries, Change, covers
  <2> QED
    BY <1>2, <2>1, CatalogTyped DEF TypeInv, TypeOK, AtWork, lock
<1>3. CASE Restart
  <2>1. /\ gen' = [g \in Gens |-> IdleGen] /\ look' = [k \in Looks |-> IdleLook]
        /\ file' \in [Series -> Cover] /\ restarts' \in 0..MaxRestarts
        /\ sharers' = {} /\ owner' = None /\ inflight' = {} /\ clearing' = "idle"
        /\ UNCHANGED <<catalog, row, changes>>
    BY <1>3, NoPictureType DEF Restart, TypeInv, TypeOK, CoverAssumption
  <2>2. torn' \subseteq Series
    <3>1. torn \subseteq Series /\ \A g \in Gens : gen[g].pc = "insert" => gen[g].series \in Series
      BY DEF TypeInv, TypeOK, AtWork
    <3> QED
      BY <1>3, <3>1 DEF Restart
  <2> QED
    BY <2>1, <2>2, IdleTypes DEF TypeInv, TypeOK, AtWork, catalog
<1>4. CASE Next /\ ~CatalogStep /\ ~Restart
  <2>1. /\ gen' \in [Gens -> GenState] /\ look' \in [Looks -> LookState] /\ AtWork'
        /\ UNCHANGED <<catalog, bounds>>
    <3>1. ASSUME NEW g \in Gens, NEW t, GenNext(g, t), UNCHANGED look
          PROVE  gen' \in [Gens -> GenState] /\ look' \in [Looks -> LookState] /\ AtWork'
      BY <3>1, GenUpdate DEF GenNext, TypeInv, TypeOK
    <3>2. ASSUME NEW k \in Looks, NEW t, LookNext(k, t), UNCHANGED gen
          PROVE  gen' \in [Gens -> GenState] /\ look' \in [Looks -> LookState] /\ AtWork'
      BY <3>2, LookUpdate DEF LookNext, TypeInv, TypeOK
    <3>3. UNCHANGED <<gen, look>> => gen' \in [Gens -> GenState] /\ look' \in [Looks -> LookState] /\ AtWork'
      BY DEF TypeInv, TypeOK, AtWork
    <3> QED
      BY <1>4, <3>1, <3>2, <3>3, StepKinds
  <2> QED
    BY <1>4, <2>1, CallsTyped DEF TypeInv, TypeOK, catalog, bounds
<1> QED
  BY <1>1, <1>2, <1>3, <1>4

LEMMA InitType ==
    ASSUME CoverAssumption, Init
    PROVE  TypeInv
<1>1. \A b \in Books : book[b].series \in Series /\ book[b].version \in Versions
  BY DEF Init, Versions, CoverAssumption
<1>2. book \in [Books -> [series : Series \cup {None}, version : Versions]]
  <2>1. [series : Series, version : {0}] \subseteq [series : Series \cup {None}, version : Versions]
    BY DEF Versions, CoverAssumption
  <2> QED
    BY <2>1 DEF Init
<1>3. row \in [Series -> Cover] /\ file \in [Series -> Cover]
  <2>1. {NoPicture} \cup [book : Books, version : {0}] \subseteq Cover
    BY DEF Cover, Picture, Versions, CoverAssumption
  <2>2. row \in [Series -> {NoPicture} \cup [book : Books, version : {0}]] /\ file = row
    BY DEF Init
  <2> QED
    BY <2>1, <2>2
<1> QED
  BY <1>2, <1>3, IdleTypes DEF Init, TypeInv, TypeOK, AtWork, CoverAssumption

(* Every variable keeps its type, and who is at work has a series and the  *)
(* book it looked up.                                                      *)
THEOREM TypeCorrect == Spec => [](TypeOK /\ AtWork)
<1>1. Init => TypeInv
  BY InitType, CoverAssumption
<1>2. TypeInv /\ [Next]_vars => TypeInv'
  BY TypeStep, CoverAssumption
<1>3. TypeInv => TypeOK /\ AtWork
  BY DEF TypeInv
<1> QED
  BY <1>1, <1>2, <1>3, PTL DEF Spec

-----------------------------------------------------------------------------
(* operationMu.                                                            *)

Inside == {"first", "book", "row", "file", "insert"}

(* What a step of one call does to the others. *)
OthersKeep(f, c) == \A d \in DOMAIN f : d # c => f'[d] = f[d]

(* How the steps of a generation move it and the lock. *)
GenMoves(g) ==
    \/ /\ UNCHANGED lock
       /\ gen'[g].pc \in Holding <=> gen[g].pc \in Holding
       /\ gen'[g].pc \in Inside => gen[g].pc \in Inside \/ sharers = {}
    \/ gen[g].pc \notin Holding /\ gen'[g].pc = "wait" /\ Announce(g)
    \/ gen[g].pc \in Inside /\ gen'[g] = IdleGen /\ owner' = None /\ UNCHANGED sharers

LEMMA GenMovesLock ==
    ASSUME TypeInv, CoverAssumption, NEW g \in Gens, GenStart(g) \/ GenLock(g) \/ GenStep(g)
    PROVE  GenMoves(g) /\ OthersKeep(gen, g)
<1>0. gen[g] \in GenState /\ gen \in [Gens -> GenState] /\ DOMAIN gen = Gens
  BY DEF TypeInv, TypeOK
<1>1. OthersKeep(gen, g)
  <2>1. \E t : gen' = [gen EXCEPT ![g] = t]
    BY GenStarts, GenSteps DEF GenNext
  <2> QED
    BY <1>0, <2>1 DEF OthersKeep
<1>2. ASSUME gen' = [gen EXCEPT ![g] = IdleGen]
      PROVE  gen'[g] = IdleGen /\ gen'[g].pc = "idle"
  BY <1>0, <1>2, IdleTypes
<1>3. GenReturn(g) /\ gen[g].pc \in Inside => GenMoves(g)
  BY <1>0, <1>2 DEF GenMoves, GenReturn
<1>4. ASSUME GenStart(g)
      PROVE  GenMoves(g)
  BY <1>0, <1>4 DEF GenStart, ReadPage, StartJob, GenAt, GenMoves, Holding, Inside
<1>5. ASSUME GenLock(g)
      PROVE  GenMoves(g)
  <2>1. gen'[g].pc = "wait" /\ gen[g].pc = "lock"
    BY <1>0, <1>5 DEF GenLock, GenState
  <2> QED
    BY <1>5, <2>1 DEF GenLock, GenMoves, Holding
<1>6. ASSUME Claim(g)
      PROVE  GenMoves(g)
  <2>1. gen'[g].pc \in {"idle", "lock"} /\ gen[g].pc = "claim"
    <3>1. CASE gen' = [gen EXCEPT ![g] = IdleGen]
      BY <1>2, <1>6, <3>1 DEF Claim
    <3>2. CASE gen' = [gen EXCEPT ![g] = [@ EXCEPT !.pc = "lock", !.claimed = TRUE]]
      BY <1>0, <1>6, <3>2 DEF Claim, GenState
    <3> QED
      BY <1>6, <3>1, <3>2 DEF Claim
  <2> QED
    BY <1>6, <2>1 DEF Claim, GenMoves, Holding, Inside
<1>7. ASSUME JobFirst(g)
      PROVE  GenMoves(g)
  <2>1. gen'[g].pc \in {"idle", "jobBook"} /\ gen[g].pc = "jobFirst"
    <3>1. CASE gen' = [gen EXCEPT ![g] = IdleGen]
      BY <1>2, <1>7, <3>1 DEF JobFirst
    <3>2. ASSUME NEW p, gen' = [gen EXCEPT ![g] = [@ EXCEPT !.pc = "jobBook", !.first = p]]
          PROVE  gen'[g].pc = "jobBook" /\ gen[g].pc = "jobFirst"
      BY <1>0, <1>7, <3>2 DEF JobFirst, GenState
    <3> QED
      BY <1>7, <3>1, <3>2 DEF JobFirst
  <2> QED
    BY <1>7, <2>1 DEF JobFirst, GenMoves, Holding, Inside
<1>8. ASSUME JobBook(g)
      PROVE  GenMoves(g)
  <2>1. gen'[g].pc \in {"idle", "lock"} /\ gen[g].pc = "jobBook"
    BY <1>0, <1>2, <1>8 DEF JobBook, GenAt
  <2> QED
    BY <1>8, <2>1 DEF JobBook, GenMoves, Holding, Inside
<1>9. ASSUME GenEnter(g)
      PROVE  GenMoves(g)
  <2>1. gen'[g].pc = "first" /\ gen[g].pc = "wait" /\ sharers = {}
    BY <1>0, <1>9 DEF GenEnter, Drained, GenState
  <2> QED
    BY <1>9, <2>1 DEF GenEnter, GenMoves, Holding, Inside
<1>10. ASSUME GenFails(g)
       PROVE  GenMoves(g)
  BY <1>3, <1>10 DEF GenFails, Inside
<1>11. ASSUME GenFirst(g)
       PROVE  GenMoves(g)
  <2>1. gen'[g].pc = "book" /\ gen[g].pc = "first"
    BY <1>0, <1>11 DEF GenFirst, GenState
  <2> QED
    BY <1>11, <2>1 DEF GenFirst, GenMoves, Holding, Inside
<1>12. ASSUME GenBook(g)
       PROVE  GenMoves(g)
  <2> DEFINE p == BookByID(gen[g].first.book)
  <2>1. CASE gen' = [gen EXCEPT ![g] = [@ EXCEPT !.pc = "row", !.first = p]] /\ UNCHANGED lock
    <3> HIDE DEF p
    <3>1. gen'[g].pc = "row" /\ gen[g].pc = "book"
      BY <1>0, <1>12, <2>1 DEF GenBook, GenState
    <3> QED
      BY <2>1, <3>1 DEF GenMoves, Holding, Inside
  <2> QED
    BY <1>3, <1>12, <2>1 DEF GenBook, Inside
<1>13. ASSUME GenRow(g)
       PROVE  GenMoves(g)
  <2>1. CASE gen' = [gen EXCEPT ![g].pc = "file"] /\ UNCHANGED lock
    <3>1. gen'[g].pc = "file" /\ gen[g].pc = "row"
      BY <1>0, <1>13, <2>1 DEF GenRow, GenState
    <3> QED
      BY <2>1, <3>1 DEF GenMoves, Holding, Inside
  <2> QED
    BY <1>3, <1>13, <2>1 DEF GenRow, Inside
<1>14. ASSUME GenFile(g)
       PROVE  GenMoves(g)
  <2>1. gen'[g].pc = "insert" /\ gen[g].pc = "file"
    BY <1>0, <1>14 DEF GenFile, GenState
  <2> QED
    BY <1>14, <2>1 DEF GenFile, GenMoves, Holding, Inside
<1>15. ASSUME GenInsert(g)
       PROVE  GenMoves(g)
  BY <1>3, <1>15 DEF GenInsert, Inside
<1> QED
  BY <1>1, <1>4, <1>5, <1>6, <1>7, <1>8, <1>9, <1>10, <1>11, <1>12, <1>13, <1>14, <1>15 DEF GenStep

(* How the steps of a look move it and the lock. *)
LookMoves(k) ==
    \/ /\ UNCHANGED lock /\ look[k].pc # "idle" /\ look'[k].pc \notin {"idle", "wait"}
       /\ look[k].pc = "wait" => sharers = {}
    \/ look[k].pc \notin {"idle", "wait"} /\ LookReturn(k) /\ look'[k].pc = "idle"
    \/ look[k].pc = "idle" /\ look'[k].pc = "wait" /\ Announce(k)
    \/ /\ look[k].pc = "idle" /\ look'[k].pc = "first" /\ owner = None
       /\ sharers' = sharers \cup {k} /\ UNCHANGED owner

LEMMA LookMovesLock ==
    ASSUME TypeInv, CoverAssumption, NEW k \in Looks,
           LookStep(k) \/ \E s \in Series, shared \in BOOLEAN : LookLock(k, s, shared)
    PROVE  LookMoves(k) /\ OthersKeep(look, k)
<1>0. look[k] \in LookState /\ look \in [Looks -> LookState] /\ DOMAIN look = Looks
  BY DEF TypeInv, TypeOK
<1>1. OthersKeep(look, k)
  <2>1. \E t : look' = [look EXCEPT ![k] = t]
    BY LookSteps DEF LookNext
  <2> QED
    BY <1>0, <2>1 DEF OthersKeep
<1>2. LookReturn(k) => look'[k].pc = "idle"
  BY <1>0, IdleTypes DEF LookReturn
<1>3. ASSUME NEW l \in {"first", "removeFile", "deleteRow"}, look' = [look EXCEPT ![k].pc = l]
      PROVE  look'[k].pc = l
  BY <1>0, <1>3 DEF LookState
<1>4. ASSUME LookEnter(k) \/ RemoveFile(k)
      PROVE  LookMoves(k)
  BY <1>3, <1>4 DEF LookEnter, RemoveFile, LookGoto, Drained, LookMoves
<1>5. ASSUME LookFails(k) \/ DeleteRow(k)
      PROVE  LookMoves(k)
  BY <1>2, <1>5 DEF LookFails, DeleteRow, LookMoves
<1>6. ASSUME LookFile(k)
      PROVE  LookMoves(k)
  BY <1>2, <1>3, <1>6 DEF LookFile, LookGoto, LookMoves
<1>7. ASSUME LookFirst(k)
      PROVE  LookMoves(k)
  <2>1. look'[k].pc = "book" /\ look[k].pc = "first"
    BY <1>0, <1>7 DEF LookFirst, LookState
  <2> QED
    BY <1>7, <2>1 DEF LookFirst, LookMoves
<1>8. ASSUME LookBook(k)
      PROVE  LookMoves(k)
  <2>1. look'[k].pc = "row" /\ look[k].pc = "book"
    BY <1>0, <1>8 DEF LookBook, LookState
  <2> QED
    BY <1>8, <2>1 DEF LookBook, LookMoves
<1>9. ASSUME LookRow(k)
      PROVE  LookMoves(k)
  <2>1. look'[k].pc \in {"file", "removeFile"} /\ look[k].pc = "row"
    BY <1>0, <1>9 DEF LookRow, LookState
  <2> QED
    BY <1>9, <2>1 DEF LookRow, LookMoves
<1>10. ASSUME NEW s \in Series, NEW shared \in BOOLEAN, LookLock(k, s, shared)
       PROVE  LookMoves(k)
  <2>1. look'[k].pc = (IF shared THEN "first" ELSE "wait") /\ look[k].pc = "idle"
    BY <1>0, <1>10 DEF LookLock, Entered, LookAt
  <2> QED
    BY <1>10, <2>1 DEF LookLock, LookMoves
<1> QED
  BY <1>1, <1>4, <1>5, <1>6, <1>7, <1>8, <1>9, <1>10 DEF LookStep

LEMMA LockGen ==
    ASSUME TypeInv, CoverAssumption, LockAgrees, NEW g \in Gens, GenMoves(g), OthersKeep(gen, g),
           UNCHANGED <<look, clearing>>
    PROVE  LockAgrees'
<1>0. \A h \in Gens : h # g => gen'[h] = gen[h]
  BY DEF OthersKeep, TypeInv, TypeOK
<1>1. g # None /\ g # Clearer /\ g \notin Looks /\ None \notin Looks \cup Gens /\ None # Clearer
  BY DEF CoverAssumption
<1>2. \A h \in Gens : (gen[h].pc \in Holding <=> owner = h) /\ (gen[h].pc \in Inside => sharers = {})
  BY DEF LockAgrees, Holding, Inside
<1>3. Inside \subseteq Holding /\ "idle" \notin Holding /\ "wait" \in Holding /\ "wait" \notin Inside
  BY DEF Inside, Holding
<1>4. CASE UNCHANGED lock /\ (gen'[g].pc \in Holding <=> gen[g].pc \in Holding)
           /\ (gen'[g].pc \in Inside => gen[g].pc \in Inside \/ sharers = {})
  <2>1. \A h \in Gens : (gen'[h].pc \in Holding <=> owner' = h) /\ (gen'[h].pc \in Inside => sharers' = {})
    BY <1>0, <1>2, <1>4 DEF lock
  <2> QED
    BY <1>4, <2>1 DEF LockAgrees, Holding, Inside, lock
<1>5. CASE gen[g].pc \notin Holding /\ gen'[g].pc = "wait" /\ Announce(g)
  <2>1. owner = None /\ owner' = g /\ sharers' = sharers
    BY <1>5 DEF Announce
  <2>2. \A h \in Gens : (gen'[h].pc \in Holding <=> owner' = h) /\ (gen'[h].pc \in Inside => sharers' = {})
    BY <1>0, <1>1, <1>2, <1>3, <1>5, <2>1
  <2> QED
    BY <1>1, <2>1, <2>2 DEF LockAgrees, Holding, Inside
<1>6. CASE gen[g].pc \in Inside /\ gen'[g] = IdleGen /\ owner' = None /\ UNCHANGED sharers
  <2>1. owner = g
    BY <1>2, <1>3, <1>6
  <2>2. \A h \in Gens : (gen'[h].pc \in Holding <=> owner' = h) /\ (gen'[h].pc \in Inside => sharers' = {})
    BY <1>0, <1>1, <1>2, <1>3, <1>6, <2>1, IdleTypes
  <2> QED
    BY <1>1, <1>6, <2>1, <2>2 DEF LockAgrees, Holding, Inside
<1> QED
  BY <1>4, <1>5, <1>6 DEF GenMoves

LEMMA LockLook ==
    ASSUME TypeInv, CoverAssumption, LockAgrees, NEW k \in Looks, LookMoves(k), OthersKeep(look, k),
           UNCHANGED <<gen, clearing>>
    PROVE  LockAgrees'
<1> DEFINE Agrees(o, sh, pc, h) ==
        /\ pc # "idle" <=> (o = h \/ h \in sh)
        /\ o = h /\ pc # "wait" => sh = {}
        /\ h \in sh => pc # "wait"
<1>0. \A h \in Looks : h # k => look'[h] = look[h]
  BY DEF OthersKeep, TypeInv, TypeOK
<1>1. k # None /\ k # Clearer /\ k \notin Gens /\ None \notin Looks \cup Gens /\ None # Clearer
  BY DEF CoverAssumption
<1>2. \A h \in Looks : Agrees(owner, sharers, look[h].pc, h)
  BY DEF LockAgrees
<1>3. sharers \in SUBSET Looks
  BY DEF TypeInv, TypeOK
<1>4. /\ \A h \in Looks : Agrees(owner', sharers', look'[h].pc, h)
      /\ sharers' \in SUBSET Looks
      /\ \A g \in Gens : owner' = g <=> owner = g
      /\ owner' = Clearer <=> owner = Clearer
      /\ sharers' = {} \/ sharers = sharers' \/ sharers # {} \/ owner = None
  <2>1. CASE /\ UNCHANGED lock /\ look[k].pc # "idle" /\ look'[k].pc \notin {"idle", "wait"}
             /\ (look[k].pc = "wait" => sharers = {})
    <3>1. owner' = owner /\ sharers' = sharers
      BY <2>1 DEF lock
    <3>2. Agrees(owner', sharers', look'[k].pc, k)
      BY <1>2, <2>1, <3>1
    <3> QED
      BY <1>0, <1>2, <1>3, <3>1, <3>2
  <2>2. CASE look[k].pc \notin {"idle", "wait"} /\ LookReturn(k) /\ look'[k].pc = "idle"
    <3>1. CASE owner = k
      <4>1. owner' = None /\ sharers = {} /\ sharers' = {}
        BY <1>2, <2>2, <3>1 DEF LookReturn
      <4>2. \A h \in Looks : h # k => look'[h].pc = "idle"
        BY <1>0, <1>2, <3>1, <4>1
      <4>3. \A h \in Looks : look'[h].pc = "idle"
        BY <2>2, <4>2
      <4> QED
        BY <1>1, <3>1, <4>1, <4>3
    <3>2. CASE owner # k
      <4>1. owner' = owner /\ sharers' = sharers \ {k} /\ k \in sharers
        BY <1>2, <2>2, <3>2 DEF LookReturn
      <4>2. Agrees(owner', sharers', look'[k].pc, k)
        BY <2>2, <3>2, <4>1
      <4>3. \A h \in Looks : h # k => Agrees(owner', sharers', look'[h].pc, h)
        BY <1>0, <1>2, <4>1
      <4> QED
        BY <1>3, <4>1, <4>2, <4>3
    <3> QED
      BY <3>1, <3>2
  <2>3. CASE look[k].pc = "idle" /\ look'[k].pc = "wait" /\ Announce(k)
    <3>1. owner = None /\ owner' = k /\ sharers' = sharers /\ k \notin sharers
      BY <1>2, <2>3 DEF Announce
    <3>2. Agrees(owner', sharers', look'[k].pc, k)
      BY <2>3, <3>1
    <3>3. \A h \in Looks : h # k => Agrees(owner', sharers', look'[h].pc, h)
      BY <1>0, <1>1, <1>2, <3>1
    <3> QED
      BY <1>1, <1>3, <3>1, <3>2, <3>3
  <2>4. CASE /\ look[k].pc = "idle" /\ look'[k].pc = "first" /\ owner = None
             /\ sharers' = sharers \cup {k} /\ UNCHANGED owner
    <3>1. Agrees(owner', sharers', look'[k].pc, k)
      BY <1>1, <2>4
    <3>2. \A h \in Looks : h # k => Agrees(owner', sharers', look'[h].pc, h)
      BY <1>0, <1>1, <1>2, <2>4
    <3> QED
      BY <1>3, <2>4, <3>1, <3>2
  <2> QED
    BY <2>1, <2>2, <2>3, <2>4 DEF LookMoves
<1>5. \A g \in Gens : gen[g].pc \in Inside => owner = g /\ sharers = {}
  BY DEF LockAgrees, Inside
<1>6. clearing \in {"files", "rows"} => owner = Clearer /\ sharers = {}
  BY DEF LockAgrees
<1>7. owner # None /\ sharers = {} => sharers' = {}
  BY <1>4
<1> QED
  BY <1>1, <1>4, <1>5, <1>6, <1>7 DEF LockAgrees, Inside

LEMMA LockClear ==
    ASSUME TypeInv, CoverAssumption, LockAgrees, ClearLock \/ ClearEnter \/ ClearFiles \/ ClearRows,
           UNCHANGED <<gen, look, sharers>>
    PROVE  LockAgrees'
<1>1. Clearer # None /\ Clearer \notin Gens \cup Looks /\ None \notin Gens \cup Looks
  BY DEF CoverAssumption
<1>2. CASE ClearLock
  BY <1>1, <1>2 DEF ClearLock, Announce, LockAgrees
<1>3. CASE ClearEnter
  BY <1>3 DEF ClearEnter, Drained, LockAgrees, lock
<1>4. CASE ClearFiles
  BY <1>1, <1>4 DEF ClearFiles, LockAgrees, lock
<1>5. CASE ClearRows
  BY <1>1, <1>5 DEF ClearRows, LockAgrees
<1> QED
  BY <1>2, <1>3, <1>4, <1>5

LEMMA LockStep ==
    ASSUME TypeInv, CoverAssumption, LockAgrees, [Next]_vars
    PROVE  LockAgrees'
<1>1. UNCHANGED <<lock, gen, look, clearing>> => LockAgrees'
  BY DEF LockAgrees, lock
<1>2. UNCHANGED vars => LockAgrees'
  BY <1>1 DEF vars
<1>3. Restart => LockAgrees'
  <2> SUFFICES ASSUME Restart PROVE LockAgrees'
    OBVIOUS
  <2>1. /\ \A g \in Gens : gen'[g] = IdleGen
        /\ \A k \in Looks : look'[k] = IdleLook
        /\ owner' = None /\ sharers' = {} /\ clearing' = "idle"
    BY DEF Restart
  <2>2. None \notin Gens \cup Looks \cup {Clearer}
    BY DEF CoverAssumption
  <2> QED
    BY <2>1, <2>2, IdleTypes DEF LockAgrees
<1> QED
  BY <1>1, <1>2, <1>3, StepKinds, GenMovesLock, LookMovesLock, LockGen, LockLook, LockClear

(* The lock for any number of generations and looks: one writer, or some   *)
(* readers, and each call holds what its position says.                    *)
THEOREM LockHeld == Spec => []LockAgrees
<1>1. Init => TypeInv /\ LockAgrees
  <2> SUFFICES ASSUME Init PROVE LockAgrees
    BY InitType, CoverAssumption
  <2>1. None \notin Gens \cup Looks \cup {Clearer}
    BY CoverAssumption DEF CoverAssumption
  <2> QED
    BY <2>1, IdleTypes DEF Init, LockAgrees
<1>2. TypeInv /\ LockAgrees /\ [Next]_vars => TypeInv' /\ LockAgrees'
  BY TypeStep, LockStep, CoverAssumption
<1> QED
  BY <1>1, <1>2, PTL DEF Spec

-----------------------------------------------------------------------------
(* What looks judge and serve.                                             *)

Judging == {"file", "removeFile", "deleteRow"}

(* A generation past its look at the first book has the page of the book   *)
(* it will name; at its INSERT the file shows that page; and a row has the *)
(* file of its book, or none, unless a generation is at its INSERT or the  *)
(* last one died there.                                                    *)
PageIsFirst == \A g \in Gens : gen[g].pc \in {"row", "file", "insert"} => gen[g].page.book = gen[g].first.book
FileIsPage  == \A g \in Gens : gen[g].pc = "insert" => file[gen[g].series] = gen[g].page
FileOfRow(s) ==
    row[s] # NoPicture /\ (\A g \in Gens : gen[g].pc = "insert" => gen[g].series # s)
    => file[s] = NoPicture \/ file[s].book = row[s].book
FilesPair == PageIsFirst /\ FileIsPage /\ \A s \in Series \ torn : FileOfRow(s)

CoverInv == TypeInv /\ LockAgrees /\ JudgedRowUnchanged /\ FilesPair /\ ServesItsBook

(* A generation past the lock is alone. *)
LEMMA Alone ==
    ASSUME CoverInv, CoverAssumption, NEW g \in Gens, gen[g].pc \in Inside
    PROVE  /\ \A k \in Looks : look[k].pc = "idle"
           /\ \A h \in Gens : h # g => gen[h].pc \notin Inside
           /\ clearing = "idle"
<1>1. owner = g /\ sharers = {} /\ g # Clearer /\ g \notin Looks
  BY DEF CoverInv, LockAgrees, Inside, CoverAssumption
<1> QED
  BY <1>1 DEF CoverInv, LockAgrees, Inside

(* Rows and files that only disappear, while no generation is at its INSERT. *)
LEMMA LossKeeps ==
    ASSUME CoverInv, CoverAssumption, UNCHANGED <<gen, torn>>,
           \A s \in Series : row'[s] \in {row[s], NoPicture},
           \A s \in Series : file'[s] \in {file[s], NoPicture},
           UNCHANGED file \/ \A g \in Gens : gen[g].pc # "insert"
    PROVE  FilesPair'
<1>0. \A g \in Gens : gen[g].pc # "idle" => gen[g].series \in Series
  BY DEF CoverInv, TypeInv, AtWork
<1>1. PageIsFirst' /\ FileIsPage'
  BY <1>0 DEF CoverInv, FilesPair, PageIsFirst, FileIsPage
<1>2. ASSUME NEW s \in Series \ torn
      PROVE  FileOfRow(s)'
  BY <1>2 DEF CoverInv, FilesPair, FileOfRow
<1> QED
  BY <1>1, <1>2 DEF FilesPair

(* The same, with looks that stay where they are. *)
LEMMA LossSeen ==
    ASSUME CoverInv, UNCHANGED <<look, torn>>,
           \A s \in Series : row'[s] \in {row[s], NoPicture},
           \A s \in Series : file'[s] \in {file[s], NoPicture}
    PROVE  JudgedRowUnchanged' /\ ServesItsBook'
<1>1. \A k \in Looks : look[k].pc # "idle" => look[k].series \in Series
  BY DEF CoverInv, TypeInv, AtWork
<1>2. JudgedRowUnchanged'
  BY <1>1 DEF CoverInv, JudgedRowUnchanged
<1>3. ServesItsBook'
  BY <1>1 DEF CoverInv, ServesItsBook
<1> QED
  BY <1>2, <1>3

-----------------------------------------------------------------------------
(* Generations.                                                            *)

(* A generation that neither writes nor comes to its row. *)
LEMMA GenAside ==
    ASSUME CoverInv, CoverAssumption, NEW g \in Gens, OthersKeep(gen, g), UNCHANGED covers,
           gen[g].pc # "insert", gen'[g].pc # "insert",
           gen'[g].pc \in {"row", "file"} => gen'[g].page.book = gen'[g].first.book
    PROVE  FilesPair'
<1>0. \A h \in Gens : h # g => gen'[h] = gen[h]
  BY DEF OthersKeep, CoverInv, TypeInv, TypeOK
<1>1. row' = row /\ file' = file /\ torn' = torn
  BY DEF covers
<1>2. PageIsFirst'
  BY <1>0 DEF CoverInv, FilesPair, PageIsFirst
<1>3. FileIsPage'
  BY <1>0, <1>1 DEF CoverInv, FilesPair, FileIsPage
<1>4. ASSUME NEW s \in Series \ torn
      PROVE  FileOfRow(s)'
  <2>1. (\A h \in Gens : gen'[h].pc = "insert" => gen'[h].series # s)
        => \A h \in Gens : gen[h].pc = "insert" => gen[h].series # s
    BY <1>0
  <2> QED
    BY <1>1, <1>4, <2>1 DEF CoverInv, FilesPair, FileOfRow
<1> QED
  BY <1>1, <1>2, <1>3, <1>4 DEF FilesPair

LEMMA GenFileKeeps ==
    ASSUME CoverInv, CoverAssumption, NEW g \in Gens, GenFile(g), OthersKeep(gen, g)
    PROVE  FilesPair' /\ JudgedRowUnchanged' /\ ServesItsBook'
<1> DEFINE q == gen[g].series
<1>0. \A h \in Gens : h # g => gen'[h] = gen[h]
  BY DEF OthersKeep, CoverInv, TypeInv, TypeOK
<1>1. gen[g].pc = "file" /\ gen[g] \in GenState /\ q \in Series
  BY DEF GenFile, CoverInv, TypeInv, TypeOK, AtWork
<1>2. /\ gen'[g].pc = "insert" /\ gen'[g].series = q
      /\ gen'[g].page = gen[g].page /\ gen'[g].first = gen[g].first
  BY <1>1 DEF GenFile, CoverInv, TypeInv, TypeOK, GenState
<1>3. /\ file'[q] = gen[g].page /\ \A s \in Series : s # q => file'[s] = file[s]
      /\ row' = row /\ look' = look /\ torn' = torn
  BY <1>1 DEF GenFile, CoverInv, TypeInv, TypeOK, bounds
<1>4. /\ \A k \in Looks : look[k].pc = "idle"
      /\ \A h \in Gens : h # g => gen[h].pc # "insert"
  BY <1>1, Alone DEF Inside
<1> HIDE DEF q
<1>5. JudgedRowUnchanged' /\ ServesItsBook'
  BY <1>3, <1>4 DEF JudgedRowUnchanged, ServesItsBook
<1>6. PageIsFirst'
  BY <1>0, <1>1, <1>2 DEF CoverInv, FilesPair, PageIsFirst
<1>7. FileIsPage'
  BY <1>0, <1>2, <1>3, <1>4 DEF FileIsPage
<1>8. ASSUME NEW s \in Series \ torn
      PROVE  FileOfRow(s)'
  <2>1. CASE s = q
    BY <1>2, <2>1 DEF FileOfRow
  <2>2. CASE s # q
    <3>1. \A h \in Gens : gen[h].pc # "insert"
      BY <1>1, <1>4
    <3> QED
      BY <1>3, <1>8, <2>2, <3>1 DEF CoverInv, FilesPair, FileOfRow
  <2> QED
    BY <2>1, <2>2
<1> QED
  BY <1>3, <1>5, <1>6, <1>7, <1>8 DEF FilesPair

LEMMA GenInsertKeeps ==
    ASSUME CoverInv, CoverAssumption, NEW g \in Gens, GenInsert(g), OthersKeep(gen, g)
    PROVE  FilesPair' /\ JudgedRowUnchanged' /\ ServesItsBook'
<1> DEFINE q == gen[g].series
<1>0. \A h \in Gens : h # g => gen'[h] = gen[h]
  BY DEF OthersKeep, CoverInv, TypeInv, TypeOK
<1>1. gen[g].pc = "insert" /\ q \in Series
  BY DEF GenInsert, CoverInv, TypeInv, TypeOK, AtWork
<1>2. gen'[g].pc = "idle" /\ look' = look /\ torn' = torn \ {q}
  BY IdleTypes DEF GenInsert, GenReturn, CoverInv, TypeInv, TypeOK, bounds
<1>3. /\ \A s \in Series : s # q => file'[s] = file[s] /\ row'[s] = row[s]
      /\ file'[q] = NoPicture \/ (file'[q] = file[q] /\ row'[q] = gen[g].first)
  BY <1>1 DEF GenInsert, CoverInv, TypeInv, TypeOK
<1>4. /\ \A k \in Looks : look[k].pc = "idle"
      /\ \A h \in Gens : h # g => gen[h].pc # "insert"
  BY <1>1, Alone DEF Inside
<1>5. file[q] = gen[g].page /\ gen[g].page.book = gen[g].first.book
  BY <1>1 DEF CoverInv, FilesPair, PageIsFirst, FileIsPage
<1> HIDE DEF q
<1>6. JudgedRowUnchanged' /\ ServesItsBook'
  BY <1>2, <1>4 DEF JudgedRowUnchanged, ServesItsBook
<1>7. PageIsFirst'
  BY <1>0, <1>2 DEF CoverInv, FilesPair, PageIsFirst
<1>8. FileIsPage'
  BY <1>0, <1>2, <1>4 DEF FileIsPage
<1>9. ASSUME NEW s \in Series \ torn'
      PROVE  FileOfRow(s)'
  <2>1. CASE s = q
    BY <1>3, <1>5, <1>9, <2>1 DEF FileOfRow
  <2>2. CASE s # q
    <3>1. \A h \in Gens : gen[h].pc = "insert" => gen[h].series # s
      BY <1>4, <2>2 DEF q
    <3>2. s \notin torn
      BY <1>2, <1>9, <2>2
    <3> QED
      BY <1>3, <1>9, <2>2, <3>1, <3>2 DEF CoverInv, FilesPair, FileOfRow
  <2> QED
    BY <2>1, <2>2
<1> QED
  BY <1>6, <1>7, <1>8, <1>9 DEF FilesPair

LEMMA GenKeeps ==
    ASSUME CoverInv, CoverAssumption, NEW g \in Gens, GenStart(g) \/ GenLock(g) \/ GenStep(g),
           UNCHANGED look
    PROVE  FilesPair' /\ JudgedRowUnchanged' /\ ServesItsBook'
<1>0. /\ gen[g] \in GenState /\ gen \in [Gens -> GenState] /\ OthersKeep(gen, g)
  BY GenMovesLock DEF CoverInv, TypeInv, TypeOK
<1>1. ASSUME UNCHANGED covers
      PROVE  JudgedRowUnchanged' /\ ServesItsBook'
  BY <1>1, LossSeen DEF covers
<1>2. ASSUME gen' = [gen EXCEPT ![g] = IdleGen]
      PROVE  gen'[g].pc = "idle"
  BY <1>0, <1>2, IdleTypes
<1>3. ASSUME GenStart(g) \/ GenLock(g) \/ GenEnter(g)
      PROVE  UNCHANGED covers /\ gen[g].pc # "insert" /\ gen'[g].pc \notin {"row", "file", "insert"}
  BY <1>0, <1>3 DEF GenStart, ReadPage, StartJob, GenAt, GenLock, GenEnter, GenState
<1>4. ASSUME Claim(g)
      PROVE  UNCHANGED covers /\ gen[g].pc # "insert" /\ gen'[g].pc \notin {"row", "file", "insert"}
  <2>1. CASE gen' = [gen EXCEPT ![g] = IdleGen]
    BY <1>2, <1>4, <2>1 DEF Claim
  <2>2. CASE gen' = [gen EXCEPT ![g] = [@ EXCEPT !.pc = "lock", !.claimed = TRUE]]
    <3>1. gen'[g].pc = "lock"
      BY <1>0, <2>2 DEF GenState
    <3> QED
      BY <1>4, <3>1 DEF Claim
  <2> QED
    BY <1>4, <2>1, <2>2 DEF Claim
<1>5. ASSUME JobFirst(g) \/ GenFirst(g)
      PROVE  UNCHANGED covers /\ gen[g].pc # "insert" /\ gen'[g].pc \notin {"row", "file", "insert"}
  <2>1. UNCHANGED covers /\ gen[g].pc # "insert"
    BY <1>5 DEF JobFirst, GenFirst
  <2>2. ASSUME NEW p, NEW l \in {"jobBook", "book"}, gen' = [gen EXCEPT ![g] = [@ EXCEPT !.pc = l, !.first = p]]
        PROVE  gen'[g].pc = l
    <3> DEFINE t == [gen[g] EXCEPT !.pc = l, !.first = p]
    <3>1. t.pc = l
      BY <1>0 DEF GenState
    <3>2. gen'[g] = t
      BY <1>0, <2>2, SMTT(30)
    <3> HIDE DEF t
    <3> QED
      BY <3>1, <3>2
  <2>3. JobFirst(g) => gen'[g].pc \in {"idle", "jobBook"}
    BY <1>2, <2>2 DEF JobFirst
  <2>4. GenFirst(g) => gen'[g].pc = "book"
    BY <2>2 DEF GenFirst
  <2> QED
    BY <1>5, <2>1, <2>3, <2>4
<1>6. ASSUME JobBook(g)
      PROVE  UNCHANGED covers /\ gen[g].pc # "insert" /\ gen'[g].pc \notin {"row", "file", "insert"}
  BY <1>0, <1>2, <1>6 DEF JobBook, GenAt
<1>7. ASSUME GenFails(g)
      PROVE  UNCHANGED covers /\ gen[g].pc # "insert" /\ gen'[g].pc \notin {"row", "file", "insert"}
  BY <1>2, <1>7 DEF GenFails, GenReturn
<1>8. ASSUME GenBook(g)
      PROVE  /\ UNCHANGED covers /\ gen[g].pc # "insert" /\ gen'[g].pc # "insert"
             /\ gen'[g].pc \in {"row", "file"} => gen'[g].page.book = gen'[g].first.book
  <2> DEFINE p == BookByID(gen[g].first.book)
  <2>1. UNCHANGED covers /\ gen[g].pc = "book"
    BY <1>8 DEF GenBook
  <2>2. CASE gen' = [gen EXCEPT ![g] = [@ EXCEPT !.pc = "row", !.first = p]] /\ p.book = gen[g].page.book
    <3> HIDE DEF p
    <3>1. gen'[g].pc = "row" /\ gen'[g].first = p /\ gen'[g].page = gen[g].page
      BY <1>0, <2>2 DEF GenState
    <3> QED
      BY <2>1, <2>2, <3>1
  <2>3. CASE gen' = [gen EXCEPT ![g] = IdleGen]
    BY <1>2, <2>1, <2>3
  <2> QED
    BY <1>8, <2>2, <2>3 DEF GenBook, GenReturn
<1>9. ASSUME GenRow(g)
      PROVE  /\ UNCHANGED covers /\ gen[g].pc # "insert" /\ gen'[g].pc # "insert"
             /\ gen'[g].pc \in {"row", "file"} => gen'[g].page.book = gen'[g].first.book
  <2>1. UNCHANGED covers /\ gen[g].pc = "row"
    BY <1>9 DEF GenRow
  <2>2. CASE gen' = [gen EXCEPT ![g].pc = "file"]
    <3>1. gen'[g].pc = "file" /\ gen'[g].first = gen[g].first /\ gen'[g].page = gen[g].page
      BY <1>0, <2>2 DEF GenState
    <3> QED
      BY <2>1, <3>1 DEF CoverInv, FilesPair, PageIsFirst
  <2>3. CASE gen' = [gen EXCEPT ![g] = IdleGen]
    BY <1>2, <2>1, <2>3
  <2> QED
    BY <1>9, <2>2, <2>3 DEF GenRow, GenReturn
<1>10. ASSUME UNCHANGED covers, gen[g].pc # "insert", gen'[g].pc # "insert",
              gen'[g].pc \in {"row", "file"} => gen'[g].page.book = gen'[g].first.book
       PROVE  FilesPair' /\ JudgedRowUnchanged' /\ ServesItsBook'
  BY <1>0, <1>1, <1>10, GenAside
<1>11. CASE GenStart(g) \/ GenLock(g) \/ GenEnter(g) \/ Claim(g) \/ JobFirst(g) \/ GenFirst(g) \/ JobBook(g)
            \/ GenFails(g)
  BY <1>3, <1>4, <1>5, <1>6, <1>7, <1>10, <1>11
<1>12. CASE GenBook(g) \/ GenRow(g)
  BY <1>8, <1>9, <1>10, <1>12
<1> QED
  BY <1>0, <1>11, <1>12, GenFileKeeps, GenInsertKeeps DEF GenStep

-----------------------------------------------------------------------------
(* Looks, Clear, the catalog and a new process.                            *)

(* What a look knows after its step: nothing new, or the row as it is. *)
LEMMA LookData ==
    ASSUME TypeInv, CoverAssumption, NEW k \in Looks,
           LookStep(k) \/ \E s \in Series, shared \in BOOLEAN : LookLock(k, s, shared),
           look'[k].pc \in Judging
    PROVE  \/ /\ look[k].pc \in Judging /\ look'[k].pc # "file"
              /\ look'[k].series = look[k].series /\ look'[k].item = look[k].item
           \/ /\ look[k].pc = "row" /\ UNCHANGED covers /\ look'[k].series = look[k].series
              /\ look'[k].item = row[look[k].series] /\ row[look[k].series] # NoPicture
              /\ look'[k].pc = "file" => look'[k].first = look'[k].item
<1>0. look[k] \in LookState /\ look \in [Looks -> LookState]
  BY DEF TypeInv, TypeOK
<1>1. LookReturn(k) => look'[k].pc = "idle"
  BY <1>0, IdleTypes DEF LookReturn
<1>2. ASSUME LookEnter(k)
      PROVE  look'[k].pc = "first"
  <2> DEFINE t == [look[k] EXCEPT !.pc = "first"]
  <2>1. t.pc = "first"
    BY <1>0 DEF LookState
  <2>2. look'[k] = t
    BY <1>0, <1>2, SMTT(30) DEF LookEnter
  <2> HIDE DEF t
  <2> QED
    BY <2>1, <2>2
<1>3. ASSUME LookFirst(k) \/ LookBook(k)
      PROVE  look'[k].pc \in {"book", "row"}
  <2>1. ASSUME NEW p, NEW l \in {"book", "row"}, look' = [look EXCEPT ![k] = [@ EXCEPT !.pc = l, !.first = p]]
        PROVE  look'[k].pc = l
    BY <1>0, <2>1 DEF LookState
  <2> QED
    BY <1>3, <2>1 DEF LookFirst, LookBook
<1>4. ASSUME NEW s \in Series, NEW shared \in BOOLEAN, LookLock(k, s, shared)
      PROVE  look'[k].pc \in {"first", "wait"}
  BY <1>0, <1>4 DEF LookLock, Entered, LookAt
<1>5. ASSUME NEW l \in {"removeFile", "deleteRow"}, LookGoto(k, l)
      PROVE  look'[k].pc = l /\ look'[k].series = look[k].series /\ look'[k].item = look[k].item
  BY <1>0, <1>5 DEF LookGoto, LookState
<1>6. LookFile(k) => LookReturn(k) \/ (look[k].pc = "file" /\ LookGoto(k, "removeFile"))
  BY DEF LookFile
<1>7. RemoveFile(k) => look[k].pc = "removeFile" /\ LookGoto(k, "deleteRow")
  BY DEF RemoveFile
<1>8. LookFails(k) \/ DeleteRow(k) => LookReturn(k)
  BY DEF LookFails, DeleteRow
<1>9. ASSUME LookRow(k)
      PROVE  /\ look[k].pc = "row" /\ UNCHANGED covers /\ look'[k].series = look[k].series
             /\ look'[k].item = row[look[k].series] /\ row[look[k].series] # NoPicture
             /\ look'[k].pc = "file" => look'[k].first = look'[k].item
  <2> DEFINE item == row[look[k].series]
             l == IF item = look[k].first THEN "file" ELSE "removeFile"
             t == [look[k] EXCEPT !.item = item, !.pc = l]
  <2>1. look' = [look EXCEPT ![k] = t] /\ look[k].pc = "row" /\ UNCHANGED covers /\ item # NoPicture
    BY <1>9 DEF LookRow
  <2>2. l = "file" => item = look[k].first
    OBVIOUS
  <2> HIDE DEF item, l
  <2>3. t.item = item /\ t.pc = l /\ t.series = look[k].series /\ t.first = look[k].first
    BY <1>0 DEF LookState
  <2>4. look'[k] = t
    BY <1>0, <2>1
  <2> HIDE DEF t
  <2> QED
    BY <2>1, <2>2, <2>3, <2>4 DEF item
<1> QED
  BY <1>1, <1>2, <1>3, <1>4, <1>5, <1>6, <1>7, <1>8, <1>9 DEF LookStep, Judging

(* What a look takes away. *)
LEMMA LookLoses ==
    ASSUME TypeInv, CoverAssumption, NEW k \in Looks,
           LookStep(k) \/ \E s \in Series, shared \in BOOLEAN : LookLock(k, s, shared)
    PROVE  /\ \A s \in Series : row'[s] \in {row[s], NoPicture}
           /\ \A s \in Series : file'[s] \in {file[s], NoPicture}
           /\ UNCHANGED file \/ look[k].pc # "idle"
          /\ UNCHANGED torn
<1>0. row \in [Series -> Cover] /\ file \in [Series -> Cover]
  BY DEF TypeInv, TypeOK
<1>1. UNCHANGED covers \/ RemoveFile(k) \/ DeleteRow(k)
  BY DEF LookStep, LookLock, LookEnter, LookFails, LookFirst, LookBook, LookRow, LookFile
<1>2. CASE UNCHANGED covers
  BY <1>2 DEF covers
<1>3. CASE RemoveFile(k)
  BY <1>0, <1>3 DEF RemoveFile
<1>4. CASE DeleteRow(k)
  BY <1>0, <1>4 DEF DeleteRow
<1> QED
  BY <1>1, <1>2, <1>3, <1>4

LEMMA LookKeeps ==
    ASSUME CoverInv, CoverAssumption, NEW k \in Looks,
           LookStep(k) \/ \E s \in Series, shared \in BOOLEAN : LookLock(k, s, shared),
           UNCHANGED gen
    PROVE  FilesPair' /\ JudgedRowUnchanged' /\ ServesItsBook'
<1>0. TypeInv /\ \A j \in Looks : j # k => look'[j] = look[j]
  BY LookMovesLock DEF CoverInv, OthersKeep, TypeInv, TypeOK
<1>1. /\ \A s \in Series : row'[s] \in {row[s], NoPicture}
      /\ \A s \in Series : file'[s] \in {file[s], NoPicture}
      /\ UNCHANGED file \/ look[k].pc # "idle"
      /\ UNCHANGED torn
  BY <1>0, LookLoses
<1>2. look[k].pc # "idle" => \A g \in Gens : gen[g].pc # "insert"
  BY Alone DEF Inside
<1>3. FilesPair'
  BY <1>1, <1>2, LossKeeps
<1>4. \A j \in Looks : look[j].pc # "idle" => look[j].series \in Series
  BY <1>0 DEF TypeInv, AtWork
<1>5. ASSUME NEW j \in Looks, look'[j].pc \in Judging
      PROVE  row'[look'[j].series] \in {look'[j].item, NoPicture}
  <2>1. CASE j # k \/ (look[k].pc \in Judging /\ look'[k].series = look[k].series /\ look'[k].item = look[k].item)
    <3>1. /\ look[j].pc \in Judging /\ look[j].series \in Series
          /\ look'[j].series = look[j].series /\ look'[j].item = look[j].item
      BY <1>0, <1>4, <1>5, <2>1 DEF Judging
    <3>2. row[look[j].series] \in {look[j].item, NoPicture}
      BY <3>1 DEF CoverInv, JudgedRowUnchanged, Judging
    <3> QED
      BY <1>1, <3>1, <3>2
  <2>2. CASE /\ j = k /\ look[k].pc = "row" /\ UNCHANGED covers /\ look'[k].series = look[k].series
             /\ look'[k].item = row[look[k].series]
    BY <2>2 DEF covers
  <2> QED
    BY <1>0, <1>5, <2>1, <2>2, LookData
<1>6. ASSUME NEW j \in Looks, look'[j].pc = "file", look'[j].series \notin torn
      PROVE  file'[look'[j].series] = NoPicture \/ file'[look'[j].series].book = look'[j].first.book
  <2>1. CASE j # k
    <3>1. look'[j] = look[j] /\ look[j].pc = "file" /\ look[j].series \in Series
      BY <1>0, <1>4, <1>6, <2>1
    <3>2. look[j].series \notin torn
      BY <1>6, <3>1
    <3>3. file[look[j].series] = NoPicture \/ file[look[j].series].book = look[j].first.book
      BY <3>1, <3>2 DEF CoverInv, ServesItsBook
    <3> QED
      BY <1>1, <3>1, <3>3
  <2>2. CASE j = k
    <3>1. /\ look[k].pc = "row" /\ UNCHANGED covers /\ look'[k].series = look[k].series
          /\ look'[k].first = row[look[k].series] /\ row[look[k].series] # NoPicture
      BY <1>0, <1>6, <2>2, LookData DEF Judging
    <3>2. look[k].series \in Series \ torn /\ \A g \in Gens : gen[g].pc # "insert"
      BY <1>2, <1>4, <1>6, <2>2, <3>1
    <3>3. FileOfRow(look[k].series)
      BY <3>2 DEF CoverInv, FilesPair
    <3> QED
      BY <2>2, <3>1, <3>2, <3>3 DEF FileOfRow, covers
  <2> QED
    BY <2>1, <2>2
<1>7. ServesItsBook'
  BY <1>1, <1>6 DEF ServesItsBook
<1>8. JudgedRowUnchanged'
  BY <1>5 DEF JudgedRowUnchanged, Judging
<1> QED
  BY <1>3, <1>7, <1>8

LEMMA ClearKeeps ==
    ASSUME CoverInv, CoverAssumption, ClearLock \/ ClearEnter \/ ClearFiles \/ ClearRows,
           UNCHANGED <<gen, look>>
    PROVE  FilesPair' /\ JudgedRowUnchanged' /\ ServesItsBook'
<1>0. row \in [Series -> Cover] /\ file \in [Series -> Cover]
  BY DEF CoverInv, TypeInv, TypeOK
<1>1. /\ \A s \in Series : row'[s] \in {row[s], NoPicture}
      /\ \A s \in Series : file'[s] \in {file[s], NoPicture}
      /\ UNCHANGED file \/ clearing = "files"
      /\ UNCHANGED torn
  <2>1. CASE ClearLock \/ ClearEnter
    BY <2>1 DEF ClearLock, ClearEnter, covers
  <2>2. CASE ClearFiles
    BY <1>0, <2>2 DEF ClearFiles
  <2>3. CASE ClearRows
    BY <1>0, <2>3 DEF ClearRows
  <2> QED
    BY <2>1, <2>2, <2>3
<1>2. clearing = "files" => \A g \in Gens : gen[g].pc # "insert"
  BY Alone DEF Inside
<1> QED
  BY <1>1, <1>2, LossKeeps, LossSeen

LEMMA CatalogKeeps ==
    ASSUME CoverInv, CoverAssumption, CatalogStep, UNCHANGED <<file, torn, gen, look>>
    PROVE  FilesPair' /\ JudgedRowUnchanged' /\ ServesItsBook'
<1>1. \A s \in Series : row'[s] \in {row[s], NoPicture} /\ file'[s] = file[s]
  BY CatalogTyped DEF CoverInv
<1> QED
  BY <1>1, LossKeeps, LossSeen

LEMMA CoverStep ==
    ASSUME CoverInv, CoverAssumption, [Next]_vars
    PROVE  CoverInv'
<1>1. TypeInv' /\ LockAgrees'
  BY TypeStep, LockStep DEF CoverInv
<1>2. UNCHANGED vars => FilesPair' /\ JudgedRowUnchanged' /\ ServesItsBook'
  BY DEF vars, covers, CoverInv, FilesPair, PageIsFirst, FileIsPage, FileOfRow,
         JudgedRowUnchanged, ServesItsBook
<1>3. Restart => FilesPair' /\ JudgedRowUnchanged' /\ ServesItsBook'
  <2> SUFFICES ASSUME Restart PROVE FilesPair' /\ JudgedRowUnchanged' /\ ServesItsBook'
    OBVIOUS
  <2>1. /\ \A k \in Looks : look'[k].pc = "idle"
        /\ \A g \in Gens : gen'[g].pc = "idle"
        /\ row' = row /\ \A s \in Series : file'[s] \in {file[s], NoPicture}
    BY IdleTypes DEF Restart
  <2>2. JudgedRowUnchanged' /\ ServesItsBook' /\ PageIsFirst' /\ FileIsPage'
    BY <2>1 DEF JudgedRowUnchanged, ServesItsBook, PageIsFirst, FileIsPage
  <2>3. ASSUME NEW s \in Series \ torn'
        PROVE  FileOfRow(s)'
    <3>1. s \notin torn /\ \A g \in Gens : gen[g].pc = "insert" => gen[g].series # s
      BY <2>3 DEF Restart
    <3>2. row[s] # NoPicture => file[s] = NoPicture \/ file[s].book = row[s].book
      BY <3>1 DEF CoverInv, FilesPair, FileOfRow
    <3> QED
      BY <2>1, <3>2 DEF FileOfRow
  <2> QED
    BY <2>2, <2>3 DEF FilesPair
<1>4. Next => FilesPair' /\ JudgedRowUnchanged' /\ ServesItsBook'
  <2>1. TypeInv
    BY DEF CoverInv
  <2> QED
    BY <1>3, <2>1, StepKinds, GenKeeps, LookKeeps, ClearKeeps, CatalogKeeps
<1> QED
  BY <1>1, <1>2, <1>4 DEF CoverInv

LEMMA CoverInit ==
    ASSUME CoverAssumption, Init
    PROVE  CoverInv
<1>1. TypeInv
  BY InitType
<1>2. None \notin Gens \cup Looks \cup {Clearer}
  BY DEF CoverAssumption
<1>3. LockAgrees
  BY <1>2, IdleTypes DEF Init, LockAgrees
<1>4. JudgedRowUnchanged /\ FilesPair /\ ServesItsBook
  BY IdleTypes DEF Init, JudgedRowUnchanged, FilesPair, PageIsFirst, FileIsPage, FileOfRow, ServesItsBook
<1> QED
  BY <1>1, <1>3, <1>4 DEF CoverInv

LEMMA CoversKept == Spec => []CoverInv
<1>1. Init => CoverInv
  BY CoverInit, CoverAssumption
<1>2. CoverInv /\ [Next]_vars => CoverInv'
  BY CoverStep, CoverAssumption
<1> QED
  BY <1>1, <1>2, PTL DEF Spec

(* No cover made meanwhile is deleted for the one that was judged. *)
THEOREM DeletesWhatItJudged == Spec => []JudgedRowUnchanged
<1>1. CoverInv => JudgedRowUnchanged
  BY DEF CoverInv
<1> QED
  BY <1>1, CoversKept, PTL

(* What Get serves shows the book it looked up, before and after any       *)
(* number of crashes: only the cover of a series whose last generation     *)
(* died between the rename and the INSERT is left out, and only until the  *)
(* next INSERT for that series.                                            *)
THEOREM ServesTheBook == Spec => []ServesItsBook
<1>1. CoverInv => ServesItsBook
  BY DEF CoverInv
<1> QED
  BY <1>1, CoversKept, PTL
=============================================================================
