-------------------------- MODULE ScanCatalogProofs --------------------------
(***************************************************************************)
(* For every tree, every number of files, runs, edits and restarts: the    *)
(* types of ScanCatalog's state, that a library never mixes directory      *)
(* series and one-shots, that staging rows belong to the conversion under  *)
(* way, that a scan deletes nothing of what it found before it succeeds,   *)
(* and that one that succeeds is right about every file that stayed where  *)
(* it was, but for those that a directory changed while it was listed page *)
(* by page may have hidden from it.                                        *)
(***************************************************************************)
EXTENDS ScanCatalog, FiniteSetTheorems, TLAPS

-----------------------------------------------------------------------------
(* The rows made of a directory.                                           *)

LEMMA SeriesFoundType ==
    ASSUME NEW oneShot \in BOOLEAN, NEW d \in Dirs, NEW out, NEW run \in RunIds
    PROVE  SeriesFound(oneShot, d, out, run) \subseteq SeriesRow
BY DEF SeriesFound, FoundFiles, SeriesRow, CIDs

(* A comic stands at least at the first place. *)
LEMMA PlaceType ==
    ASSUME NEW out, IsFiniteSet(out), NEW f \in FoundFiles(out)
    PROVE  Cardinality({e \in out : e.item \in Files /\ e.item <= f}) \in Nat \ {0}
<1> DEFINE S == {e \in out : e.item \in Files /\ e.item <= f}
<1>1. IsFiniteSet(S)
  BY FS_Subset
<1>2. PICK e \in out : e.item = f
  BY DEF FoundFiles, Seen
<1>3. e \in S
  <2>1. f \in Files /\ f \in Nat
    BY CatalogAssumption DEF CatalogAssumption, FoundFiles
  <2>2. e.item \in Files /\ e.item <= f
    BY <1>2, <2>1
  <2> QED
    BY <2>2
<1>4. Cardinality(S) \in Nat
  BY <1>1, FS_CardinalityType
<1>5. Cardinality(S) # 0
  BY <1>1, <1>3, FS_EmptySet
<1> QED
  BY <1>4, <1>5

LEMMA BooksFoundType ==
    ASSUME NEW oneShot \in BOOLEAN, NEW d \in Dirs, NEW out, IsFiniteSet(out), NEW run \in RunIds
    PROVE  BooksFound(oneShot, d, out, run) \subseteq BookRow
<1> SUFFICES ASSUME NEW f \in FoundFiles(out)
             PROVE  [file |-> f, seen |-> run,
                     cid |-> IF oneShot THEN OneShotCID(f) ELSE DirCID(d),
                     number |-> IF oneShot THEN 1
                                ELSE Cardinality({e \in out : e.item \in Files /\ e.item <= f})] \in BookRow
  BY DEF BooksFound
<1>0. f \in Files
  BY DEF FoundFiles
<1>1. (IF oneShot THEN OneShotCID(f) ELSE DirCID(d)) \in CIDs
  BY <1>0 DEF CIDs
<1>2. (IF oneShot THEN 1 ELSE Cardinality({e \in out : e.item \in Files /\ e.item <= f})) \in Nat \ {0}
  BY PlaceType
<1> QED
  BY <1>0, <1>1, <1>2 DEF BookRow

-----------------------------------------------------------------------------
(* Where the entries of a directory stand in its listing.                  *)

LEMMA ItemsFinite ==
    ASSUME NEW d \in Dirs
    PROVE  IsFiniteSet(Items(d)) /\ Items(d) \subseteq Files \cup Dirs
<1>1. IsFiniteSet(Comics(d)) /\ Comics(d) \subseteq Files
  BY FS_Subset, CatalogAssumption DEF Comics, CatalogAssumption
<1>2. IsFiniteSet(Children[d]) /\ Children[d] \subseteq Dirs
  BY FS_Subset, CatalogAssumption DEF CatalogAssumption
<1> QED
  BY <1>1, <1>2, FS_Union DEF Items

LEMMA PositionType ==
    ASSUME NEW d \in Dirs, NEW x \in Items(d)
    PROVE  /\ Position(x, d) \in Nat
           /\ Cardinality(Items(d)) \in Nat
           /\ Position(x, d) < Cardinality(Items(d))
<1> DEFINE B == {y \in Items(d) : Rank[y] < Rank[x]}
<1>1. IsFiniteSet(Items(d)) /\ Items(d) \subseteq Files \cup Dirs
  BY ItemsFinite
<1>2. Rank[x] \in Nat
  BY <1>1, CatalogAssumption DEF CatalogAssumption
<1>3. B \subseteq Items(d) /\ x \notin B
  BY <1>2
<1>4. IsFiniteSet(B)
  BY <1>1, <1>3, FS_Subset
<1>5. Cardinality(B) \in Nat /\ Cardinality(Items(d)) \in Nat
  BY <1>1, <1>4, FS_CardinalityType
<1>6. Cardinality(B) <= Cardinality(Items(d)) /\ (Cardinality(B) = Cardinality(Items(d)) => B = Items(d))
  BY <1>1, <1>3, FS_Subset
<1> QED
  BY <1>3, <1>5, <1>6 DEF Position

LEMMA PositionOnce ==
    ASSUME NEW d \in Dirs, NEW x \in Items(d), NEW y \in Items(d), Position(x, d) = Position(y, d)
    PROVE  x = y
<1> DEFINE B(z) == {w \in Items(d) : Rank[w] < Rank[z]}
<1>1. IsFiniteSet(Items(d)) /\ Items(d) \subseteq Files \cup Dirs
  BY ItemsFinite
<1>2. \A w \in Items(d) : Rank[w] \in Nat
  BY <1>1, CatalogAssumption DEF CatalogAssumption
<1>3. ASSUME NEW v \in Items(d), NEW w \in Items(d), Rank[v] < Rank[w]
      PROVE  Position(v, d) # Position(w, d)
  <2>1. B(v) \subseteq B(w) /\ v \in B(w) /\ v \notin B(v)
    BY <1>2, <1>3
  <2>2. IsFiniteSet(B(w))
    BY <1>1, FS_Subset
  <2>3. Cardinality(B(v)) # Cardinality(B(w))
    BY <2>1, <2>2, FS_Subset
  <2> QED
    BY <2>3 DEF Position
<1>4. Rank[x] = Rank[y]
  BY <1>2, <1>3
<1> QED
  BY <1>1, <1>4, CatalogAssumption DEF CatalogAssumption

LEMMA ListingType ==
    ASSUME NEW d \in Dirs
    PROVE  Listing(d) \in SUBSET Entry /\ IsFiniteSet(Listing(d))
<1>1. \A x \in Items(d) : [at |-> Position(x, d), item |-> x] \in Entry
  BY PositionType, ItemsFinite DEF Entry
<1> DEFINE F == [x \in Items(d) |-> [at |-> Position(x, d), item |-> x]]
<1>2. F \in Surjection(Items(d), Listing(d))
  BY DEF Surjection, Listing
<1>3. IsFiniteSet(Listing(d))
  BY <1>2, ItemsFinite, FS_Surjection
<1> QED
  BY <1>1, <1>3 DEF Listing

LEMMA PageType ==
    ASSUME NEW d \in Dirs, NEW offset
    PROVE  /\ Page(d, offset) \in SUBSET Entry /\ IsFiniteSet(Page(d, offset))
           /\ \A e \in Page(d, offset) : /\ e.item \in Items(d) /\ e.at = Position(e.item, d)
                                         /\ e.at >= offset /\ e.at < offset + PageSize
<1>1. Page(d, offset) \subseteq Listing(d)
  BY DEF Page
<1>2. \A e \in Listing(d) : e.item \in Items(d) /\ e.at = Position(e.item, d)
  BY DEF Listing
<1>3. IsFiniteSet(Page(d, offset))
  BY <1>1, ListingType, FS_Subset
<1> QED
  BY <1>1, <1>2, <1>3, ListingType DEF Page

LEMMA Places ==
    ASSUME NEW n \in Nat
    PROVE  IsFiniteSet(0..(n - 1)) /\ Cardinality(0..(n - 1)) = n
BY FS_Interval

(* The places of a listing have no gap: behind an empty page is nothing. *)
LEMMA EmptyPage ==
    ASSUME NEW d \in Dirs, NEW offset \in Nat, Page(d, offset) = {}, NEW x \in Items(d)
    PROVE  Position(x, d) < offset
<1> DEFINE n == Cardinality(Items(d))
           F == [y \in Items(d) |-> Position(y, d)]
<1>0. n \in Nat /\ Position(x, d) \in Nat /\ Position(x, d) < n
  BY PositionType
<1> SUFFICES ASSUME Position(x, d) >= offset
             PROVE  FALSE
  BY <1>0
<1> HIDE DEF n
<1>1. offset \in 0..(n - 1)
  BY <1>0
<1>2. \A y \in Items(d) : F[y] = Position(y, d) /\ F[y] \in 0..(n - 1)
  BY PositionType, <1>0 DEF n
<1>3. \A y, z \in Items(d) : F[y] = F[z] => y = z
  BY PositionOnce
<1>4. F \in Injection(Items(d), 0..(n - 1))
  <2>1. F \in [Items(d) -> 0..(n - 1)]
    BY <1>2
  <2> HIDE DEF F
  <2>2. \A y, z \in Items(d) : F[y] = F[z] => y = z
    BY <1>3
  <2> QED
    BY <2>1, <2>2 DEF Injection, IsInjective
<1>5. IsFiniteSet(0..(n - 1)) /\ Cardinality(0..(n - 1)) = n
  BY <1>0, Places
<1>6. F \in Surjection(Items(d), 0..(n - 1))
  <2> HIDE DEF F
  <2> QED
    BY <1>4, <1>5, FS_Injection DEF n
<1>7. PICK y \in Items(d) : Position(y, d) = offset
  BY <1>1, <1>6 DEF Surjection
<1>8. [at |-> Position(y, d), item |-> y] \in Page(d, offset)
  BY <1>7, CatalogAssumption DEF Page, Listing, CatalogAssumption
<1> QED
  BY <1>8

(* A list with its entries at different places below offset is no longer than that. *)
LEMMA OutCount ==
    ASSUME NEW out \in SUBSET Entry, NEW offset \in Nat,
           \A e \in out : e.at < offset, \A e, g \in out : e.at = g.at => e = g
    PROVE  Cardinality(out) \in Nat /\ Cardinality(out) <= offset
<1> DEFINE F == [e \in out |-> e.at]
<1>1. \A e \in out : F[e] \in 0..(offset - 1)
  BY DEF Entry
<1>2. F \in Injection(out, 0..(offset - 1))
  BY <1>1 DEF Injection, IsInjective
<1>3. IsFiniteSet(0..(offset - 1)) /\ Cardinality(0..(offset - 1)) = offset
  BY Places
<1>4. IsFiniteSet(out) /\ Cardinality(out) <= offset
  <2> HIDE DEF F
  <2> QED
    BY <1>2, <1>3, FS_Injection
<1> QED
  BY <1>4, FS_CardinalityType

LEMMA UpsertType ==
    /\ \A table, rows \in SUBSET SeriesRow : UpsertSeries(table, rows) \subseteq SeriesRow
    /\ \A table, rows \in SUBSET BookRow : UpsertBooks(table, rows) \subseteq BookRow
BY DEF UpsertSeries, UpsertBooks

LEMMA TreeType ==
    ASSUME NEW oneShot \in BOOLEAN, NEW run \in RunIds
    PROVE  /\ TreeSeries(oneShot, run) \subseteq SeriesRow
           /\ TreeBooks(oneShot, run) \subseteq BookRow
<1>1. \A d \in Dirs : SeriesFound(oneShot, d, Listing(d), run) \subseteq SeriesRow
  BY SeriesFoundType
<1>2. \A d \in Dirs : BooksFound(oneShot, d, Listing(d), run) \subseteq BookRow
  BY ListingType, BooksFoundType
<1> QED
  BY <1>1, <1>2 DEF TreeSeries, TreeBooks

-----------------------------------------------------------------------------
(* Type correctness.                                                       *)

LEMMA RunIdsType == 0 \in RunIds /\ RunIds \subseteq Nat /\ MaxRuns \in Nat
BY CatalogAssumption DEF CatalogAssumption, RunIds

LEMMA IdleScanType == IdleScan \in ScanState
BY RunIdsType DEF IdleScan, ScanState, NoDirs

LEMMA InitType == Init => TypeOK
<1> SUFFICES ASSUME Init PROVE TypeOK
  OBVIOUS
<1>1. place \in [Files -> Dirs \cup {None}] /\ library \in [exists : BOOLEAN, oneShot : BOOLEAN]
  BY DEF Init
<1>2. series \subseteq SeriesRow /\ books \subseteq BookRow
  BY <1>1, TreeType, RunIdsType DEF Init
<1>3. staged \in Tables /\ before \in Tables
  BY <1>2 DEF Init, Tables, NoStaging
<1>4. status \in [RunIds -> {"none", "running", "success", "failed", "canceled", "gone"}]
  BY DEF Init
<1>5. scan \in ScanState
  BY IdleScanType DEF Init
<1>6. moves \in 0..MaxMoves /\ edits \in 0..MaxEdits /\ restarts \in 0..MaxRestarts
  BY CatalogAssumption DEF Init, CatalogAssumption
<1>7. IsFiniteSet(scan.out)
  BY FS_EmptySet DEF Init, IdleScan
<1> QED
  BY <1>1, <1>2, <1>3, <1>4, <1>5, <1>6, <1>7 DEF Init, TypeOK, IdleScan

(* The tables after what was found in a directory is upserted. *)
LEMMA SaveType ==
    ASSUME TypeOK, SaveDirectory
    PROVE  series' \subseteq SeriesRow /\ books' \subseteq BookRow /\ staged' \in Tables
<1> DEFINE ss == SeriesFound(scan.oneShot, scan.dir, scan.out, scan.run)
           bs == BooksFound(scan.oneShot, scan.dir, scan.out, scan.run)
<1>1. scan.oneShot \in BOOLEAN /\ IsFiniteSet(scan.out) /\ scan.run \in RunIds
  BY DEF TypeOK, ScanState
<1>2. scan.dir \in Dirs
  BY DEF TypeOK, SaveDirectory
<1>3. ss \in SUBSET SeriesRow /\ bs \in SUBSET BookRow
  BY <1>1, <1>2, SeriesFoundType, BooksFoundType
<1> HIDE DEF ss, bs
<1>4. UpsertSeries(series, ss) \subseteq SeriesRow /\ UpsertBooks(books, bs) \subseteq BookRow
  BY <1>3, UpsertType DEF TypeOK
<1>5. /\ UpsertSeries(staged.series, ss) \subseteq SeriesRow
      /\ UpsertBooks(staged.books, bs) \subseteq BookRow
  BY <1>3, UpsertType DEF TypeOK, Tables
<1> QED
  BY <1>4, <1>5 DEF TypeOK, Tables, SaveDirectory, catalog, ss, bs

(* How a scan that stops goes on. *)
LEMMA EndState ==
    ASSUME TypeOK, NEW o \in {"success", "failed", "canceled"}, End(o)
    PROVE  /\ scan' \in ScanState /\ scan'.out = scan.out
           /\ scan'.pc = IF scan.pc = "conversion" THEN "finish" ELSE "discard"
           /\ scan'.run = scan.run /\ scan'.oneShot = scan.oneShot /\ scan'.staged = scan.staged
<1>1. CASE scan.pc = "conversion"
  <2>1. scan' = [scan EXCEPT !.pc = "finish", !.outcome = o]
    BY <1>1 DEF End
  <2> QED
    BY <1>1, <2>1 DEF TypeOK, ScanState
<1>2. CASE scan.pc # "conversion"
  <2>1. scan' = [scan EXCEPT !.pc = "discard", !.outcome = o]
    BY <1>2 DEF End
  <2> QED
    BY <1>2, <2>1 DEF TypeOK, ScanState
<1> QED
  BY <1>1, <1>2

(* A call, with the page it shows and the list it makes. *)
LEMMA ListPageCase ==
    ASSUME TypeOK, ListPage
    PROVE  \E page, out :
              /\ page = Page(scan.dir, scan.offset) /\ out = scan.out \cup page
              /\ out \in SUBSET Entry /\ IsFiniteSet(out)
              /\ scan' \in ScanState /\ scan'.dir = scan.dir /\ scan'.out = out
              /\ scan'.run = scan.run /\ scan'.oneShot = scan.oneShot
              /\ scan'.staged = scan.staged /\ scan'.outcome = scan.outcome
              /\ \/ /\ LastPage(page, out) /\ scan'.pc = "save" /\ scan'.offset = 0
                    /\ \A d \in Dirs : scan.todo[d] > 0 \/ d \in Seen(out) => scan'.todo[d] > 0
                 \/ /\ ~LastPage(page, out) /\ scan'.pc = "page"
                    /\ scan'.offset = scan.offset + PageSize /\ scan'.todo = scan.todo
<1> DEFINE page == Page(scan.dir, scan.offset)
           out  == scan.out \cup page
           seen == [d \in Dirs |-> Cardinality({e \in out : e.item = d})]
           todo == [d \in Dirs |-> scan.todo[d] + Cardinality({e \in out : e.item = d})]
<1>1. /\ scan.pc = "page" /\ scan.dir \in Dirs /\ scan.offset \in Nat /\ scan.todo \in [Dirs -> Nat]
      /\ scan.out \in SUBSET Entry /\ IsFiniteSet(scan.out)
  BY DEF ListPage, TypeOK, ScanState
<1>2. page \in SUBSET Entry /\ IsFiniteSet(page)
  BY <1>1, PageType
<1>3. out \in SUBSET Entry /\ IsFiniteSet(out)
  <2> HIDE DEF page
  <2> QED
    BY <1>1, <1>2, FS_Union
<1>4. scan' = IF LastPage(page, out)
              THEN [scan EXCEPT !.pc = "save", !.offset = 0, !.out = out, !.todo = todo]
              ELSE [scan EXCEPT !.offset = scan.offset + PageSize, !.out = out]
  BY DEF ListPage
<1> HIDE DEF page, out
<1>5. ASSUME NEW d \in Dirs
      PROVE  /\ seen[d] \in Nat
             /\ d \in Seen(out) => seen[d] > 0
  <2> DEFINE S == {e \in out : e.item = d}
  <2>1. IsFiniteSet(S)
    BY <1>3, FS_Subset
  <2>2. Cardinality(S) \in Nat
    BY <2>1, FS_CardinalityType
  <2>3. d \in Seen(out) => S # {}
    BY DEF Seen
  <2>4. d \in Seen(out) => Cardinality(S) # 0
    BY <2>1, <2>3, FS_EmptySet
  <2> QED
    BY <2>2, <2>4
<1>6. todo = [d \in Dirs |-> scan.todo[d] + seen[d]]
  OBVIOUS
<1> HIDE DEF seen, todo
<1>7. /\ todo \in [Dirs -> Nat]
      /\ \A d \in Dirs : scan.todo[d] > 0 \/ d \in Seen(out) => todo[d] > 0
  BY <1>1, <1>5, <1>6
<1>8. PageSize \in Nat
  BY CatalogAssumption DEF CatalogAssumption
<1>9. CASE LastPage(page, out)
  <2>1. scan' = [scan EXCEPT !.pc = "save", !.offset = 0, !.out = out, !.todo = todo]
    BY <1>4, <1>9
  <2>2. /\ scan' \in ScanState /\ scan'.dir = scan.dir /\ scan'.out = out /\ scan'.pc = "save"
        /\ scan'.offset = 0
        /\ scan'.run = scan.run /\ scan'.oneShot = scan.oneShot /\ scan'.todo = todo
        /\ scan'.staged = scan.staged /\ scan'.outcome = scan.outcome
    BY <1>3, <1>7, <2>1 DEF TypeOK, ScanState
  <2> QED
    BY <1>3, <1>7, <1>9, <2>2 DEF page, out
<1>10. CASE ~LastPage(page, out)
  <2>1. scan' = [scan EXCEPT !.offset = scan.offset + PageSize, !.out = out]
    BY <1>4, <1>10
  <2>2. scan.offset + PageSize \in Nat
    BY <1>1, <1>8
  <2>3. /\ scan' \in ScanState /\ scan'.dir = scan.dir /\ scan'.out = out /\ scan'.pc = "page"
        /\ scan'.run = scan.run /\ scan'.oneShot = scan.oneShot /\ scan'.todo = scan.todo
        /\ scan'.staged = scan.staged /\ scan'.outcome = scan.outcome
        /\ scan'.offset = scan.offset + PageSize
    BY <1>1, <1>3, <2>2, <2>1 DEF TypeOK, ScanState
  <2> QED
    BY <1>3, <1>10, <2>3 DEF page, out
<1> QED
  BY <1>9, <1>10

LEMMA ListPageState ==
    ASSUME TypeOK, ListPage
    PROVE  /\ scan' \in ScanState /\ scan'.dir = scan.dir /\ scan'.dir \in Dirs /\ IsFiniteSet(scan'.out)
           /\ scan.pc = "page" /\ scan'.pc \in {"page", "save"}
           /\ scan'.run = scan.run /\ scan'.oneShot = scan.oneShot
           /\ scan'.staged = scan.staged /\ scan'.outcome = scan.outcome
<1>1. scan.pc = "page" /\ scan.dir \in Dirs
  BY DEF ListPage, TypeOK
<1> QED
  BY <1>1, ListPageCase

LEMMA NextType == TypeOK /\ [Next]_vars => TypeOK'
<1> SUFFICES ASSUME TypeOK, [Next]_vars PROVE TypeOK'
  OBVIOUS
<1> USE RunIdsType
<1>1. CASE StartScan
  <2>1. scan.run + 1 \in RunIds
    BY <1>1 DEF StartScan, TypeOK, ScanState, RunIds
  <2>2. scan' \in ScanState /\ scan'.pc = "conversion" /\ IsFiniteSet(scan'.out)
    <3>1. scan' = [IdleScan EXCEPT !.pc = "conversion", !.run = scan.run + 1, !.oneShot = library.oneShot]
      BY <1>1 DEF StartScan
    <3>2. scan' \in ScanState /\ scan'.pc = "conversion" /\ scan'.out = IdleScan.out
      BY <2>1, <3>1, IdleScanType DEF TypeOK, ScanState
    <3> QED
      BY <3>2, FS_EmptySet DEF IdleScan
  <2>3. status' \in [RunIds -> {"none", "running", "success", "failed", "canceled", "gone"}]
    BY <1>1, <2>1 DEF StartScan, TypeOK
  <2> QED
    BY <1>1, <2>2, <2>3 DEF StartScan, TypeOK, Tables, catalog, bounds
<1>2. CASE CheckConversion
  <2>1. scan' \in ScanState /\ scan'.pc = "list" /\ scan'.out = scan.out
    BY <1>2, CatalogAssumption
    DEF CheckConversion, NeedsModeConversion, TypeOK, ScanState, CatalogAssumption
  <2> QED
    BY <1>2, <2>1 DEF CheckConversion, TypeOK, catalog, history, bounds
<1>3. CASE \E d \in Dirs : ListDirectory(d)
  <2> PICK d \in Dirs : ListDirectory(d)
    BY <1>3
  <2>1. scan.todo \in [Dirs -> Nat] /\ scan.todo[d] - 1 \in Nat
    BY DEF ListDirectory, TypeOK, ScanState
  <2>2. scan' \in ScanState /\ scan'.dir \in Dirs /\ scan'.out = scan.out
    BY <2>1 DEF ListDirectory, TypeOK, ScanState
  <2> QED
    BY <2>2 DEF ListDirectory, TypeOK, catalog, history, bounds
<1>4. CASE ListPage
  <2>1. scan' \in ScanState /\ scan'.dir \in Dirs /\ IsFiniteSet(scan'.out)
    BY <1>4, ListPageState
  <2> QED
    BY <1>4, <2>1 DEF ListPage, TypeOK, catalog, history, bounds
<1>5. CASE SaveDirectory
  <2>1. scan' \in ScanState /\ scan'.pc = "progress" /\ IsFiniteSet(scan'.out)
    BY <1>5, FS_EmptySet DEF SaveDirectory, TypeOK, ScanState
  <2> QED
    BY <1>5, <2>1, SaveType DEF SaveDirectory, TypeOK, history, bounds
<1>6. CASE UpdateProgress
  <2>1. CASE status[scan.run] = "running" /\ ~cancel
    BY <1>6, <2>1 DEF UpdateProgress, TypeOK, ScanState, catalog, history, bounds
  <2>2. CASE ~(status[scan.run] = "running" /\ ~cancel)
    <3>1. End("canceled")
      BY <1>6, <2>2 DEF UpdateProgress
    <3> QED
      BY <1>6, <3>1, EndState DEF UpdateProgress, TypeOK, catalog, history, bounds
  <2> QED
    BY <2>1, <2>2
<1>7. CASE ScanStops
  <2>1. scan' \in ScanState /\ scan'.pc \notin {"page", "save"} /\ scan'.out = scan.out
    BY <1>7, EndState DEF ScanStops
  <2> QED
    BY <1>7, <2>1 DEF ScanStops, TypeOK, catalog, history, bounds
<1>8. CASE CommitScan
  <2>1. scan' \in ScanState /\ scan'.pc = "finish" /\ scan'.out = scan.out
    BY <1>8 DEF CommitScan, TypeOK, ScanState
  <2>2. series' \subseteq SeriesRow /\ books' \subseteq BookRow /\ staged' \in Tables
    BY <1>8 DEF CommitScan, TypeOK, Tables, NoStaging
  <2> QED
    BY <1>8, <2>1, <2>2 DEF CommitScan, TypeOK, history, bounds
<1>9. CASE DiscardStaging
  BY <1>9 DEF DiscardStaging, TypeOK, ScanState, Tables, NoStaging, catalog, history, bounds
<1>10. CASE FinishRun
  <2>1. scan' \in ScanState /\ scan'.pc = "idle" /\ IsFiniteSet(scan'.out)
    BY <1>10, FS_EmptySet DEF FinishRun, TypeOK, ScanState, NoDirs
  <2>2. status' \in [RunIds -> {"none", "running", "success", "failed", "canceled", "gone"}]
    BY <1>10 DEF FinishRun, TypeOK, ScanState
  <2> QED
    BY <1>10, <2>1, <2>2 DEF FinishRun, TypeOK, catalog, history, bounds
<1>11. CASE CancelScan
  BY <1>11 DEF CancelScan, TypeOK, catalog, history, bounds
<1>12. CASE \E f \in Files, d \in Dirs \cup {None} : MoveFile(f, d)
  BY <1>12, CatalogAssumption DEF MoveFile, TypeOK, catalog, CatalogAssumption
<1>13. CASE \E oneShot \in BOOLEAN : SetLibrary(oneShot)
  BY <1>13, CatalogAssumption DEF SetLibrary, Edit, TypeOK, catalog, history, CatalogAssumption
<1>14. CASE DeleteLibrary
  <2>1. staged' \in Tables /\ before' \in Tables /\ edits' \in 0..MaxEdits
    BY <1>14, CatalogAssumption DEF DeleteLibrary, Edit, TypeOK, Tables, NoStaging, CatalogAssumption
  <2>2. status' \in [RunIds -> {"none", "running", "success", "failed", "canceled", "gone"}]
    BY <1>14 DEF DeleteLibrary, TypeOK
  <2>3. library' \in [exists : BOOLEAN, oneShot : BOOLEAN]
    BY <1>14 DEF DeleteLibrary, TypeOK
  <2> QED
    BY <1>14, <2>1, <2>2, <2>3, ZenonT(30) DEF DeleteLibrary, Edit, TypeOK
<1>15. CASE Restart
  <2>1. scan' \in ScanState /\ scan'.pc = "idle" /\ IsFiniteSet(scan'.out)
    BY <1>15, IdleScanType, FS_EmptySet DEF Restart, TypeOK, ScanState, IdleScan
  <2> QED
    BY <1>15, <2>1, CatalogAssumption
    DEF Restart, TypeOK, Tables, NoStaging, catalog, history, CatalogAssumption
<1>16. CASE UNCHANGED vars
  BY <1>16 DEF TypeOK, vars, catalog, history, bounds
<1> QED
  BY <1>1, <1>2, <1>3, <1>4, <1>5, <1>6, <1>7, <1>8, <1>9, <1>10, <1>11, <1>12, <1>13, <1>14, <1>15, <1>16
  DEF Next

(* The state of the scan, of its tables and of its history keeps its types. *)
THEOREM TypeCorrect == Spec => []TypeOK
BY InitType, NextType, PTL DEF Spec

-----------------------------------------------------------------------------
(* One mode per library.                                                   *)

(* A scan that writes in place found no series of the other mode, and none *)
(* can have appeared since; what is staged has the job's mode, so that the *)
(* commit of it replaces one uniform library by another.                   *)
InPlace == ~scan.staged /\ scan.pc \in {"list", "page", "save", "progress", "commit"}
ModeInv ==
    /\ ModeUniform
    /\ InPlace => \A s \in series : s.oneShot = scan.oneShot
    /\ \A s \in staged.series : s.oneShot = scan.oneShot
    /\ StagingBelongsToScan

LEMMA InitMode == Init => ModeInv
<1> SUFFICES ASSUME Init PROVE ModeInv
  OBVIOUS
<1>1. \A s \in series : s.oneShot = library.oneShot
  BY DEF Init, TreeSeries, SeriesFound
<1>2. staged = NoStaging /\ scan.pc = "idle"
  BY DEF Init, IdleScan
<1> QED
  BY <1>1, <1>2 DEF ModeInv, ModeUniform, InPlace, StagingBelongsToScan, NoStaging

LEMMA NextMode == TypeOK /\ ModeInv /\ [Next]_vars => ModeInv'
<1> SUFFICES ASSUME TypeOK, ModeInv, [Next]_vars PROVE ModeInv'
  OBVIOUS
<1> USE DEF ModeInv, ModeUniform, InPlace, StagingBelongsToScan
<1>1. CASE StartScan
  <2>1. staged = NoStaging
    BY <1>1 DEF StartScan
  <2> QED
    BY <1>1, <2>1 DEF StartScan, TypeOK, ScanState, IdleScan, catalog, NoStaging
<1>2. CASE CheckConversion
  BY <1>2 DEF CheckConversion, NeedsModeConversion, TypeOK, ScanState, catalog, NoStaging
<1>3. CASE \E d \in Dirs : ListDirectory(d)
  BY <1>3 DEF ListDirectory, TypeOK, ScanState, catalog
<1>4. CASE ListPage
  BY <1>4, ListPageState DEF ListPage, catalog
<1>5. CASE SaveDirectory
  <2> DEFINE ss == SeriesFound(scan.oneShot, scan.dir, scan.out, scan.run)
             bs == BooksFound(scan.oneShot, scan.dir, scan.out, scan.run)
  <2>1. \A s \in ss : s.oneShot = scan.oneShot /\ s.seen = scan.run
    BY DEF SeriesFound
  <2>2. \A b \in bs : b.seen = scan.run
    <3> SUFFICES ASSUME NEW b \in bs PROVE b.seen = scan.run
      OBVIOUS
    <3>1. PICK f \in FoundFiles(scan.out) :
             b = [file |-> f, seen |-> scan.run,
                  cid |-> IF scan.oneShot THEN OneShotCID(f) ELSE DirCID(scan.dir),
                  number |-> IF scan.oneShot THEN 1
                           ELSE Cardinality({e \in scan.out : e.item \in Files /\ e.item <= f})]
      BY Zenon DEF BooksFound
    <3> QED
      BY <3>1
  <2>3. /\ scan.pc = "save" /\ scan'.pc = "progress" /\ scan'.oneShot = scan.oneShot
        /\ scan'.staged = scan.staged /\ scan'.run = scan.run
    BY <1>5 DEF SaveDirectory, TypeOK, ScanState
  <2>4. CASE scan.staged
    <3>1. UNCHANGED catalog /\ staged' = [series |-> UpsertSeries(staged.series, ss),
                                         books |-> UpsertBooks(staged.books, bs)]
      BY <1>5, <2>4 DEF SaveDirectory
    <3> HIDE DEF ss, bs
    <3>2. \A s \in staged.series : s.oneShot = scan.oneShot /\ s.seen = scan.run
      BY DEF NoStaging
    <3>3. \A b \in staged.books : b.seen = scan.run
      BY DEF NoStaging
    <3>4. \A s \in staged'.series : s.oneShot = scan.oneShot /\ s.seen = scan.run
      BY <2>1, <3>1, <3>2 DEF UpsertSeries
    <3>5. \A b \in staged'.books : b.seen = scan.run
      BY <2>2, <3>1, <3>3 DEF UpsertBooks
    <3> QED
      BY <2>3, <2>4, <3>1, <3>4, <3>5 DEF catalog
  <2>5. CASE ~scan.staged
    <3>1. UNCHANGED staged /\ series' = UpsertSeries(series, ss)
      BY <1>5, <2>5 DEF SaveDirectory
    <3> HIDE DEF ss
    <3>2. \A s \in series' : s.oneShot = scan.oneShot
      BY <2>1, <2>3, <2>5, <3>1 DEF UpsertSeries
    <3> QED
      BY <2>3, <2>5, <3>1, <3>2
  <2> QED
    BY <2>4, <2>5
<1>6. CASE UpdateProgress
  <2>1. CASE status[scan.run] = "running" /\ ~cancel
    BY <1>6, <2>1 DEF UpdateProgress, TypeOK, ScanState, catalog
  <2>2. CASE ~(status[scan.run] = "running" /\ ~cancel)
    <3>1. End("canceled") /\ scan.pc = "progress"
      BY <1>6, <2>2 DEF UpdateProgress
    <3> QED
      BY <1>6, <3>1, EndState DEF UpdateProgress, catalog
  <2> QED
    BY <2>1, <2>2
<1>7. CASE ScanStops
  <2>1. /\ scan'.pc = IF scan.pc = "conversion" THEN "finish" ELSE "discard"
        /\ scan'.run = scan.run /\ scan'.oneShot = scan.oneShot /\ scan'.staged = scan.staged
    BY <1>7, EndState DEF ScanStops
  <2> QED
    BY <1>7, <2>1 DEF ScanStops, catalog
<1>8. CASE CommitScan
  <2>1. scan'.pc = "finish"
    BY <1>8 DEF CommitScan, TypeOK, ScanState
  <2>2. staged' = NoStaging
    BY <1>8 DEF CommitScan
  <2>3. \A s, t \in series' : s.oneShot = t.oneShot
    BY <1>8 DEF CommitScan
  <2> QED
    BY <2>1, <2>2, <2>3 DEF NoStaging
<1>9. CASE DiscardStaging
  <2>1. staged' = NoStaging
    BY <1>9 DEF DiscardStaging
  <2> QED
    <3>1. scan'.pc = "finish" /\ UNCHANGED catalog
      BY <1>9 DEF DiscardStaging, TypeOK, ScanState
    <3>2. staged'.series = {}
      BY <2>1 DEF NoStaging
    <3> QED
      BY <2>1, <3>1, <3>2 DEF catalog
<1>10. CASE FinishRun
  BY <1>10 DEF FinishRun, TypeOK, ScanState, catalog, NoStaging
<1>11. CASE CancelScan
  BY <1>11 DEF CancelScan, catalog
<1>12. CASE \E f \in Files, d \in Dirs \cup {None} : MoveFile(f, d)
  BY <1>12 DEF MoveFile, catalog
<1>13. CASE \E oneShot \in BOOLEAN : SetLibrary(oneShot)
  BY <1>13 DEF SetLibrary, catalog
<1>14. CASE DeleteLibrary
  BY <1>14 DEF DeleteLibrary, NoStaging
<1>15. CASE Restart
  BY <1>15, IdleScanType DEF Restart, ScanState, IdleScan, NoStaging, catalog
<1>16. CASE UNCHANGED vars
  BY <1>16 DEF vars, catalog
<1> QED
  BY <1>1, <1>2, <1>3, <1>4, <1>5, <1>6, <1>7, <1>8, <1>9, <1>10, <1>11, <1>12, <1>13, <1>14, <1>15, <1>16
  DEF Next

(* A library never shows directory series and one-shots side by side. *)
THEOREM ModeNeverMixed == Spec => []ModeUniform
<1>1. ModeInv => ModeUniform
  BY DEF ModeInv
<1> QED
  BY <1>1, InitType, NextType, InitMode, NextMode, PTL DEF Spec

(* No commit ever finds staging rows of another run. *)
THEOREM StagingOwned == Spec => []StagingBelongsToScan
<1>1. ModeInv => StagingBelongsToScan
  BY DEF ModeInv
<1> QED
  BY <1>1, InitType, NextType, InitMode, NextMode, PTL DEF Spec

-----------------------------------------------------------------------------
(* What a scan found is kept until a commit.                               *)

Working  == {"conversion", "list", "page", "save", "progress", "commit"}
Scanning == {"list", "page", "save", "progress", "commit"}

(* Nothing of the run is written before its conversion check, a conversion *)
(* writes to staging only, and only the commit makes a run a success.      *)
KeepInv ==
    /\ OldStructureKept
    /\ scan.pc = "conversion" => series = before.series /\ books = before.books
    /\ scan.pc \in Working => scan.outcome = "none"

LEMMA InitKeep == Init => KeepInv
BY DEF Init, KeepInv, OldStructureKept, Committed, IdleScan, Working

(* The scan goes on and says it has not succeeded. *)
LEMMA StopKeeps ==
    ASSUME TypeOK, KeepInv, NEW o \in {"failed", "canceled"}, scan.pc \in Working, End(o),
           UNCHANGED <<catalog, history>>
    PROVE  KeepInv'
<1>1. scan'.staged = scan.staged /\ scan'.pc \in {"finish", "discard"}
  BY EndState
<1>2. OldStructureKept' /\ ~(scan'.pc \in Working)
  BY <1>1 DEF KeepInv, OldStructureKept, Committed, catalog, history, Working
<1> QED
  BY <1>1, <1>2 DEF KeepInv, Working

LEMMA NextKeep == TypeOK /\ KeepInv /\ [Next]_vars => KeepInv'
<1> SUFFICES ASSUME TypeOK, KeepInv, [Next]_vars PROVE KeepInv'
  OBVIOUS
<1> USE DEF KeepInv, OldStructureKept, Committed, Working
<1>1. CASE StartScan
  BY <1>1 DEF StartScan, TypeOK, ScanState, IdleScan, catalog
<1>2. CASE CheckConversion
  BY <1>2 DEF CheckConversion, TypeOK, ScanState, catalog, history
<1>3. CASE \E d \in Dirs : ListDirectory(d)
  <2> PICK d \in Dirs : ListDirectory(d)
    BY <1>3
  <2>1. /\ scan.pc = "list" /\ scan'.pc = "page" /\ scan'.staged = scan.staged
        /\ scan'.outcome = scan.outcome /\ UNCHANGED <<catalog, before>>
    BY DEF ListDirectory, TypeOK, ScanState, history
  <2> QED
    BY <2>1 DEF catalog
<1>4. CASE ListPage
  BY <1>4, ListPageState DEF ListPage, catalog, history
<1>5. CASE SaveDirectory
  <2> DEFINE ss == SeriesFound(scan.oneShot, scan.dir, scan.out, scan.run)
             bs == BooksFound(scan.oneShot, scan.dir, scan.out, scan.run)
  <2>1. /\ scan.pc = "save" /\ scan'.pc = "progress" /\ scan'.outcome = scan.outcome
        /\ scan'.staged = scan.staged /\ before' = before
    BY <1>5 DEF SaveDirectory, TypeOK, ScanState, history
  <2>2. CASE scan.staged
    <3>1. UNCHANGED catalog
      BY <1>5, <2>2 DEF SaveDirectory
    <3> QED
      BY <2>1, <2>2, <3>1 DEF catalog
  <2>3. CASE ~scan.staged
    <3>1. series' = UpsertSeries(series, ss) /\ books' = UpsertBooks(books, bs)
      BY <1>5, <2>3 DEF SaveDirectory
    <3> HIDE DEF ss, bs
    <3>2. {s.cid : s \in series} \subseteq {s.cid : s \in series'}
      BY <3>1 DEF UpsertSeries
    <3>3. {b.file : b \in books} \subseteq {b.file : b \in books'}
      BY <3>1 DEF UpsertBooks
    <3> QED
      BY <2>1, <2>3, <3>2, <3>3
  <2> QED
    BY <2>2, <2>3
<1>6. CASE UpdateProgress
  <2>1. CASE status[scan.run] = "running" /\ ~cancel
    BY <1>6, <2>1 DEF UpdateProgress, TypeOK, ScanState, catalog, history
  <2>2. CASE ~(status[scan.run] = "running" /\ ~cancel)
    <3>1. End("canceled") /\ scan.pc = "progress" /\ UNCHANGED <<catalog, history>>
      BY <1>6, <2>2 DEF UpdateProgress
    <3> QED
      BY <3>1, StopKeeps
  <2> QED
    BY <2>1, <2>2
<1>7. CASE ScanStops
  BY <1>7, StopKeeps DEF ScanStops
<1>8. CASE CommitScan
  BY <1>8 DEF CommitScan, TypeOK, ScanState
<1>9. CASE DiscardStaging
  BY <1>9 DEF DiscardStaging, TypeOK, ScanState, catalog, history
<1>10. CASE FinishRun
  BY <1>10 DEF FinishRun, TypeOK, ScanState, catalog, history
<1>11. CASE CancelScan
  BY <1>11 DEF CancelScan, catalog, history
<1>12. CASE \E f \in Files, d \in Dirs \cup {None} : MoveFile(f, d)
  BY <1>12 DEF MoveFile, catalog
<1>13. CASE \E oneShot \in BOOLEAN : SetLibrary(oneShot)
  BY <1>13 DEF SetLibrary, catalog, history
<1>14. CASE DeleteLibrary
  BY <1>14 DEF DeleteLibrary
<1>15. CASE Restart
  BY <1>15, IdleScanType DEF Restart, ScanState, IdleScan, catalog, history
<1>16. CASE UNCHANGED vars
  BY <1>16 DEF vars, catalog, history
<1> QED
  BY <1>1, <1>2, <1>3, <1>4, <1>5, <1>6, <1>7, <1>8, <1>9, <1>10, <1>11, <1>12, <1>13, <1>14, <1>15, <1>16
  DEF Next

(* A scan that has not succeeded has deleted nothing of what it found, and *)
(* one that converts the library has changed nothing at all.               *)
THEOREM OldDataKept == Spec => []OldStructureKept
<1>1. KeepInv => OldStructureKept
  BY DEF KeepInv
<1> QED
  BY <1>1, InitType, NextType, InitKeep, NextKeep, PTL DEF Spec

-----------------------------------------------------------------------------
(* A successful scan leaves the tree.                                      *)

WantedSeries == TreeSeries(scan.oneShot, scan.run)
WantedBooks  == TreeBooks(scan.oneShot, scan.run)
SeriesOf(f)  == IF scan.oneShot THEN OneShotCID(f) ELSE DirCID(place[f])

(* The rows ss and bs say nothing false of the files that have not moved,  *)
(* and no book is without its series.                                      *)
Truthful(ss, bs) ==
    /\ \A s \in ss : settled = Files => s \in WantedSeries
    /\ \A b \in bs :
          /\ b.file \in settled => place[b.file] \in Dirs /\ b.cid = SeriesOf(b.file)
          /\ settled = Files => b \in WantedBooks
          /\ \E s \in ss : s.cid = b.cid

(* The books bs have every file of the directories D that has not moved.   *)
Complete(bs, D) == \A f \in settled : place[f] \in D => \E b \in bs : b.file = f

(* What the run has written, to staging or in place. *)
FreshSeries == {s \in IF scan.staged THEN staged.series ELSE series : s.seen = scan.run}
FreshBooks  == {b \in IF scan.staged THEN staged.books ELSE books : b.seen = scan.run}

(* Directories in the queue, and the one whose subdirectories are not yet. *)
Waiting  == {d \in Dirs : scan.todo[d] > 0}
Unlisted == IF scan.pc = "page" THEN {scan.dir} ELSE {}

(* Of the directories the scan has been to, every subdirectory is one of   *)
(* them or waits, and what they hold is written, but for the last one's;   *)
(* of the torn ones nothing is known.                                      *)
Explored(D) ==
    /\ Root \in D \cup Waiting
    /\ \A d \in D \ (torn \cup Unlisted) : Children[d] \subseteq D \cup Waiting
    /\ Complete(FreshBooks, D \ (torn \cup {scan.dir}))

(* Rows of the run are new when it begins to write. *)
Stamped ==
    /\ \A x \in series \cup books : x.seen <= scan.run
    /\ scan.pc = "conversion" => \A x \in series \cup books : x.seen # scan.run

Underway ==
    scan.pc \in Scanning /\ status[scan.run] = "running" =>
        /\ Truthful(FreshSeries, FreshBooks)
        /\ \E D \in SUBSET Dirs : Explored(D)

(* The entries before place n that did not move are in the list so far:    *)
(* as long as no file leaves, an entry's place can only grow.              *)
Shown(n) ==
    scan.dir \notin torn =>
        \A x \in Items(scan.dir) :
            x \in settled \cup Dirs /\ Position(x, scan.dir) < n => x \in Seen(scan.out)

Between ==
    /\ scan.pc \in {"conversion", "list", "progress", "commit"} =>
          scan.dir = None /\ scan.offset = 0 /\ scan.out = {}
    /\ scan.pc = "save" => scan.offset = 0
    /\ scan.pc = "commit" => Waiting = {}
    /\ settled = Files => torn = {}

InPages ==
    scan.pc = "page" =>
        /\ \A e \in scan.out : e.at < scan.offset
        /\ \A e, g \in scan.out : e.at = g.at => e = g
        /\ Shown(scan.offset)

Showing ==
    scan.pc \in {"page", "save"} =>
        /\ \A f \in settled : f \in Seen(scan.out) => place[f] = scan.dir
        /\ settled = Files => scan.out \subseteq Listing(scan.dir)

AllShown ==
    scan.pc = "save" /\ scan.dir \notin torn =>
        \A x \in Items(scan.dir) : x \in settled \cup Dirs => x \in Seen(scan.out)

Listed == Between /\ InPages /\ Showing /\ AllShown

(* A run is reported a success when it is over, and only if it was one. *)
Reported ==
    scan.run > 0 /\ status[scan.run] = "success" => scan.outcome = "success" /\ scan.pc = "idle"

(* A set of directories the scan can have got to. *)
Closed(D) == Root \in D /\ \A d \in D \ torn : Children[d] \subseteq D

Arrived ==
    scan.run > 0 /\ scan.outcome = "success" /\ status[scan.run] \in {"running", "success"} =>
        /\ Truthful(series, books)
        /\ \E D \in SUBSET Dirs : Closed(D) /\ Complete(books, D \ torn)

TreeInv == Stamped /\ Underway /\ Listed /\ Reported /\ Arrived

LEMMA FoundSeen ==
    ASSUME NEW oneShot, NEW d, NEW out, NEW run
    PROVE  /\ \A s \in SeriesFound(oneShot, d, out, run) : s.seen = run
           /\ \A b \in BooksFound(oneShot, d, out, run) : b.seen = run
<1>1. \A s \in SeriesFound(oneShot, d, out, run) : s.seen = run
  BY DEF SeriesFound
<1>2. ASSUME NEW b \in BooksFound(oneShot, d, out, run)
      PROVE  b.seen = run
  <2>1. PICK f \in FoundFiles(out) :
           b = [file |-> f, seen |-> run,
                cid |-> IF oneShot THEN OneShotCID(f) ELSE DirCID(d),
                number |-> IF oneShot THEN 1
                           ELSE Cardinality({e \in out : e.item \in Files /\ e.item <= f})]
    BY <1>2, Zenon DEF BooksFound
  <2> QED
    BY <2>1
<1> QED
  BY <1>1, <1>2

LEMMA InitTree == Init => TreeInv
<1> SUFFICES ASSUME Init PROVE TreeInv
  OBVIOUS
<1>1. \A x \in series \cup books : x.seen = 0
  BY FoundSeen DEF Init, TreeSeries, TreeBooks
<1>2. scan.pc = "idle" /\ scan.run = 0 /\ torn = {}
  BY DEF Init, IdleScan
<1> QED
  BY <1>1, <1>2
  DEF TreeInv, Stamped, Underway, Listed, Between, InPages, Showing, AllShown, Reported, Arrived, Scanning

(* If no file moved, what the pages have shown is the listing. *)
LEMMA ListingShown ==
    ASSUME TypeOK, Listed, scan.pc = "save", settled = Files
    PROVE  scan.out = Listing(scan.dir)
<1>1. scan.dir \in Dirs /\ scan.out \subseteq Listing(scan.dir)
  BY DEF TypeOK, Listed, Showing
<1>2. \A x \in Items(scan.dir) : x \in Seen(scan.out)
  <2>1. torn = {}
    BY DEF Listed, Between
  <2>2. Items(scan.dir) \subseteq Files \cup Dirs
    BY <1>1, ItemsFinite
  <2> QED
    BY <2>1, <2>2 DEF Listed, AllShown
<1>3. ASSUME NEW e \in Listing(scan.dir)
      PROVE  e \in scan.out
  <2>1. PICK x \in Items(scan.dir) : e = [at |-> Position(x, scan.dir), item |-> x]
    BY <1>3 DEF Listing
  <2>2. PICK g \in scan.out : g.item = x
    BY <1>2 DEF Seen
  <2>3. g = [at |-> Position(x, scan.dir), item |-> x]
    BY <1>1, <2>2 DEF Listing
  <2> QED
    BY <2>1, <2>2, <2>3
<1> QED
  BY <1>1, <1>3

(* What a directory's rows are: the ones wanted, if no file moved, and of  *)
(* a file that did not, the right ones.                                    *)
LEMMA FoundRows ==
    ASSUME TypeOK, Listed, scan.pc = "save", NEW ss, NEW bs,
           ss = SeriesFound(scan.oneShot, scan.dir, scan.out, scan.run),
           bs = BooksFound(scan.oneShot, scan.dir, scan.out, scan.run)
    PROVE  /\ settled = Files => ss \subseteq WantedSeries /\ bs \subseteq WantedBooks
           /\ \A s \in ss : s.seen = scan.run
           /\ \A b \in bs : b.seen = scan.run /\ \E s \in ss : s.cid = b.cid
           /\ \A b \in bs : b.file \in settled => place[b.file] \in Dirs /\ b.cid = SeriesOf(b.file)
           /\ scan.dir \notin torn => \A f \in settled : place[f] = scan.dir => \E b \in bs : b.file = f
<1>1. /\ scan.dir \in Dirs /\ FoundFiles(scan.out) \subseteq Files /\ settled \subseteq Files
      /\ Files \cap Dirs = {}
  BY CatalogAssumption DEF TypeOK, FoundFiles, CatalogAssumption
<1>2. /\ \A f \in settled : f \in FoundFiles(scan.out) => place[f] = scan.dir
      /\ scan.dir \notin torn => \A f \in settled : place[f] = scan.dir => f \in FoundFiles(scan.out)
  BY <1>1 DEF Listed, Showing, AllShown, FoundFiles, Items, Comics
<1>3. ASSUME settled = Files
      PROVE  ss \subseteq WantedSeries /\ bs \subseteq WantedBooks
  <2>1. scan.out = Listing(scan.dir)
    BY <1>3, ListingShown
  <2>2. ss \subseteq WantedSeries
    BY <1>1, <2>1 DEF WantedSeries, TreeSeries
  <2>3. bs \subseteq WantedBooks
    BY <1>1, <2>1 DEF WantedBooks, TreeBooks
  <2> QED
    BY <2>2, <2>3
<1>4. \A s \in ss : s.seen = scan.run
  BY FoundSeen
<1>5. ASSUME NEW b \in bs
      PROVE  /\ b.file \in FoundFiles(scan.out) /\ b.seen = scan.run
             /\ b.cid = IF scan.oneShot THEN OneShotCID(b.file) ELSE DirCID(scan.dir)
  <2>1. PICK f \in FoundFiles(scan.out) :
           b = [file |-> f, seen |-> scan.run,
                cid |-> IF scan.oneShot THEN OneShotCID(f) ELSE DirCID(scan.dir),
                number |-> IF scan.oneShot THEN 1
                           ELSE Cardinality({e \in scan.out : e.item \in Files /\ e.item <= f})]
    BY <1>5, Zenon DEF BooksFound
  <2> QED
    BY <2>1
<1>6. ASSUME NEW f \in FoundFiles(scan.out)
      PROVE  \E s \in ss : s.cid = IF scan.oneShot THEN OneShotCID(f) ELSE DirCID(scan.dir)
  <2>1. CASE scan.oneShot
    <3>1. [cid |-> OneShotCID(f), oneShot |-> scan.oneShot, seen |-> scan.run] \in ss
      BY <2>1, <1>6 DEF SeriesFound
    <3> QED
      BY <2>1, <3>1
  <2>2. CASE ~scan.oneShot
    <3>1. [cid |-> DirCID(scan.dir), oneShot |-> scan.oneShot, seen |-> scan.run] \in ss
      BY <2>2, <1>6 DEF SeriesFound
    <3> QED
      BY <2>2, <3>1
  <2> QED
    BY <2>1, <2>2
<1>7. ASSUME NEW f \in FoundFiles(scan.out)
      PROVE  \E b \in bs : b.file = f
  <2> DEFINE c == [file |-> f, seen |-> scan.run,
                   cid |-> IF scan.oneShot THEN OneShotCID(f) ELSE DirCID(scan.dir),
                   number |-> IF scan.oneShot THEN 1
                           ELSE Cardinality({e \in scan.out : e.item \in Files /\ e.item <= f})]
  <2>1. c \in bs
    BY <1>7, Zenon DEF BooksFound
  <2>2. c.file = f
    OBVIOUS
  <2> QED
    BY <2>1, <2>2, Zenon
<1>8. \A b \in bs : b.file \in settled => place[b.file] \in Dirs /\ b.cid = SeriesOf(b.file)
  BY <1>1, <1>2, <1>5 DEF SeriesOf
<1>9. scan.dir \notin torn => \A f \in settled : place[f] = scan.dir => \E b \in bs : b.file = f
  BY <1>2, <1>7
<1> QED
  BY <1>3, <1>4, <1>5, <1>6, <1>8, <1>9

(* The tables s0 and b0 once the directory is saved to them.               *)
LEMMA SavedTruthful ==
    ASSUME TypeOK, Listed, scan.pc = "save", NEW ss, NEW bs, NEW s0, NEW b0,
           ss = SeriesFound(scan.oneShot, scan.dir, scan.out, scan.run),
           bs = BooksFound(scan.oneShot, scan.dir, scan.out, scan.run),
           Truthful({s \in s0 : s.seen = scan.run}, {b \in b0 : b.seen = scan.run})
    PROVE  Truthful({s \in UpsertSeries(s0, ss) : s.seen = scan.run},
                    {b \in UpsertBooks(b0, bs) : b.seen = scan.run})
<1> DEFINE S0 == {s \in s0 : s.seen = scan.run}
           B0 == {b \in b0 : b.seen = scan.run}
           S1 == {s \in UpsertSeries(s0, ss) : s.seen = scan.run}
           B1 == {b \in UpsertBooks(b0, bs) : b.seen = scan.run}
<1>1. /\ settled = Files => ss \subseteq WantedSeries /\ bs \subseteq WantedBooks
      /\ \A s \in ss : s.seen = scan.run
      /\ \A b \in bs : b.seen = scan.run /\ \E s \in ss : s.cid = b.cid
      /\ \A b \in bs : b.file \in settled => place[b.file] \in Dirs /\ b.cid = SeriesOf(b.file)
  BY FoundRows
<1>2. /\ S1 \subseteq S0 \cup ss /\ ss \subseteq S1
      /\ \A s \in S0 : s \in S1 \/ \E t \in ss : t.cid = s.cid
  BY <1>1 DEF UpsertSeries
<1>3. B1 \subseteq B0 \cup bs
  BY DEF UpsertBooks
<1>4. Truthful(S0, B0)
  OBVIOUS
<1> HIDE DEF S0, B0, S1, B1
<1>5. \A s \in S1 : settled = Files => s \in WantedSeries
  BY <1>1, <1>2, <1>4 DEF Truthful
<1>6. \A b \in B1 : /\ b.file \in settled => place[b.file] \in Dirs /\ b.cid = SeriesOf(b.file)
                    /\ settled = Files => b \in WantedBooks
  BY <1>1, <1>3, <1>4 DEF Truthful
<1>7. \A b \in B1 : \E s \in S1 : s.cid = b.cid
  BY <1>1, <1>2, <1>3, <1>4 DEF Truthful
<1>8. Truthful(S1, B1)
  BY <1>5, <1>6, <1>7 DEF Truthful
<1> QED
  BY <1>8 DEF S1, B1

LEMMA SavedComplete ==
    ASSUME TypeOK, Listed, scan.pc = "save", NEW bs, NEW b0, NEW D,
           bs = BooksFound(scan.oneShot, scan.dir, scan.out, scan.run),
           Complete({b \in b0 : b.seen = scan.run}, D \ (torn \cup {scan.dir}))
    PROVE  Complete({b \in UpsertBooks(b0, bs) : b.seen = scan.run}, D \ torn)
<1> DEFINE ss == SeriesFound(scan.oneShot, scan.dir, scan.out, scan.run)
           B0 == {b \in b0 : b.seen = scan.run}
           B1 == {b \in UpsertBooks(b0, bs) : b.seen = scan.run}
<1>1. /\ \A b \in bs : b.seen = scan.run
      /\ scan.dir \notin torn => \A f \in settled : place[f] = scan.dir => \E b \in bs : b.file = f
  BY FoundRows
<1>2. bs \subseteq B1 /\ \A b \in B0 : b \in B1 \/ \E c \in bs : c.file = b.file
  BY <1>1 DEF UpsertBooks
<1>3. \A f \in settled : place[f] \in D \ (torn \cup {scan.dir}) => \E b \in B0 : b.file = f
  BY DEF Complete
<1> HIDE DEF B0, B1
<1>4. \A f \in settled : place[f] \in D \ torn => \E b \in B1 : b.file = f
  BY <1>1, <1>2, <1>3
<1> QED
  BY <1>4 DEF Complete, B1

LEMMA NextStamped == TypeOK /\ ModeInv /\ Stamped /\ [Next]_vars => Stamped'
<1> SUFFICES ASSUME TypeOK, ModeInv, Stamped, [Next]_vars PROVE Stamped'
  OBVIOUS
<1>0. scan.run \in Nat /\ \A x \in series \cup books : x.seen \in Nat
  BY RunIdsType DEF TypeOK, ScanState, SeriesRow, BookRow
<1> USE DEF Stamped
<1>1. CASE StartScan
  <2>1. scan'.run = scan.run + 1 /\ UNCHANGED catalog
    BY <1>1 DEF StartScan, TypeOK, ScanState, IdleScan
  <2> QED
    BY <1>0, <2>1 DEF catalog
<1>2. CASE CheckConversion
  BY <1>2 DEF CheckConversion, TypeOK, ScanState, catalog
<1>3. CASE \E d \in Dirs : ListDirectory(d)
  BY <1>3 DEF ListDirectory, TypeOK, ScanState, catalog
<1>4. CASE ListPage
  BY <1>4, ListPageState DEF ListPage, catalog
<1>5. CASE SaveDirectory
  <2> DEFINE ss == SeriesFound(scan.oneShot, scan.dir, scan.out, scan.run)
             bs == BooksFound(scan.oneShot, scan.dir, scan.out, scan.run)
  <2>1. scan'.pc = "progress" /\ scan'.run = scan.run
    BY <1>5 DEF SaveDirectory, TypeOK, ScanState
  <2>2. \A x \in ss \cup bs : x.seen = scan.run
    BY FoundSeen
  <2>3. \/ UNCHANGED catalog
        \/ series' = UpsertSeries(series, ss) /\ books' = UpsertBooks(books, bs)
    BY <1>5 DEF SaveDirectory
  <2> HIDE DEF ss, bs
  <2>4. \A x \in series' \cup books' : x.seen <= scan.run
    BY <1>0, <2>2, <2>3 DEF UpsertSeries, UpsertBooks, catalog
  <2> QED
    BY <2>1, <2>4
<1>6. CASE UpdateProgress
  <2>1. scan'.pc # "conversion" /\ scan'.run = scan.run /\ UNCHANGED catalog
    BY <1>6, EndState DEF UpdateProgress, TypeOK, ScanState
  <2> QED
    BY <2>1 DEF catalog
<1>7. CASE ScanStops
  <2>1. scan'.pc # "conversion" /\ scan'.run = scan.run /\ UNCHANGED catalog
    BY <1>7, EndState DEF ScanStops
  <2> QED
    BY <2>1 DEF catalog
<1>8. CASE CommitScan
  <2>1. scan'.pc = "finish" /\ scan'.run = scan.run
    BY <1>8 DEF CommitScan, TypeOK, ScanState
  <2>2. \A x \in series' \cup books' : x.seen = scan.run
    BY <1>8 DEF CommitScan, ModeInv, StagingBelongsToScan, NoStaging
  <2> QED
    BY <1>0, <2>1, <2>2
<1>9. CASE DiscardStaging
  BY <1>9 DEF DiscardStaging, TypeOK, ScanState, catalog
<1>10. CASE FinishRun
  BY <1>10 DEF FinishRun, TypeOK, ScanState, catalog
<1>11. CASE CancelScan
  BY <1>11 DEF CancelScan, catalog
<1>12. CASE \E f \in Files, d \in Dirs \cup {None} : MoveFile(f, d)
  BY <1>12 DEF MoveFile, catalog
<1>13. CASE \E oneShot \in BOOLEAN : SetLibrary(oneShot)
  BY <1>13 DEF SetLibrary, catalog
<1>14. CASE DeleteLibrary
  BY <1>14 DEF DeleteLibrary
<1>15. CASE Restart
  BY <1>15 DEF Restart, TypeOK, ScanState, IdleScan, catalog
<1>16. CASE UNCHANGED vars
  BY <1>16 DEF vars, catalog
<1> QED
  BY <1>1, <1>2, <1>3, <1>4, <1>5, <1>6, <1>7, <1>8, <1>9, <1>10, <1>11, <1>12, <1>13, <1>14, <1>15, <1>16
  DEF Next

(* The places of what stays grow with what is there. *)
LEMMA PositionGrows ==
    ASSUME NEW I, NEW J, IsFiniteSet(J), I \subseteq J, NEW x
    PROVE  /\ Cardinality({y \in I : Rank[y] < Rank[x]}) \in Nat
           /\ Cardinality({y \in J : Rank[y] < Rank[x]}) \in Nat
           /\ Cardinality({y \in I : Rank[y] < Rank[x]}) <= Cardinality({y \in J : Rank[y] < Rank[x]})
<1> DEFINE A == {y \in I : Rank[y] < Rank[x]}
           B == {y \in J : Rank[y] < Rank[x]}
<1>1. A \subseteq B /\ B \subseteq J
  OBVIOUS
<1>2. IsFiniteSet(B)
  BY <1>1, FS_Subset
<1>3. IsFiniteSet(A) /\ Cardinality(A) <= Cardinality(B)
  BY <1>1, <1>2, FS_Subset
<1> QED
  BY <1>2, <1>3, FS_CardinalityType

(* A file's move hides nothing of the list but what it says of itself. *)
LEMMA MoveListed ==
    ASSUME TypeOK, Listed, NEW f \in Files, NEW d \in Dirs \cup {None}, MoveFile(f, d)
    PROVE  Listed'
<1>1. /\ place[f] # d /\ place' = [place EXCEPT ![f] = d] /\ settled' = settled \ {f}
      /\ torn' = torn \cup {e \in Dirs : e = place[f] /\ e = scan.dir /\ scan.pc = "page" /\ scan.offset > 0}
      /\ UNCHANGED scan
  BY DEF MoveFile
<1>2. place \in [Files -> Dirs \cup {None}] /\ settled \subseteq Files /\ settled' # Files
  BY <1>1 DEF TypeOK
<1>3. \A g \in Files : g # f => place'[g] = place[g]
  BY <1>1, <1>2
<1>4. Between' /\ Showing'
  BY <1>1, <1>2, <1>3 DEF Listed, Between, Showing, Waiting
<1>5. ASSUME NEW x \in Items(scan.dir)', x \in settled' \cup Dirs, scan.dir \in Dirs
      PROVE  x \in Items(scan.dir) /\ x \in settled \cup Dirs
  BY <1>1, <1>2, <1>3, <1>5, CatalogAssumption DEF Items, Comics, CatalogAssumption
<1>6. AllShown'
  BY <1>1, <1>5 DEF TypeOK, Listed, AllShown
<1>7. ASSUME scan.pc = "page", scan.dir \notin torn',
             NEW x \in Items(scan.dir)', x \in settled' \cup Dirs, Position(x, scan.dir)' < scan.offset
      PROVE  x \in Seen(scan.out)
  <2>1. scan.dir \in Dirs /\ scan.dir \notin torn /\ scan.offset \in Nat
    BY <1>1, <1>7 DEF TypeOK, ScanState
  <2>2. IsFiniteSet(Files \cup Dirs) /\ Items(scan.dir)' \subseteq Files \cup Dirs
    <3>1. Items(scan.dir)' = {g \in Files : place'[g] = scan.dir} \cup Children[scan.dir]
      BY <1>1 DEF Items, Comics
    <3> QED
      BY <2>1, <3>1, FS_Union, CatalogAssumption DEF CatalogAssumption
  <2>3. IsFiniteSet(Items(scan.dir)')
    BY <2>2, FS_Subset
  <2>4. Position(x, scan.dir)' = Cardinality({y \in Items(scan.dir)' : Rank[y] < Rank[x]})
    BY <1>1 DEF Position
  <2>5. Position(x, scan.dir)' \in Nat
    BY <2>3, <2>4, PositionGrows
  <2>6. place[f] # scan.dir
    BY <1>1, <1>7, <2>1, <2>5
  <2>7. Items(scan.dir) \subseteq Items(scan.dir)'
    BY <1>1, <1>3, <2>6 DEF Items, Comics
  <2>8. Position(x, scan.dir) \in Nat /\ Position(x, scan.dir) <= Position(x, scan.dir)'
    BY <2>3, <2>4, <2>7, PositionGrows DEF Position
  <2>9. Position(x, scan.dir) < scan.offset
    BY <1>7, <2>1, <2>5, <2>8
  <2> QED
    BY <1>5, <1>7, <2>1, <2>9 DEF Listed, InPages, Shown
<1>8. InPages'
  <2> SUFFICES ASSUME scan.pc = "page" PROVE InPages'
    BY <1>1 DEF InPages
  <2>1. Shown(scan.offset)'
    BY <1>1, <1>7 DEF Shown
  <2> QED
    BY <1>1, <2>1 DEF Listed, InPages
<1> QED
  BY <1>4, <1>6, <1>8 DEF Listed

(* A page: what it shows are entries of the directory, and when it is the  *)
(* last one, all that did not move have been shown.                        *)
LEMMA PageListed ==
    ASSUME TypeOK, Listed, ListPage
    PROVE  Listed'
<1> DEFINE d == scan.dir
<1>1. PICK page, out :
        /\ page = Page(scan.dir, scan.offset) /\ out = scan.out \cup page
        /\ out \in SUBSET Entry /\ IsFiniteSet(out)
        /\ scan' \in ScanState /\ scan'.dir = scan.dir /\ scan'.out = out
        /\ scan'.run = scan.run /\ scan'.oneShot = scan.oneShot
        /\ scan'.staged = scan.staged /\ scan'.outcome = scan.outcome
        /\ \/ LastPage(page, out) /\ scan'.pc = "save" /\ scan'.offset = 0
           \/ /\ ~LastPage(page, out) /\ scan'.pc = "page"
              /\ scan'.offset = scan.offset + PageSize /\ scan'.todo = scan.todo
  BY ListPageCase
<1>2. /\ scan.pc = "page" /\ d \in Dirs /\ scan.offset \in Nat /\ PageSize \in Nat \ {0}
      /\ UNCHANGED <<place, settled, torn>>
      /\ place \in [Files -> Dirs \cup {None}] /\ settled \subseteq Files
      /\ Files \cap Dirs = {}
  BY CatalogAssumption DEF ListPage, TypeOK, ScanState, CatalogAssumption, history
<1>3. /\ \A e \in page : /\ e.item \in Items(d) /\ e.at = Position(e.item, d)
                         /\ e.at >= scan.offset /\ e.at < scan.offset + PageSize
      /\ page \subseteq Listing(d)
  BY <1>1, <1>2, PageType DEF Page
<1>4. \A e \in out : e.at \in Nat
  BY <1>1 DEF Entry
<1>5. /\ \A e \in scan.out : e.at < scan.offset
      /\ \A e, g \in scan.out : e.at = g.at => e = g
      /\ Shown(scan.offset)
  BY <1>2 DEF Listed, InPages
<1>6. \A e \in out : e.at < scan.offset + PageSize
  BY <1>1, <1>2, <1>3, <1>4, <1>5
<1>7. ASSUME NEW e \in out, NEW g \in out, e.at = g.at
      PROVE  e = g
  <2>1. CASE e \in page /\ g \in page
    <3>1. e.item = g.item
      BY <1>2, <1>3, <1>7, <2>1, PositionOnce
    <3> QED
      BY <1>1, <1>7, <3>1 DEF Entry
  <2>2. CASE ~(e \in page /\ g \in page)
    <3>1. e \in scan.out /\ g \in scan.out
      BY <1>1, <1>2, <1>3, <1>4, <1>5, <1>7, <2>2
    <3> QED
      BY <1>5, <1>7, <3>1
  <2> QED
    BY <2>1, <2>2
<1>8. ASSUME NEW x \in Items(d), Position(x, d) < scan.offset + PageSize, d \notin torn, x \in settled \cup Dirs
      PROVE  x \in Seen(out)
  <2>1. Position(x, d) \in Nat
    BY <1>2, PositionType
  <2>2. CASE Position(x, d) < scan.offset
    BY <1>1, <1>5, <1>8, <2>2 DEF Shown, Seen
  <2>3. CASE Position(x, d) >= scan.offset
    <3>1. [at |-> Position(x, d), item |-> x] \in page
      BY <1>1, <1>8, <2>3 DEF Page, Listing
    <3> QED
      BY <1>1, <3>1 DEF Seen
  <2> QED
    BY <1>2, <2>1, <2>2, <2>3
<1>9. Showing'
  <2>1. \A f \in settled : f \in Seen(out) => place[f] = d
    <3>1. \A f \in settled : f \in Seen(scan.out) => place[f] = d
      BY <1>2 DEF Listed, Showing
    <3>2. ASSUME NEW f \in settled, NEW e \in page, e.item = f
          PROVE  place[f] = d
      <4>1. f \in Items(d) /\ f \notin Dirs
        BY <1>2, <1>3, <3>2
      <4>2. Children[d] \subseteq Dirs
        BY <1>2, CatalogAssumption DEF CatalogAssumption
      <4> QED
        BY <4>1, <4>2 DEF Items, Comics
    <3> QED
      BY <1>1, <3>1, <3>2 DEF Seen
  <2>2. settled = Files => out \subseteq Listing(d)
    BY <1>1, <1>2, <1>3 DEF Listed, Showing
  <2>3. Listing(scan.dir)' = Listing(d)
    BY <1>1, <1>2 DEF Listing, Position, Items, Comics
  <2> QED
    BY <1>1, <1>2, <2>1, <2>2, <2>3 DEF Showing
<1>10. Items(scan.dir)' = Items(d) /\ \A x : Position(x, scan.dir)' = Position(x, d)
  BY <1>1, <1>2 DEF Position, Items, Comics
<1>11. CASE LastPage(page, out) /\ scan'.pc = "save" /\ scan'.offset = 0
  <2>1. ASSUME NEW x \in Items(d)
        PROVE  Position(x, d) < scan.offset + PageSize
    <3>1. Position(x, d) \in Nat /\ Cardinality(Items(d)) \in Nat /\ Position(x, d) < Cardinality(Items(d))
      BY <1>2, PositionType
    <3>2. CASE page = {}
      <4>1. Position(x, d) < scan.offset
        BY <1>1, <1>2, <3>2, EmptyPage
      <4> QED
        BY <1>2, <3>1, <4>1
    <3>3. CASE Cardinality(out) >= Cardinality(Items(d))
      <4>1. scan.offset + PageSize \in Nat
        BY <1>2
      <4>2. Cardinality(out) \in Nat /\ Cardinality(out) <= scan.offset + PageSize
        BY <1>1, <1>6, <1>7, <4>1, OutCount
      <4> QED
        BY <3>1, <3>3, <4>1, <4>2
    <3> QED
      BY <1>11, <3>2, <3>3 DEF LastPage
  <2>2. AllShown'
    BY <1>1, <1>2, <1>8, <1>10, <2>1 DEF AllShown
  <2>4. Between' /\ InPages'
    BY <1>2, <1>11 DEF Listed, Between, InPages
  <2> QED
    BY <1>9, <2>2, <2>4 DEF Listed
<1>12. CASE ~LastPage(page, out) /\ scan'.pc = "page" /\ scan'.offset = scan.offset + PageSize
  <2>1. Shown(scan.offset)'
    BY <1>1, <1>2, <1>8, <1>10, <1>12 DEF Shown
  <2>2. InPages'
    BY <1>1, <1>6, <1>7, <1>12, <2>1 DEF InPages
  <2>3. Between' /\ AllShown'
    BY <1>2, <1>12 DEF Listed, Between, AllShown
  <2> QED
    BY <1>9, <2>2, <2>3 DEF Listed
<1> QED
  BY <1>1, <1>11, <1>12

LEMMA ListedKept ==
    ASSUME Listed, UNCHANGED <<place, scan, settled, torn>>
    PROVE  Listed'
BY DEF Listed, Between, InPages, Showing, AllShown, Shown, Waiting, Items, Comics, Position, Listing

LEMMA NextListed == TypeOK /\ Listed /\ [Next]_vars => Listed'
<1> SUFFICES ASSUME TypeOK, Listed, [Next]_vars PROVE Listed'
  OBVIOUS
<1> USE DEF Listed, Between, InPages, Showing, AllShown
<1>1. CASE StartScan
  BY <1>1 DEF StartScan, TypeOK, ScanState, IdleScan
<1>2. CASE CheckConversion
  <2>1. /\ scan.pc = "conversion" /\ scan'.pc = "list" /\ scan'.dir = scan.dir
        /\ scan'.offset = scan.offset /\ scan'.out = scan.out /\ UNCHANGED history
    BY <1>2 DEF CheckConversion, TypeOK, ScanState
  <2> QED
    BY <2>1 DEF history
<1>3. CASE \E d \in Dirs : ListDirectory(d)
  <2>1. PICK d \in Dirs : ListDirectory(d)
    BY <1>3
  <2>2. /\ scan.pc = "list" /\ scan'.pc = "page" /\ scan'.dir = d
        /\ scan'.offset = 0 /\ scan'.out = {} /\ UNCHANGED history
    BY <2>1 DEF ListDirectory, TypeOK, ScanState
  <2>3. place' = place
    BY <2>1 DEF ListDirectory
  <2>4. Shown(0)'
    <3>1. \A x \in Items(d) : ~(Position(x, d) < 0)
      BY PositionType
    <3>2. Items(scan.dir)' = Items(d) /\ \A x : Position(x, scan.dir)' = Position(x, d)
      BY <2>2, <2>3 DEF Position, Items, Comics
    <3> QED
      BY <3>1, <3>2 DEF Shown
  <2> QED
    BY <2>2, <2>4 DEF Seen, history
<1>4. CASE ListPage
  BY <1>4, PageListed
<1>5. CASE SaveDirectory
  BY <1>5 DEF SaveDirectory, TypeOK, ScanState, history
<1>6. CASE UpdateProgress
  <2>1. CASE status[scan.run] = "running" /\ ~cancel
    <3>1. /\ scan.pc = "progress" /\ scan'.pc \in {"list", "commit"} /\ scan'.dir = scan.dir
          /\ scan'.offset = scan.offset /\ scan'.out = scan.out /\ UNCHANGED history
          /\ scan'.pc = "commit" => scan'.todo = NoDirs
      BY <1>6, <2>1 DEF UpdateProgress, TypeOK, ScanState
    <3>2. scan'.pc = "commit" => Waiting' = {}
      BY <3>1 DEF Waiting, NoDirs
    <3> QED
      BY <3>1, <3>2 DEF history
  <2>2. CASE ~(status[scan.run] = "running" /\ ~cancel)
    BY <1>6, <2>2, EndState DEF UpdateProgress, history
  <2> QED
    BY <2>1, <2>2
<1>7. CASE ScanStops
  BY <1>7, EndState DEF ScanStops, history
<1>8. CASE CommitScan
  BY <1>8 DEF CommitScan, TypeOK, ScanState, history
<1>9. CASE DiscardStaging
  BY <1>9 DEF DiscardStaging, TypeOK, ScanState, history
<1>10. CASE FinishRun
  BY <1>10 DEF FinishRun, TypeOK, ScanState, history
<1>11. CASE CancelScan
  <2>1. UNCHANGED <<place, scan, settled, torn>>
    BY <1>11 DEF CancelScan, history
  <2> QED
    BY <2>1, ListedKept
<1>12. CASE \E f \in Files, d \in Dirs \cup {None} : MoveFile(f, d)
  BY <1>12, MoveListed
<1>13. CASE \E oneShot \in BOOLEAN : SetLibrary(oneShot)
  <2>1. UNCHANGED <<place, scan, settled, torn>>
    BY <1>13 DEF SetLibrary, history
  <2> QED
    BY <2>1, ListedKept
<1>14. CASE DeleteLibrary
  <2>1. UNCHANGED <<place, scan, settled, torn>>
    BY <1>14 DEF DeleteLibrary, history
  <2> QED
    BY <2>1, ListedKept
<1>15. CASE Restart
  BY <1>15 DEF Restart, TypeOK, ScanState, IdleScan, history
<1>16. CASE UNCHANGED vars
  <2>1. UNCHANGED <<place, scan, settled, torn>>
    BY <1>16 DEF vars, history
  <2> QED
    BY <2>1, ListedKept
<1> QED
  BY <1>1, <1>2, <1>3, <1>4, <1>5, <1>6, <1>7, <1>8, <1>9, <1>10, <1>11, <1>12, <1>13, <1>14, <1>15, <1>16
  DEF Next

LEMMA NextReported == TypeOK /\ Reported /\ [Next]_vars => Reported'
<1> SUFFICES ASSUME TypeOK, Reported, [Next]_vars PROVE Reported'
  OBVIOUS
<1> USE DEF Reported
<1>0. scan.run \in RunIds /\ status \in [RunIds -> {"none", "running", "success", "failed", "canceled", "gone"}]
  BY DEF TypeOK, ScanState
<1>1. CASE StartScan
  <2>1. scan.run + 1 \in RunIds
    BY <1>0, <1>1, RunIdsType DEF StartScan, RunIds
  <2>2. scan'.run = scan.run + 1
    BY <1>1 DEF StartScan, TypeOK, ScanState, IdleScan
  <2>3. status'[scan.run + 1] = "running"
    BY <1>0, <1>1, <2>1 DEF StartScan
  <2> QED
    BY <2>2, <2>3
<1>2. CASE CheckConversion
  BY <1>2 DEF CheckConversion, TypeOK, ScanState
<1>3. CASE \E d \in Dirs : ListDirectory(d)
  BY <1>3 DEF ListDirectory, TypeOK, ScanState
<1>4. CASE ListPage
  BY <1>4, ListPageState DEF ListPage
<1>5. CASE SaveDirectory
  BY <1>5 DEF SaveDirectory, TypeOK, ScanState
<1>6. CASE UpdateProgress
  <2>1. scan.pc # "idle" /\ scan'.run = scan.run /\ UNCHANGED status
    BY <1>6, EndState DEF UpdateProgress, TypeOK, ScanState
  <2> QED
    BY <2>1
<1>7. CASE ScanStops
  <2>1. scan.pc # "idle" /\ scan'.run = scan.run /\ UNCHANGED status
    BY <1>7, EndState DEF ScanStops
  <2> QED
    BY <2>1
<1>8. CASE CommitScan
  BY <1>8 DEF CommitScan, TypeOK, ScanState
<1>9. CASE DiscardStaging
  BY <1>9 DEF DiscardStaging, TypeOK, ScanState
<1>10. CASE FinishRun
  <2>1. /\ scan.pc = "finish" /\ scan'.pc = "idle"
        /\ scan'.run = scan.run /\ scan'.outcome = scan.outcome
    BY <1>10 DEF FinishRun, TypeOK, ScanState
  <2>2. status'[scan.run] = IF status[scan.run] = "running" THEN scan.outcome ELSE status[scan.run]
    BY <1>0, <1>10 DEF FinishRun
  <2> QED
    BY <2>1, <2>2
<1>11. CASE CancelScan
  BY <1>11 DEF CancelScan
<1>12. CASE \E f \in Files, d \in Dirs \cup {None} : MoveFile(f, d)
  BY <1>12 DEF MoveFile
<1>13. CASE \E oneShot \in BOOLEAN : SetLibrary(oneShot)
  BY <1>13 DEF SetLibrary
<1>14. CASE DeleteLibrary
  BY <1>0, <1>14 DEF DeleteLibrary
<1>15. CASE Restart
  <2>1. scan'.pc = "idle" /\ scan'.run = scan.run /\ scan'.outcome = scan.outcome
    BY <1>15 DEF Restart, TypeOK, ScanState, IdleScan
  <2>2. status'[scan.run] = "success" => status[scan.run] = "success"
    BY <1>0, <1>15 DEF Restart
  <2> QED
    BY <2>1, <2>2
<1>16. CASE UNCHANGED vars
  BY <1>16 DEF vars
<1> QED
  BY <1>1, <1>2, <1>3, <1>4, <1>5, <1>6, <1>7, <1>8, <1>9, <1>10, <1>11, <1>12, <1>13, <1>14, <1>15, <1>16
  DEF Next

(* A step that moves no file the run still counts on. *)
SameView ==
    /\ settled' \subseteq settled
    /\ \A f \in settled' : place'[f] = place[f]
    /\ settled' = Files => settled = Files /\ place' = place
    /\ torn \subseteq torn'
    /\ scan'.oneShot = scan.oneShot /\ scan'.run = scan.run

LEMMA WantedKept ==
    ASSUME place' = place, scan'.oneShot = scan.oneShot, scan'.run = scan.run
    PROVE  WantedSeries' = WantedSeries /\ WantedBooks' = WantedBooks
<1>1. \A d \in Dirs : Listing(d)' = Listing(d)
  BY DEF Listing, Position, Items, Comics
<1> QED
  BY <1>1 DEF WantedSeries, WantedBooks, TreeSeries, TreeBooks

LEMMA RowsKept ==
    ASSUME SameView, NEW ss, NEW bs, Truthful(ss, bs)
    PROVE  /\ \A s \in ss : settled' = Files => s \in WantedSeries'
           /\ \A b \in bs :
                /\ b.file \in settled' =>
                      /\ place'[b.file] \in Dirs
                      /\ b.cid = IF scan'.oneShot THEN OneShotCID(b.file) ELSE DirCID(place'[b.file])
                /\ settled' = Files => b \in WantedBooks'
                /\ \E s \in ss : s.cid = b.cid
<1>1. settled' = Files => WantedSeries' = WantedSeries /\ WantedBooks' = WantedBooks
  BY WantedKept DEF SameView
<1> QED
  BY <1>1 DEF Truthful, SameView, SeriesOf

LEMMA CompleteKept ==
    ASSUME SameView, NEW bs, NEW D, Complete(bs, D)
    PROVE  \A f \in settled' : place'[f] \in D => \E b \in bs : b.file = f
BY DEF Complete, SameView

LEMMA ArrivedKept ==
    ASSUME Arrived, SameView, UNCHANGED catalog, scan'.outcome = scan.outcome,
           status'[scan.run] \in {"running", "success"} => status[scan.run] \in {"running", "success"}
    PROVE  Arrived'
<1> SUFFICES ASSUME scan'.run > 0, scan'.outcome = "success", status'[scan'.run] \in {"running", "success"}
             PROVE  /\ Truthful(series, books)'
                    /\ \E D \in SUBSET Dirs : Closed(D)' /\ Complete(books, D \ torn)'
  BY DEF Arrived
<1>1. Truthful(series, books) /\ \E D \in SUBSET Dirs : Closed(D) /\ Complete(books, D \ torn)
  BY DEF Arrived, SameView
<1>2. Truthful(series, books)'
  BY <1>1, RowsKept DEF Truthful, SeriesOf, catalog
<1>3. PICK D \in SUBSET Dirs : Closed(D) /\ Complete(books, D \ torn)
  BY <1>1
<1>4. Closed(D)'
  BY <1>3 DEF Closed, SameView
<1>5. \A f \in settled' : place'[f] \in D \ torn => \E b \in books : b.file = f
  BY <1>3, CompleteKept
<1>6. Complete(books, D \ torn)'
  BY <1>5 DEF Complete, SameView, catalog
<1> QED
  BY <1>2, <1>4, <1>6

(* All directories have been explored, so the rows of the run, which are   *)
(* all that the commit leaves, are the tree's.                             *)
LEMMA CommitArrives ==
    ASSUME TypeOK, ModeInv, Underway, Listed, CommitScan, status[scan.run] = "running"
    PROVE  /\ Truthful(series, books)'
           /\ \E D \in SUBSET Dirs : Closed(D)' /\ Complete(books, D \ torn)'
<1>1. scan.pc = "commit" /\ Waiting = {} /\ Unlisted = {} /\ scan.dir = None
  BY DEF CommitScan, Listed, Between, Unlisted
<1>2. Truthful(FreshSeries, FreshBooks) /\ \E D \in SUBSET Dirs : Explored(D)
  BY <1>1 DEF Underway, Scanning
<1>3. PICK D \in SUBSET Dirs : Explored(D)
  BY <1>2
<1>4. Closed(D)
  BY <1>1, <1>3 DEF Explored, Closed
<1>5. Complete(FreshBooks, D \ torn)
  <2>1. D \ (torn \cup {scan.dir}) = D \ torn
    BY <1>1, CatalogAssumption DEF CatalogAssumption
  <2> QED
    BY <1>3, <2>1 DEF Explored
<1>6. series' = FreshSeries /\ books' = FreshBooks
  <2>1. CASE scan.staged
    <3>1. series' = staged.series /\ books' = staged.books
      BY <2>1 DEF CommitScan
    <3>2. \A x \in staged.series \cup staged.books : x.seen = scan.run
      BY DEF ModeInv, StagingBelongsToScan, NoStaging
    <3> QED
      BY <2>1, <3>1, <3>2 DEF FreshSeries, FreshBooks
  <2>2. CASE ~scan.staged
    <3>1. /\ series' = {s \in series : s.seen = scan.run}
          /\ books' = {b \in books : b.seen = scan.run /\ \E s \in series' : s.cid = b.cid}
      BY <2>2 DEF CommitScan
    <3>2. series' = FreshSeries
      BY <2>2, <3>1 DEF FreshSeries
    <3>3. \A b \in FreshBooks : \E s \in FreshSeries : s.cid = b.cid
      BY <1>2 DEF Truthful
    <3> QED
      BY <2>2, <3>1, <3>2, <3>3 DEF FreshBooks
  <2> QED
    BY <2>1, <2>2
<1>7. SameView
  BY DEF CommitScan, SameView, history, TypeOK, ScanState
<1>8. Truthful(series, books)'
  BY <1>2, <1>6, <1>7, RowsKept DEF Truthful, SeriesOf
<1>9. \A f \in settled' : place'[f] \in D \ torn => \E b \in FreshBooks : b.file = f
  BY <1>5, <1>7, CompleteKept
<1>10. torn' = torn
  BY DEF CommitScan, history
<1>11. Complete(books, D \ torn)'
  BY <1>6, <1>9, <1>10 DEF Complete
<1>12. Closed(D)'
  BY <1>4, <1>10 DEF Closed
<1> QED
  BY <1>8, <1>11, <1>12

LEMMA MoveView ==
    ASSUME TypeOK, NEW f \in Files, NEW d, MoveFile(f, d)
    PROVE  SameView
BY DEF MoveFile, SameView, TypeOK

LEMMA NextArrived ==
    TypeOK /\ ModeInv /\ KeepInv /\ TreeInv /\ [Next]_vars => Arrived'
<1> SUFFICES ASSUME TypeOK, ModeInv, KeepInv, TreeInv, [Next]_vars PROVE Arrived'
  OBVIOUS
<1>0. /\ scan.run \in RunIds /\ status \in [RunIds -> {"none", "running", "success", "failed", "canceled", "gone"}]
      /\ scan.pc \in Working => scan.outcome = "none"
      /\ Underway /\ Listed /\ Arrived
  BY DEF TypeOK, ScanState, KeepInv, TreeInv
<1>1. CASE StartScan
  <2>1. scan'.outcome = "none"
    BY <1>1 DEF StartScan, TypeOK, ScanState, IdleScan
  <2> QED
    BY <2>1 DEF Arrived
<1>2. CASE CheckConversion
  BY <1>0, <1>2 DEF CheckConversion, TypeOK, ScanState, Arrived, Working
<1>3. CASE \E d \in Dirs : ListDirectory(d)
  BY <1>0, <1>3 DEF ListDirectory, TypeOK, ScanState, Arrived, Working
<1>4. CASE ListPage
  BY <1>0, <1>4, ListPageState DEF Arrived, Working
<1>5. CASE SaveDirectory
  BY <1>0, <1>5 DEF SaveDirectory, TypeOK, ScanState, Arrived, Working
<1>6. CASE UpdateProgress
  <2>1. scan'.outcome # "success"
    BY <1>0, <1>6 DEF UpdateProgress, End, TypeOK, ScanState, Working
  <2> QED
    BY <2>1 DEF Arrived
<1>7. CASE ScanStops
  <2>1. scan'.outcome # "success"
    BY <1>7 DEF ScanStops, End, TypeOK, ScanState
  <2> QED
    BY <2>1 DEF Arrived
<1>8. CASE CommitScan
  <2>1. CASE status[scan.run] = "running"
    BY <1>0, <1>8, <2>1, CommitArrives DEF Arrived
  <2>2. CASE status[scan.run] # "running"
    <3>1. scan'.run = scan.run /\ scan.pc = "commit" /\ UNCHANGED status
      BY <1>8 DEF CommitScan, TypeOK, ScanState
    <3>2. ~(scan.run > 0 /\ status[scan.run] = "success")
      BY <3>1 DEF TreeInv, Reported
    <3> QED
      BY <2>2, <3>1, <3>2 DEF Arrived
  <2> QED
    BY <2>1, <2>2
<1>9. CASE DiscardStaging
  <2>1. SameView /\ UNCHANGED <<catalog, status>> /\ scan'.outcome = scan.outcome
    BY <1>9 DEF DiscardStaging, SameView, TypeOK, ScanState, history
  <2> QED
    BY <1>0, <2>1, ArrivedKept
<1>10. CASE FinishRun
  <2>1. SameView /\ UNCHANGED catalog /\ scan'.outcome = scan.outcome
    BY <1>10 DEF FinishRun, SameView, TypeOK, ScanState, history
  <2>2. status[scan.run] # "running" => status' = status
    BY <1>10 DEF FinishRun
  <2> QED
    BY <1>0, <2>1, <2>2, ArrivedKept
<1>11. CASE CancelScan
  <2>1. SameView /\ UNCHANGED <<catalog, status, scan>>
    BY <1>11 DEF CancelScan, SameView, history
  <2> QED
    BY <1>0, <2>1, ArrivedKept
<1>12. CASE \E f \in Files, d \in Dirs \cup {None} : MoveFile(f, d)
  <2>1. SameView /\ UNCHANGED <<catalog, status, scan>>
    BY <1>12, MoveView DEF MoveFile
  <2> QED
    BY <1>0, <2>1, ArrivedKept
<1>13. CASE \E oneShot \in BOOLEAN : SetLibrary(oneShot)
  <2>1. SameView /\ UNCHANGED <<catalog, status, scan>>
    BY <1>13 DEF SetLibrary, SameView, history
  <2> QED
    BY <1>0, <2>1, ArrivedKept
<1>14. CASE DeleteLibrary
  <2>1. status'[scan.run] \in {"none", "gone"} /\ scan' = scan
    BY <1>0, <1>14 DEF DeleteLibrary
  <2> QED
    BY <2>1 DEF Arrived
<1>15. CASE Restart
  <2>1. SameView /\ UNCHANGED catalog /\ scan'.outcome = scan.outcome
    BY <1>15 DEF Restart, SameView, TypeOK, ScanState, IdleScan, history
  <2>2. status'[scan.run] \in {"running", "success"} => status[scan.run] = "success"
    BY <1>0, <1>15 DEF Restart
  <2> QED
    BY <1>0, <2>1, <2>2, ArrivedKept
<1>16. CASE UNCHANGED vars
  <2>1. SameView /\ UNCHANGED <<catalog, status, scan>>
    BY <1>16 DEF vars, SameView, history
  <2> QED
    BY <1>0, <2>1, ArrivedKept
<1> QED
  BY <1>1, <1>2, <1>3, <1>4, <1>5, <1>6, <1>7, <1>8, <1>9, <1>10, <1>11, <1>12, <1>13, <1>14, <1>15, <1>16
  DEF Next

LEMMA UnderwayKept ==
    ASSUME Underway, SameView, UNCHANGED <<catalog, staged>>, scan.pc \in Scanning,
           scan'.staged = scan.staged, scan'.dir = scan.dir,
           Waiting \subseteq Waiting', Unlisted' = Unlisted,
           status'[scan.run] = "running" => status[scan.run] = "running"
    PROVE  Underway'
<1> SUFFICES ASSUME status'[scan'.run] = "running"
             PROVE  Truthful(FreshSeries, FreshBooks)' /\ \E D \in SUBSET Dirs : Explored(D)'
  BY DEF Underway
<1>1. FreshSeries' = FreshSeries /\ FreshBooks' = FreshBooks
  BY DEF FreshSeries, FreshBooks, catalog, SameView
<1>2. Truthful(FreshSeries, FreshBooks) /\ \E D \in SUBSET Dirs : Explored(D)
  BY DEF Underway, SameView
<1>3. Truthful(FreshSeries, FreshBooks)'
  BY <1>1, <1>2, RowsKept DEF Truthful, SeriesOf
<1>4. PICK D \in SUBSET Dirs : Explored(D)
  BY <1>2
<1>5. \A f \in settled' : place'[f] \in D \ (torn \cup {scan.dir}) => \E b \in FreshBooks : b.file = f
  BY <1>4, CompleteKept DEF Explored
<1>6. Complete(FreshBooks, D \ (torn \cup {scan.dir}))'
  BY <1>1, <1>5 DEF Complete, SameView
<1>7. Explored(D)'
  BY <1>4, <1>6 DEF Explored, SameView
<1> QED
  BY <1>3, <1>4, <1>7

(* The conversion check comes before the run's first row. *)
LEMMA CheckUnderway ==
    ASSUME TypeOK, ModeInv, Stamped, Listed, CheckConversion
    PROVE  Underway'
<1>1. /\ scan.pc = "conversion" /\ scan'.todo = [scan.todo EXCEPT ![Root] = 1] /\ scan'.run = scan.run
      /\ UNCHANGED <<catalog, staged>>
  BY DEF CheckConversion, TypeOK, ScanState
<1>2. staged = NoStaging
  BY <1>1 DEF ModeInv, StagingBelongsToScan
<1>3. \A x \in series \cup books : x.seen # scan.run
  BY <1>1 DEF Stamped
<1>4. FreshSeries' = {} /\ FreshBooks' = {}
  BY <1>1, <1>2, <1>3 DEF FreshSeries, FreshBooks, NoStaging, catalog
<1>5. Truthful(FreshSeries, FreshBooks)'
  BY <1>4 DEF Truthful
<1>6. Root \in Waiting'
  BY <1>1, CatalogAssumption DEF Waiting, CatalogAssumption, TypeOK, ScanState
<1>7. Explored({})'
  BY <1>4, <1>6 DEF Explored, Complete
<1> QED
  BY <1>5, <1>7 DEF Underway

LEMMA ListUnderway ==
    ASSUME TypeOK, Underway, Listed, NEW d \in Dirs, ListDirectory(d)
    PROVE  Underway'
<1> SUFFICES ASSUME status'[scan'.run] = "running"
             PROVE  Truthful(FreshSeries, FreshBooks)' /\ \E D \in SUBSET Dirs : Explored(D)'
  BY DEF Underway
<1>1. /\ scan.pc = "list" /\ scan.todo[d] > 0 /\ scan.dir = None
      /\ scan'.pc = "page" /\ scan'.dir = d /\ scan'.todo = [scan.todo EXCEPT ![d] = scan.todo[d] - 1]
      /\ scan'.run = scan.run /\ scan'.oneShot = scan.oneShot /\ scan'.staged = scan.staged
      /\ UNCHANGED <<place, catalog, staged, status, settled, torn>>
  BY DEF ListDirectory, Listed, Between, TypeOK, ScanState, history
<1>2. FreshSeries' = FreshSeries /\ FreshBooks' = FreshBooks
  BY <1>1 DEF FreshSeries, FreshBooks, catalog
<1>3. Truthful(FreshSeries, FreshBooks) /\ \E D \in SUBSET Dirs : Explored(D)
  BY <1>1 DEF Underway, Scanning
<1>4. SameView
  BY <1>1 DEF SameView
<1>5. Truthful(FreshSeries, FreshBooks)'
  BY <1>2, <1>3, <1>4, RowsKept DEF Truthful, SeriesOf
<1>6. PICK D \in SUBSET Dirs : Explored(D)
  BY <1>3
<1> DEFINE E == D \cup {d}
<1>7. Complete(FreshBooks, E \ (torn \cup {d}))
  <2>1. E \ (torn \cup {d}) \subseteq D \ (torn \cup {scan.dir})
    BY <1>1, CatalogAssumption DEF CatalogAssumption
  <2> QED
    BY <1>6, <2>1 DEF Explored, Complete
<1>8. \A f \in settled' : place'[f] \in E \ (torn \cup {d}) => \E b \in FreshBooks : b.file = f
  BY <1>4, <1>7, CompleteKept
<1>9. Waiting \subseteq Waiting' \cup {d} /\ Unlisted = {} /\ Unlisted' = {d}
  BY <1>1 DEF Waiting, Unlisted, TypeOK, ScanState
<1>10. Root \in E \cup Waiting'
  BY <1>6, <1>9 DEF Explored
<1>11. \A e \in E \ (torn \cup {d}) : Children[e] \subseteq E \cup Waiting'
  BY <1>6, <1>9 DEF Explored
<1>12. Complete(FreshBooks, E \ (torn \cup {scan.dir}))'
  BY <1>1, <1>2, <1>8 DEF Complete
<1> HIDE DEF E
<1>13. Explored(E)'
  BY <1>1, <1>9, <1>10, <1>11, <1>12 DEF Explored
<1>14. E \in SUBSET Dirs
  BY DEF E
<1> QED
  BY <1>5, <1>13, <1>14

(* After a page, and after the last one the directory's subdirectories wait. *)
LEMMA PageUnderway ==
    ASSUME TypeOK, Underway, Listed, ListPage
    PROVE  Underway'
<1>1. PICK page, out :
        /\ scan' \in ScanState /\ scan'.dir = scan.dir /\ scan'.out = out
        /\ scan'.run = scan.run /\ scan'.oneShot = scan.oneShot /\ scan'.staged = scan.staged
        /\ \/ /\ scan'.pc = "save"
              /\ \A d \in Dirs : scan.todo[d] > 0 \/ d \in Seen(out) => scan'.todo[d] > 0
           \/ scan'.pc = "page" /\ scan'.todo = scan.todo
  BY ListPageCase
<1>2. /\ scan.pc = "page" /\ scan.dir \in Dirs /\ scan.todo \in [Dirs -> Nat]
      /\ UNCHANGED <<place, catalog, staged, status, settled, torn>>
  BY DEF ListPage, TypeOK, ScanState, history
<1>3. SameView
  BY <1>1, <1>2 DEF SameView
<1>4. CASE scan'.pc = "page" /\ scan'.todo = scan.todo
  <2>1. Waiting' = Waiting /\ Unlisted' = Unlisted
    BY <1>1, <1>2, <1>4 DEF Waiting, Unlisted
  <2> QED
    BY <1>1, <1>2, <1>3, <2>1, UnderwayKept DEF Scanning
<1>5. CASE /\ scan'.pc = "save"
           /\ \A d \in Dirs : scan.todo[d] > 0 \/ d \in Seen(out) => scan'.todo[d] > 0
  <2> SUFFICES ASSUME status'[scan'.run] = "running"
               PROVE  Truthful(FreshSeries, FreshBooks)' /\ \E D \in SUBSET Dirs : Explored(D)'
    BY DEF Underway
  <2>1. FreshSeries' = FreshSeries /\ FreshBooks' = FreshBooks
    BY <1>1, <1>2 DEF FreshSeries, FreshBooks, catalog
  <2>2. Truthful(FreshSeries, FreshBooks) /\ \E D \in SUBSET Dirs : Explored(D)
    BY <1>1, <1>2 DEF Underway, Scanning
  <2>3. Truthful(FreshSeries, FreshBooks)'
    BY <1>3, <2>1, <2>2, RowsKept DEF Truthful, SeriesOf
  <2>4. PICK D \in SUBSET Dirs : Explored(D)
    BY <2>2
  <2>5. Waiting \subseteq Waiting' /\ Unlisted = {scan.dir} /\ Unlisted' = {}
    <3>1. \A d \in Dirs : scan.todo[d] > 0 => scan'.todo[d] > 0
      BY <1>5
    <3>2. Unlisted = {scan.dir} /\ Unlisted' = {}
      BY <1>2, <1>5 DEF Unlisted
    <3> QED
      BY <3>1, <3>2 DEF Waiting
  <2>6. scan.dir \notin torn => Children[scan.dir] \subseteq Waiting'
    <3> SUFFICES ASSUME scan.dir \notin torn, NEW c \in Children[scan.dir]
                 PROVE  c \in Waiting'
      OBVIOUS
    <3>1. AllShown'
      BY PageListed DEF Listed
    <3>2. c \in Items(scan.dir)'
      BY <1>1, <1>2 DEF Items, Comics
    <3>3. c \in Dirs
      BY <1>2, CatalogAssumption DEF CatalogAssumption
    <3>4. c \in Seen(out)
      BY <1>1, <1>2, <1>5, <3>1, <3>2, <3>3 DEF AllShown
    <3> QED
      BY <1>5, <3>3, <3>4 DEF Waiting
  <2>7. \A d \in D \ torn : Children[d] \subseteq D \cup Waiting'
    BY <2>4, <2>5, <2>6 DEF Explored
  <2>8. Complete(FreshBooks, D \ (torn \cup {scan.dir}))'
    BY <1>1, <1>2, <2>1, <2>4 DEF Explored, Complete
  <2>9. Explored(D)'
    BY <1>2, <2>4, <2>5, <2>7, <2>8 DEF Explored
  <2> QED
    BY <2>3, <2>4, <2>9
<1> QED
  BY <1>1, <1>4, <1>5

LEMMA SaveUnderway ==
    ASSUME TypeOK, Underway, Listed, SaveDirectory
    PROVE  Underway'
<1> SUFFICES ASSUME status'[scan'.run] = "running"
             PROVE  Truthful(FreshSeries, FreshBooks)' /\ \E D \in SUBSET Dirs : Explored(D)'
  BY DEF Underway
<1> DEFINE ss == SeriesFound(scan.oneShot, scan.dir, scan.out, scan.run)
           bs == BooksFound(scan.oneShot, scan.dir, scan.out, scan.run)
           s0 == IF scan.staged THEN staged.series ELSE series
           b0 == IF scan.staged THEN staged.books ELSE books
<1>1. /\ scan.pc = "save" /\ scan'.pc = "progress" /\ scan'.dir = None /\ scan'.todo = scan.todo
      /\ scan'.run = scan.run /\ scan'.oneShot = scan.oneShot /\ scan'.staged = scan.staged
      /\ UNCHANGED <<place, status, settled, torn>>
  BY DEF SaveDirectory, TypeOK, ScanState, history
<1>2. /\ FreshSeries = {s \in s0 : s.seen = scan.run}
      /\ FreshBooks = {b \in b0 : b.seen = scan.run}
  BY DEF FreshSeries, FreshBooks
<1>3. /\ FreshSeries' = {s \in UpsertSeries(s0, ss) : s.seen = scan.run}
      /\ FreshBooks' = {b \in UpsertBooks(b0, bs) : b.seen = scan.run}
  <2>1. CASE scan.staged
    <3>1. staged' = [series |-> UpsertSeries(staged.series, ss), books |-> UpsertBooks(staged.books, bs)]
      BY <2>1 DEF SaveDirectory
    <3> HIDE DEF ss, bs
    <3> QED
      BY <1>1, <2>1, <3>1 DEF FreshSeries, FreshBooks
  <2>2. CASE ~scan.staged
    <3>1. series' = UpsertSeries(series, ss) /\ books' = UpsertBooks(books, bs)
      BY <2>2 DEF SaveDirectory
    <3> HIDE DEF ss, bs
    <3> QED
      BY <1>1, <2>2, <3>1 DEF FreshSeries, FreshBooks
  <2> QED
    BY <2>1, <2>2
<1>4. Truthful(FreshSeries, FreshBooks) /\ \E D \in SUBSET Dirs : Explored(D)
  BY <1>1 DEF Underway, Scanning
<1>5. PICK D \in SUBSET Dirs : Explored(D)
  BY <1>4
<1> HIDE DEF s0, b0
<1>6. Truthful({s \in UpsertSeries(s0, ss) : s.seen = scan.run},
               {b \in UpsertBooks(b0, bs) : b.seen = scan.run})
  BY <1>1, <1>2, <1>4, SavedTruthful
<1>7. Complete({b \in UpsertBooks(b0, bs) : b.seen = scan.run}, D \ torn)
  <2>1. Complete({b \in b0 : b.seen = scan.run}, D \ (torn \cup {scan.dir}))
    BY <1>2, <1>5 DEF Explored
  <2> QED
    BY <1>1, <2>1, SavedComplete
<1> HIDE DEF ss, bs
<1>8. SameView
  BY <1>1 DEF SameView
<1>9. Truthful(FreshSeries, FreshBooks)'
  BY <1>3, <1>6, <1>8, RowsKept DEF Truthful, SeriesOf
<1>10. \A f \in settled' : place'[f] \in D \ torn =>
          \E b \in {c \in UpsertBooks(b0, bs) : c.seen = scan.run} : b.file = f
  BY <1>7, <1>8, CompleteKept
<1>11. \A f \in settled' : place'[f] \in D \ (torn' \cup {scan'.dir}) => \E b \in FreshBooks' : b.file = f
  BY <1>1, <1>3, <1>10
<1>12. Waiting' = Waiting /\ Unlisted = {} /\ Unlisted' = {}
  BY <1>1 DEF Waiting, Unlisted
<1>13. Explored(D)'
  BY <1>1, <1>5, <1>11, <1>12 DEF Explored, Complete
<1> QED
  BY <1>5, <1>9, <1>13

LEMMA NextUnderway == TypeOK /\ ModeInv /\ TreeInv /\ [Next]_vars => Underway'
<1> SUFFICES ASSUME TypeOK, ModeInv, TreeInv, [Next]_vars PROVE Underway'
  OBVIOUS
<1>0. /\ scan.run \in RunIds /\ status \in [RunIds -> {"none", "running", "success", "failed", "canceled", "gone"}]
      /\ Stamped /\ Underway /\ Listed
  BY DEF TypeOK, ScanState, TreeInv
<1>1. CASE StartScan
  BY <1>1 DEF StartScan, TypeOK, ScanState, IdleScan, Underway, Scanning
<1>2. CASE CheckConversion
  BY <1>0, <1>2, CheckUnderway
<1>3. CASE \E d \in Dirs : ListDirectory(d)
  BY <1>0, <1>3, ListUnderway
<1>4. CASE ListPage
  BY <1>0, <1>4, PageUnderway
<1>5. CASE SaveDirectory
  BY <1>0, <1>5, SaveUnderway
<1>6. CASE UpdateProgress
  <2>1. CASE status[scan.run] = "running" /\ ~cancel
    <3>1. /\ SameView /\ UNCHANGED <<catalog, staged, status>> /\ scan.pc \in Scanning
          /\ scan'.staged = scan.staged /\ scan'.dir = scan.dir /\ Waiting' = Waiting /\ Unlisted' = Unlisted
      BY <1>6, <2>1
      DEF UpdateProgress, SameView, TypeOK, ScanState, history, Scanning, Waiting, Unlisted
    <3> QED
      BY <1>0, <3>1, UnderwayKept
  <2>2. CASE ~(status[scan.run] = "running" /\ ~cancel)
    BY <1>6, <2>2, EndState DEF UpdateProgress, Underway, Scanning
  <2> QED
    BY <2>1, <2>2
<1>7. CASE ScanStops
  BY <1>7, EndState DEF ScanStops, Underway, Scanning
<1>8. CASE CommitScan
  BY <1>8 DEF CommitScan, TypeOK, ScanState, Underway, Scanning
<1>9. CASE DiscardStaging
  BY <1>9 DEF DiscardStaging, TypeOK, ScanState, Underway, Scanning
<1>10. CASE FinishRun
  BY <1>10 DEF FinishRun, TypeOK, ScanState, Underway, Scanning
<1>11. CASE CancelScan \/ (\E f \in Files, d \in Dirs \cup {None} : MoveFile(f, d))
            \/ (\E oneShot \in BOOLEAN : SetLibrary(oneShot)) \/ UNCHANGED vars
  <2>1. UNCHANGED <<catalog, staged, status, scan>>
    BY <1>11 DEF CancelScan, MoveFile, SetLibrary, vars
  <2>2. SameView
    <3>1. CASE \E f \in Files, d \in Dirs \cup {None} : MoveFile(f, d)
      BY <3>1, MoveView
    <3>2. CASE ~(\E f \in Files, d \in Dirs \cup {None} : MoveFile(f, d))
      <4>1. UNCHANGED <<place, settled, torn>>
        BY <1>11, <3>2 DEF CancelScan, SetLibrary, vars, history
      <4> QED
        BY <2>1, <4>1 DEF SameView
    <3> QED
      BY <3>1, <3>2
  <2>3. CASE scan.pc \in Scanning
    <3>1. Waiting' = Waiting /\ Unlisted' = Unlisted
      BY <2>1 DEF Waiting, Unlisted
    <3> QED
      BY <1>0, <2>1, <2>2, <2>3, <3>1, UnderwayKept
  <2>4. CASE scan.pc \notin Scanning
    BY <2>1, <2>4 DEF Underway, Scanning
  <2> QED
    BY <2>3, <2>4
<1>12. CASE DeleteLibrary
  <2>1. status'[scan.run] # "running" /\ scan' = scan
    BY <1>0, <1>12 DEF DeleteLibrary
  <2> QED
    BY <2>1 DEF Underway
<1>13. CASE Restart
  BY <1>13 DEF Restart, TypeOK, ScanState, IdleScan, Underway, Scanning
<1> QED
  BY <1>1, <1>2, <1>3, <1>4, <1>5, <1>6, <1>7, <1>8, <1>9, <1>10, <1>11, <1>12, <1>13 DEF Next

LEMMA NextTree == TypeOK /\ ModeInv /\ KeepInv /\ TreeInv /\ [Next]_vars => TreeInv'
BY NextStamped, NextUnderway, NextListed, NextReported, NextArrived DEF TreeInv

LEMMA ListedFiles ==
    ASSUME TypeOK, NEW d \in Dirs
    PROVE  FoundFiles(Listing(d)) = Comics(d)
<1>1. Seen(Listing(d)) = Items(d)
  <2>1. \A e \in Listing(d) : e.item \in Items(d)
    BY DEF Listing
  <2>2. ASSUME NEW x \in Items(d)
        PROVE  x \in Seen(Listing(d))
    <3>1. [at |-> Position(x, d), item |-> x] \in Listing(d)
      BY DEF Listing
    <3> QED
      BY <3>1 DEF Seen
  <2> QED
    BY <2>1, <2>2 DEF Seen
<1>2. Children[d] \cap Files = {}
  BY CatalogAssumption DEF CatalogAssumption
<1> QED
  BY <1>1, <1>2 DEF FoundFiles, Items, Comics

LEMMA WantedBook ==
    ASSUME TypeOK, NEW b \in WantedBooks
    PROVE  \E d \in Dirs : \E f \in Comics(d) :
              b = [file |-> f, seen |-> scan.run,
                   cid |-> IF scan.oneShot THEN OneShotCID(f) ELSE DirCID(d),
                   number |-> IF scan.oneShot THEN 1
                              ELSE Cardinality({e \in Listing(d) : e.item \in Files /\ e.item <= f})]
<1>1. PICK d \in Dirs : b \in BooksFound(scan.oneShot, d, Listing(d), scan.run)
  BY DEF WantedBooks, TreeBooks
<1>2. PICK f \in FoundFiles(Listing(d)) :
         b = [file |-> f, seen |-> scan.run,
              cid |-> IF scan.oneShot THEN OneShotCID(f) ELSE DirCID(d),
              number |-> IF scan.oneShot THEN 1
                         ELSE Cardinality({e \in Listing(d) : e.item \in Files /\ e.item <= f})]
  BY <1>1, Zenon DEF BooksFound
<1>3. f \in Comics(d)
  BY <1>2, ListedFiles
<1> QED
  BY <1>2, <1>3

(* Rows that are complete, if no file moved, are the tree's. *)
LEMMA ArrivedTree ==
    ASSUME TypeOK, Truthful(series, books), Complete(books, Dirs), settled = Files
    PROVE  series = WantedSeries /\ books = WantedBooks
<1>1. \A b \in books : b.file \in settled => place[b.file] \in Dirs /\ b.cid = SeriesOf(b.file)
  BY DEF Truthful
<1>2. \A f \in settled : place[f] \in Dirs => \E b \in books : b.file = f
  BY DEF Complete
<1>3. books = WantedBooks
  <2>1. books \subseteq WantedBooks
    BY DEF Truthful
  <2>2. \A b, c \in WantedBooks : b.file = c.file => b = c
    <3> SUFFICES ASSUME NEW b \in WantedBooks, NEW c \in WantedBooks, b.file = c.file
                 PROVE  b = c
      OBVIOUS
    <3> DEFINE Row(d, f) == [file |-> f, seen |-> scan.run,
                             cid |-> IF scan.oneShot THEN OneShotCID(f) ELSE DirCID(d),
                             number |-> IF scan.oneShot THEN 1
                                        ELSE Cardinality({e \in Listing(d) : e.item \in Files /\ e.item <= f})]
    <3>1. \E d \in Dirs : \E f \in Comics(d) : b = Row(d, f)
      BY WantedBook
    <3>2. \E e \in Dirs : \E h \in Comics(e) : c = Row(e, h)
      BY WantedBook
    <3>3. PICK d \in Dirs, f \in Files : f \in Comics(d) /\ b = Row(d, f)
      BY <3>1 DEF Comics
    <3>4. PICK e \in Dirs, h \in Files : h \in Comics(e) /\ c = Row(e, h)
      BY <3>2 DEF Comics
    <3>5. f = h
      BY <3>3, <3>4
    <3>6. d = e
      BY <3>3, <3>4, <3>5 DEF Comics
    <3> QED
      BY <3>3, <3>4, <3>5, <3>6
  <2>3. \A b \in WantedBooks : b.file \in Files /\ place[b.file] \in Dirs
    <3> SUFFICES ASSUME NEW b \in WantedBooks
                 PROVE  b.file \in Files /\ place[b.file] \in Dirs
      OBVIOUS
    <3>1. \E d \in Dirs : \E f \in Comics(d) : b.file = f
      <4>1. PICK d \in Dirs :
               \E f \in Comics(d) :
                  b = [file |-> f, seen |-> scan.run,
                       cid |-> IF scan.oneShot THEN OneShotCID(f) ELSE DirCID(d),
                       number |-> IF scan.oneShot THEN 1
                                  ELSE Cardinality({e \in Listing(d) : e.item \in Files /\ e.item <= f})]
        BY WantedBook
      <4>2. \E f \in Comics(d) : b.file = f
        BY <4>1
      <4> QED
        BY <4>2
    <3> QED
      BY <3>1 DEF Comics
  <2>4. WantedBooks \subseteq books
    <3> SUFFICES ASSUME NEW b \in WantedBooks PROVE b \in books
      OBVIOUS
    <3>1. PICK c \in books : c.file = b.file
      BY <1>2, <2>3
    <3> QED
      BY <2>1, <2>2, <3>1
  <2> QED
    BY <2>1, <2>4
<1>4. series = WantedSeries
  <2>1. series \subseteq WantedSeries
    BY DEF Truthful
  <2>2. \A s, t \in WantedSeries : s.cid = t.cid => s = t
    BY DEF WantedSeries, TreeSeries, SeriesFound
  <2>3. \A s \in WantedSeries : \E f \in Files : place[f] \in Dirs /\ s.cid = SeriesOf(f)
    <3> SUFFICES ASSUME NEW s \in WantedSeries
                 PROVE  \E f \in Files : place[f] \in Dirs /\ s.cid = SeriesOf(f)
      OBVIOUS
    <3>1. PICK d \in Dirs : s \in SeriesFound(scan.oneShot, d, Listing(d), scan.run)
      BY DEF WantedSeries, TreeSeries
    <3>2. FoundFiles(Listing(d)) = Comics(d)
      BY ListedFiles
    <3> QED
      BY <3>1, <3>2 DEF SeriesFound, SeriesOf, Comics
  <2>4. WantedSeries \subseteq series
    <3> SUFFICES ASSUME NEW s \in WantedSeries PROVE s \in series
      OBVIOUS
    <3>1. PICK f \in Files : place[f] \in Dirs /\ s.cid = SeriesOf(f)
      BY <2>3
    <3>2. PICK b \in books : b.file = f
      BY <1>2, <3>1
    <3>3. b.cid = SeriesOf(f) /\ \E t \in series : t.cid = b.cid
      BY <1>1, <3>2 DEF Truthful
    <3>4. PICK t \in series : t.cid = s.cid
      BY <3>1, <3>3
    <3> QED
      BY <2>1, <2>2, <3>4
  <2> QED
    BY <2>1, <2>4
<1> QED
  BY <1>3, <1>4

(* What a successful scan leaves: a file that stayed where it was is a     *)
(* book of its place's series and of no other, one that stayed away is     *)
(* none, and none is lost but in or below a directory another file left    *)
(* between two pages of its listing.  If nothing moved the catalog is the  *)
(* tree's, numbers included, whatever the runs before it left, and whether *)
(* it was written in place or by way of staging.                           *)
THEOREM SuccessIsTree == Spec => []SuccessMatchesTree
<1>1. TypeOK /\ TreeInv => SuccessMatchesTree
  <2> SUFFICES ASSUME TypeOK, TreeInv, Succeeded
               PROVE  /\ \A f \in settled :
                           /\ {b.cid : b \in {c \in books : c.file = f}}
                                \subseteq IF place[f] = None THEN {} ELSE {SeriesOf(f)}
                           /\ place[f] \in Reached \ torn => {b.cid : b \in {c \in books : c.file = f}} # {}
                      /\ settled = Files =>
                           /\ series = TreeSeries(scan.oneShot, scan.run)
                           /\ books = TreeBooks(scan.oneShot, scan.run)
    BY DEF SuccessMatchesTree, SeriesOf
  <2>1. Truthful(series, books) /\ \E D \in SUBSET Dirs : Closed(D) /\ Complete(books, D \ torn)
    BY DEF TreeInv, Reported, Arrived, Succeeded
  <2>2. PICK D \in SUBSET Dirs : Closed(D) /\ Complete(books, D \ torn)
    BY <2>1
  <2>3. ASSUME NEW f \in settled
        PROVE  {b.cid : b \in {c \in books : c.file = f}}
                 \subseteq IF place[f] = None THEN {} ELSE {SeriesOf(f)}
    <3>1. \A b \in books : b.file = f => place[f] \in Dirs /\ b.cid = SeriesOf(f)
      BY <2>1 DEF Truthful
    <3> QED
      BY <3>1, CatalogAssumption DEF CatalogAssumption
  <2>4. ASSUME NEW f \in settled, place[f] \in Reached \ torn
        PROVE  {b.cid : b \in {c \in books : c.file = f}} # {}
    <3>1. place[f] \in D \ torn
      BY <2>2, <2>4 DEF Reached, Closed
    <3>2. PICK b \in books : b.file = f
      BY <2>2, <3>1 DEF Complete
    <3> QED
      BY <3>2
  <2>5. ASSUME settled = Files
        PROVE  series = WantedSeries /\ books = WantedBooks
    <3>1. torn = {}
      BY <2>5 DEF TreeInv, Listed, Between
    <3>2. D = Dirs
      BY <2>2, <3>1, TreeAssumption DEF Closed
    <3>3. Complete(books, Dirs)
      BY <2>2, <3>1, <3>2 DEF Complete
    <3> QED
      BY <2>1, <2>5, <3>3, ArrivedTree
  <2> QED
    BY <2>3, <2>4, <2>5 DEF WantedSeries, WantedBooks
<1> QED
  BY <1>1, InitType, NextType, InitMode, NextMode, InitKeep, NextKeep, InitTree, NextTree, PTL DEF Spec
=============================================================================
