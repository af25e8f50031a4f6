--------------------------- MODULE PageCacheProofs ---------------------------
(***************************************************************************)
(* For any keys, readers, connections and limits: the types of the cache,  *)
(* that a key has one load at a time and no reader waits for an answer     *)
(* already given, and that the rows fit the limit when no eviction is left *)
(* at work.                                                                *)
(***************************************************************************)
EXTENDS PageCache, FiniteSetTheorems, SequenceTheorems, TLAPS

Points == {"idle", "get", "touch", "join", "wait", "load", "rename", "insert", "sum", "select",
           "remove", "delete", "close", "forget"}

(* Where the reader that loads a key is. *)
Leading == {"load", "rename", "insert", "sum", "select", "remove", "delete", "close", "forget"}

(* An eviction has something to do, and a reader at work has a key. *)
AtWork ==
    /\ \A c \in Callers :
          /\ call[c].pc = "select" => call[c].total > call[c].limit
          /\ call[c].pc \in {"remove", "delete"} => call[c].victims # <<>>
    /\ \A r \in Readers : call[r].pc # "idle" => call[r].key \in Keys

TypeInv == TypeOK /\ AtWork

-----------------------------------------------------------------------------
(* The rows and the victims are sequences of keys.                         *)

LEMMA SubSeqType ==
    ASSUME NEW S, NEW s \in Seq(S), NEW m \in Nat \ {0}, NEW n \in Int, n <= Len(s)
    PROVE  SubSeq(s, m, n) \in Seq(S)
<1>1. \A i \in m .. n : s[i] \in S
  BY LenProperties
<1> QED
  BY <1>1, SubSeqProperties

LEMMA WithoutType ==
    ASSUME lru \in Seq(Keys), NEW k
    PROVE  Without(k) \in Seq(Keys)
<1>1. CASE Places(k) = {}
  BY <1>1 DEF Without
<1>2. CASE Places(k) # {}
  <2> DEFINE i == CHOOSE i \in Places(k) : TRUE
  <2>1. i \in 1 .. Len(lru)
    BY <1>2 DEF Places
  <2>2. Len(lru) \in Nat
    BY LenProperties
  <2>3. Without(k) = SubSeq(lru, 1, i - 1) \o SubSeq(lru, i + 1, Len(lru))
    BY <1>2 DEF Without
  <2> HIDE DEF i
  <2>4. SubSeq(lru, 1, i - 1) \in Seq(Keys)
    BY <2>1, <2>2, SubSeqType
  <2>5. SubSeq(lru, i + 1, Len(lru)) \in Seq(Keys)
    BY <2>1, <2>2, SubSeqType
  <2> QED
    BY <2>3, <2>4, <2>5, ConcatProperties
<1> QED
  BY <1>1, <1>2

LEMMA UsedType ==
    ASSUME lru \in Seq(Keys), NEW k \in Keys, NEW s \in Used(k)
    PROVE  s \in Seq(Keys)
<1> DEFINE rest == Without(k)
<1>1. rest \in Seq(Keys)
  BY WithoutType
<1>2. PICK i \in 0 .. Len(rest) :
         s = SubSeq(rest, 1, i) \o <<k>> \o SubSeq(rest, i + 1, Len(rest))
  BY DEF Used
<1> HIDE DEF rest
<1>3. Len(rest) \in Nat
  BY <1>1, LenProperties
<1>4. SubSeq(rest, 1, i) \in Seq(Keys) /\ SubSeq(rest, i + 1, Len(rest)) \in Seq(Keys)
  BY <1>1, <1>3, SubSeqType
<1>5. SubSeq(rest, 1, i) \o <<k>> \in Seq(Keys)
  BY <1>4, ConcatProperties
<1> QED
  BY <1>2, <1>4, <1>5, ConcatProperties

-----------------------------------------------------------------------------
(* Type correctness.                                                       *)

LEMMA CalledType ==
    ASSUME NEW l \in Points, NEW k \in Keys \cup {None}, NEW m \in Limits \cup {0}
    PROVE  Called(l, k, m) \in CallState /\ Called(l, k, m).pc = l /\ Called(l, k, m).key = k
<1>1. <<>> \in Seq(Keys) /\ 0 \in Nat /\ FALSE \in BOOLEAN
  OBVIOUS
<1> QED
  BY <1>1, Zenon DEF Called, CallState, Points

LEMMA IdleType == Idle \in CallState /\ Idle.pc = "idle"
BY CalledType DEF Idle, Points

(* A step of a caller that leaves the other callers alone. *)
LEMMA CallUpdate ==
    ASSUME TypeInv, NEW c \in Callers, NEW s \in CallState, call' = [call EXCEPT ![c] = s],
           s.pc = "select" => s.total > s.limit,
           s.pc \in {"remove", "delete"} => s.victims # <<>>,
           s.pc = "idle" \/ s.key \in Keys \/ c \notin Readers
    PROVE  call' \in [Callers -> CallState] /\ AtWork'
<1>1. call' \in [Callers -> CallState]
  BY DEF TypeInv, TypeOK
<1>2. \A d \in Callers : call'[d] = IF d = c THEN s ELSE call[d]
  BY DEF TypeInv, TypeOK
<1>3. \A r \in Readers : r \in Callers
  BY DEF Callers
<1> QED
  BY <1>1, <1>2, <1>3 DEF TypeInv, AtWork

LEMMA GotoType ==
    ASSUME TypeInv, NEW c \in Callers, NEW l \in Points \ {"select"}, Goto(c, l),
           l = "delete" => call[c].pc = "remove", l # "remove", call[c].pc # "idle"
    PROVE  call' \in [Callers -> CallState] /\ AtWork'
<1> DEFINE s == [call[c] EXCEPT !.pc = l]
<1>0. call[c] \in CallState
  BY DEF TypeInv, TypeOK
<1>1. s \in CallState
  BY <1>0 DEF CallState, Points
<1>2. s.pc = l /\ s.victims = call[c].victims /\ s.key = call[c].key
  BY DEF TypeInv, TypeOK, CallState
<1>3. call' = [call EXCEPT ![c] = s]
  BY DEF Goto
<1>4. c \in Readers => call[c].key \in Keys
  BY DEF TypeInv, AtWork
<1>5. s.pc \in {"remove", "delete"} => s.victims # <<>>
  BY <1>2 DEF TypeInv, AtWork
<1> HIDE DEF s
<1> QED
  BY <1>1, <1>2, <1>3, <1>4, <1>5, CallUpdate

LEMMA GoIdle ==
    ASSUME TypeInv, NEW c \in Callers, call' = [call EXCEPT ![c] = Idle]
    PROVE  call' \in [Callers -> CallState] /\ AtWork'
<1>1. Idle.pc = "idle"
  BY IdleType
<1> QED
  BY <1>1, IdleType, CallUpdate

(* What the end of an eviction leaves. *)
LEMMA DoneType ==
    ASSUME TypeInv, NEW c \in Callers, call[c].pc # "idle"
    PROVE  /\ Done(c) \in CallState
           /\ Done(c).pc \in {"idle", "close"}
           /\ c \in Readers => Done(c).key \in Keys \/ Done(c).pc = "idle"
<1>1. CASE c = Saver
  <2>1. Done(c) = Idle
    BY <1>1 DEF Done
  <2> QED
    BY <2>1, IdleType
<1>2. CASE c # Saver
  <2> DEFINE s == [call[c] EXCEPT !.pc = "close", !.victims = <<>>, !.open = FALSE]
  <2>1. call[c] \in CallState /\ <<>> \in Seq(Keys) /\ c \in Readers
    BY <1>2 DEF TypeInv, TypeOK, Callers
  <2>2. s \in CallState /\ s.pc = "close" /\ s.key = call[c].key
    BY <2>1 DEF CallState
  <2>3. Done(c) = s
    BY <1>2 DEF Done
  <2>4. call[c].key \in Keys
    BY <2>1 DEF TypeInv, AtWork
  <2> HIDE DEF s
  <2> QED
    BY <2>2, <2>3, <2>4
<1> QED
  BY <1>1, <1>2

LEMMA GoDone ==
    ASSUME TypeInv, NEW c \in Callers, call[c].pc # "idle", call' = [call EXCEPT ![c] = Done(c)]
    PROVE  call' \in [Callers -> CallState] /\ AtWork'
<1> DEFINE s == Done(c)
<1>1. s \in CallState /\ s.pc \in {"idle", "close"} /\ (s.pc = "idle" \/ s.key \in Keys \/ c \notin Readers)
  BY DoneType
<1> HIDE DEF s
<1>2. call' = [call EXCEPT ![c] = s]
  BY DEF s
<1> QED
  BY <1>1, <1>2, CallUpdate

LEMMA SumType ==
    ASSUME TypeInv, CacheAssumption, NEW c \in Callers, Sum(c)
    PROVE  call' \in [Callers -> CallState] /\ AtWork'
<1>1. CASE call[c].limit > 0 /\ Len(lru) > call[c].limit
  <2> DEFINE s == [call[c] EXCEPT !.pc = "select", !.total = Len(lru)]
  <2>1. call' = [call EXCEPT ![c] = s]
    BY <1>1 DEF Sum
  <2>2. Len(lru) \in Nat /\ call[c] \in CallState
    BY LenProperties DEF TypeInv, TypeOK
  <2>3. s \in CallState
    BY <2>2 DEF CallState
  <2>4. s.pc = "select" /\ s.total = Len(lru) /\ s.limit = call[c].limit /\ s.key = call[c].key
    BY <2>2 DEF CallState
  <2>5. c \in Readers => call[c].key \in Keys
    BY DEF TypeInv, AtWork, Sum, At
  <2> HIDE DEF s
  <2> QED
    BY <1>1, <2>1, <2>3, <2>4, <2>5, CallUpdate
<1>2. CASE ~(call[c].limit > 0 /\ Len(lru) > call[c].limit)
  BY <1>2, GoDone DEF Sum, At
<1> QED
  BY <1>1, <1>2

LEMMA SelectType ==
    ASSUME TypeInv, CacheAssumption, NEW c \in Callers, Select(c)
    PROVE  call' \in [Callers -> CallState] /\ AtWork'
<1> DEFINE n == Excess(call[c].total, call[c].limit, Len(lru))
<1>1. Len(lru) \in Nat /\ call[c] \in CallState /\ call[c].total \in Nat /\ call[c].limit \in Nat
  <2>1. Len(lru) \in Nat /\ call[c] \in CallState
    BY LenProperties DEF TypeInv, TypeOK
  <2>2. 0 \in Nat /\ Limits \cup {0} \subseteq Nat
    BY DEF CacheAssumption
  <2> QED
    BY <2>1, <2>2 DEF CallState
<1>2. call[c].total > call[c].limit
  BY DEF TypeInv, AtWork, Select, At
<1>3. n \in Nat /\ n <= Len(lru)
  BY <1>1, <1>2 DEF Excess
<1>4. CASE n = 0
  BY <1>4, GoDone DEF Select, At
<1>5. CASE n # 0
  <2> DEFINE v == SubSeq(lru, 1, n)
             o == n < Len(lru)
             s == [call[c] EXCEPT !.pc = "remove", !.victims = v, !.open = o]
  <2>1. call' = [call EXCEPT ![c] = s]
    BY <1>5 DEF Select
  <2> HIDE DEF n
  <2>2. v \in Seq(Keys)
    BY <1>1, <1>3, SubSeqType DEF TypeInv, TypeOK
  <2>3. v # <<>>
    <3>1. \A i \in 1 .. n : lru[i] \in Keys
      BY <1>1, <1>3, LenProperties DEF TypeInv, TypeOK
    <3>2. Len(v) = n
      BY <1>1, <1>3, <1>5, <3>1, SubSeqProperties
    <3> QED
      BY <3>2, <1>5
  <2>4. o \in BOOLEAN
    OBVIOUS
  <2> HIDE DEF v, o
  <2>5. s \in CallState
    BY <1>1, <2>2, <2>4 DEF CallState
  <2>6. s.pc = "remove" /\ s.victims = v /\ s.key = call[c].key
    BY <1>1 DEF CallState
  <2>7. c \in Readers => call[c].key \in Keys
    BY DEF TypeInv, AtWork, Select, At
  <2> HIDE DEF s
  <2> QED
    BY <2>1, <2>3, <2>5, <2>6, <2>7, CallUpdate
<1> QED
  BY <1>4, <1>5

LEMMA DeletedType ==
    ASSUME TypeInv, NEW c \in Callers, At(c, "delete"), Deleted(c)
    PROVE  call' \in [Callers -> CallState] /\ AtWork'
<1>1. call[c] \in CallState /\ call[c].victims \in Seq(Keys) /\ call[c].victims # <<>>
  BY DEF TypeInv, TypeOK, AtWork, At, CallState
<1>2. CASE Len(call[c].victims) = 1
  BY <1>2, GoDone DEF Deleted, At
<1>3. CASE Len(call[c].victims) # 1
  <2> DEFINE v == Tail(call[c].victims)
             s == [call[c] EXCEPT !.pc = "remove", !.victims = v]
  <2>1. call' = [call EXCEPT ![c] = s]
    BY <1>3 DEF Deleted
  <2>2. v \in Seq(Keys) /\ Len(v) # 0
    BY <1>1, <1>3, HeadTailProperties, LenProperties
  <2> HIDE DEF v
  <2>3. v # <<>>
    BY <2>2
  <2>4. s \in CallState
    BY <1>1, <2>2 DEF CallState
  <2>5. s.pc = "remove" /\ s.victims = v /\ s.key = call[c].key
    BY <1>1 DEF CallState
  <2>6. c \in Readers => call[c].key \in Keys
    BY DEF TypeInv, AtWork, At
  <2> HIDE DEF s
  <2> QED
    BY <2>1, <2>3, <2>4, <2>5, <2>6, CallUpdate
<1> QED
  BY <1>2, <1>3

LEMMA StartType ==
    ASSUME TypeInv, NEW c \in Callers, NEW k \in Keys \cup {None}, NEW l \in {"get", "sum"},
           NEW m \in Limits, c \in Readers => k \in Keys,
           call' = [call EXCEPT ![c] = Called(l, k, m)]
    PROVE  call' \in [Callers -> CallState] /\ AtWork'
<1> DEFINE s == Called(l, k, m)
<1>1. s \in CallState /\ s.pc = l /\ s.key = k
  BY CalledType DEF Points
<1> HIDE DEF s
<1>2. call' = [call EXCEPT ![c] = s]
  BY DEF s
<1> QED
  BY <1>1, <1>2, CallUpdate

LEMMA CloseType ==
    ASSUME TypeInv, NEW r \in Readers, Close(r)
    PROVE  call' \in [Callers -> CallState] /\ AtWork'
<1> DEFINE s == [call[r] EXCEPT !.pc = "forget"]
<1>1. r \in Callers /\ call[r] \in CallState
  BY DEF TypeInv, TypeOK, Callers
<1>2. s \in CallState /\ s.pc = "forget" /\ s.key = call[r].key
  BY <1>1 DEF CallState
<1>3. \A c \in Callers : call'[c] \in {Idle, call[c]} \/ (c = r /\ call'[c] = s)
  BY DEF Close
<1>4. call' = [c \in Callers |-> call'[c]]
  BY DEF Close
<1> HIDE DEF s
<1>5. call' \in [Callers -> CallState]
  BY <1>2, <1>3, <1>4, IdleType DEF TypeInv, TypeOK
<1>6. call[r].key \in Keys
  BY DEF TypeInv, AtWork, Close, At
<1>7. Idle.pc = "idle"
  BY IdleType
<1>8. \A d \in Readers : d \in Callers
  BY DEF Callers
<1> QED
  BY <1>2, <1>3, <1>5, <1>6, <1>7, <1>8 DEF TypeInv, AtWork

LEMMA CallsTyped ==
    ASSUME TypeInv, CacheAssumption, Next
    PROVE  call' \in [Callers -> CallState] /\ AtWork'
<1>0. /\ \A r \in Readers : r \in Callers
      /\ Saver \in Callers /\ Saver \notin Readers
  BY DEF Callers, CacheAssumption
<1>1. ASSUME NEW r \in Readers, NEW k \in Keys, Start(r, k)
      PROVE  call' \in [Callers -> CallState] /\ AtWork'
  BY <1>0, <1>1, StartType DEF Start, TypeInv, TypeOK
<1>2. ASSUME NEW r \in Readers, Get(r) \/ Rename(r) \/ (\E ok \in BOOLEAN : Load(r, ok)) \/ PutFails(r)
      PROVE  call' \in [Callers -> CallState] /\ AtWork'
  BY <1>0, <1>2, GotoType DEF Get, Rename, Load, PutFails, At, Points
<1>3. ASSUME NEW r \in Readers, Touch(r) \/ LeaveFlight(r) \/ Forget(r)
      PROVE  call' \in [Callers -> CallState] /\ AtWork'
  BY <1>0, <1>3, GoIdle DEF Touch, LeaveFlight, Forget
<1>4. ASSUME NEW r \in Readers, Join(r)
      PROVE  call' \in [Callers -> CallState] /\ AtWork'
  BY <1>0, <1>4, GotoType, GoIdle DEF Join, At, Points
<1>5. ASSUME NEW r \in Readers, Insert(r)
      PROVE  call' \in [Callers -> CallState] /\ AtWork'
  BY <1>0, <1>5, GotoType DEF Insert, At, Points
<1>6. ASSUME NEW r \in Readers, Close(r)
      PROVE  call' \in [Callers -> CallState] /\ AtWork'
  BY <1>6, CloseType
<1>7. ASSUME NEW c \in Callers, EvictStep(c) \/ DeleteFails(c)
      PROVE  call' \in [Callers -> CallState] /\ AtWork'
  <2>1. CASE RemoveVictim(c)
    BY <2>1, GotoType DEF RemoveVictim, At, Points
  <2>2. CASE DeleteVictim(c) \/ DeleteFails(c)
    BY <2>2, DeletedType DEF DeleteVictim, DeleteFails
  <2> QED
    BY <1>7, <2>1, <2>2, SumType, SelectType DEF EvictStep
<1>8. ASSUME NEW l \in Limits, SaveLimit(l)
      PROVE  call' \in [Callers -> CallState] /\ AtWork'
  <2>1. call' = [call EXCEPT ![Saver] = Called("sum", None, l)]
    BY <1>8 DEF SaveLimit
  <2> QED
    BY <1>0, <2>1, StartType
<1>9. CASE SaveFails
  BY <1>0, <1>9, GoIdle DEF SaveFails
<1>10. CASE Clear \/ ClearRows \/ ClearFails \/ \E k \in Keys : ClearFile(k)
  <2>1. UNCHANGED call
    BY <1>10 DEF Clear, ClearRows, ClearFails, ClearFile
  <2> QED
    BY <2>1 DEF TypeInv, TypeOK, AtWork
<1>11. CASE Restart
  <2>1. call' = [c \in Callers |-> Idle]
    BY <1>11 DEF Restart
  <2> QED
    BY <1>0, <2>1, IdleType DEF AtWork
<1> QED
  BY <1>1, <1>2, <1>3, <1>4, <1>5, <1>6, <1>7, <1>8, <1>9, <1>10, <1>11 DEF Next, ReaderStep

(* The other variables. *)
LEMMA RestTyped ==
    ASSUME TypeInv, CacheAssumption, Next
    PROVE  /\ file' \in SUBSET Keys /\ lru' \in Seq(Keys) /\ limit' \in Limits
           /\ flight' \in [Keys -> Readers \cup {None}]
           /\ clearing' \in [pc : {"idle", "files", "rows"}, todo : SUBSET Keys]
           /\ enforced' \in Limits \cup {0}
           /\ changes' \in 0..MaxChanges /\ faults' \in 0..MaxFaults
<1> USE DEF TypeInv, TypeOK, disk, bounds
<1>0. /\ \A r \in Readers : r \in Callers
      /\ MaxChanges \in Nat /\ MaxFaults \in Nat
      /\ \A c \in Callers : call[c].limit \in Limits \cup {0}
  BY DEF Callers, CacheAssumption, CallState
<1>1. ASSUME NEW r \in Readers,
             (\E k \in Keys : Start(r, k)) \/ Get(r) \/ LeaveFlight(r) \/ Close(r)
             \/ \E ok \in BOOLEAN : Load(r, ok)
      PROVE  UNCHANGED <<disk, limit, flight, clearing, enforced, bounds>>
  BY <1>1 DEF Start, Get, LeaveFlight, Close, Load
<1>2. ASSUME NEW r \in Readers, Touch(r) \/ Insert(r)
      PROVE  lru' \in Seq(Keys) /\ UNCHANGED <<file, limit, flight, clearing, enforced, bounds>>
  <2>1. call[r].key \in Keys
    BY <1>2 DEF AtWork, Touch, Insert, At
  <2>2. lru' \in Used(call[r].key) \/ lru' = lru
    BY <1>2 DEF Touch, Insert
  <2> QED
    BY <1>2, <2>1, <2>2, UsedType DEF Touch, Insert
<1>3. ASSUME NEW r \in Readers, Join(r) \/ Forget(r)
      PROVE  /\ flight' \in [Keys -> Readers \cup {None}]
             /\ UNCHANGED <<disk, limit, clearing, enforced, bounds>>
  BY <1>3 DEF Join, Forget
<1>4. ASSUME NEW r \in Readers, Rename(r)
      PROVE  file' \in SUBSET Keys /\ UNCHANGED <<lru, limit, flight, clearing, enforced, bounds>>
  <2>1. call[r].key \in Keys
    BY <1>4 DEF AtWork, Rename, At
  <2> QED
    BY <1>4, <2>1 DEF Rename
<1>5. ASSUME NEW c \in Callers, Sum(c) \/ Select(c)
      PROVE  enforced' \in Limits \cup {0} /\ UNCHANGED <<disk, limit, flight, clearing, bounds>>
  BY <1>0, <1>5 DEF Sum, Select
<1>6. ASSUME NEW c \in Callers, RemoveVictim(c) \/ DeleteVictim(c)
      PROVE  /\ file' \in SUBSET Keys /\ lru' \in Seq(Keys)
             /\ UNCHANGED <<limit, flight, clearing, enforced, bounds>>
  BY <1>6, WithoutType DEF RemoveVictim, DeleteVictim
<1>7. ASSUME Fault, UNCHANGED <<disk, limit, enforced>>,
             UNCHANGED <<flight, clearing>> \/ Restart
      PROVE  /\ UNCHANGED <<disk, limit, enforced>>
             /\ flight' \in [Keys -> Readers \cup {None}]
             /\ clearing' \in [pc : {"idle", "files", "rows"}, todo : SUBSET Keys]
             /\ changes' \in 0..MaxChanges /\ faults' \in 0..MaxFaults
  BY <1>0, <1>7 DEF Fault, Restart, Quiet
<1>8. ASSUME SaveFails \/ Restart \/ (\E r \in Readers : PutFails(r)) \/ (\E c \in Callers : DeleteFails(c))
      PROVE  Fault /\ UNCHANGED <<disk, limit, enforced>> /\ (UNCHANGED <<flight, clearing>> \/ Restart)
  BY <1>8 DEF SaveFails, Restart, PutFails, DeleteFails
<1>9. ASSUME NEW l \in Limits, SaveLimit(l)
      PROVE  /\ limit' \in Limits /\ changes' \in 0..MaxChanges
             /\ UNCHANGED <<disk, flight, clearing, enforced, faults>>
  BY <1>0, <1>9 DEF SaveLimit
<1>10. ASSUME Clear \/ ClearRows \/ ClearFails \/ \E k \in Keys : ClearFile(k)
       PROVE  /\ file' \in SUBSET Keys /\ lru' \in Seq(Keys)
              /\ clearing' \in [pc : {"idle", "files", "rows"}, todo : SUBSET Keys]
              /\ changes' \in 0..MaxChanges
              /\ UNCHANGED <<limit, flight, enforced, faults>>
  <2>1. <<>> \in Seq(Keys)
    OBVIOUS
  <2>2. CASE Clear \/ ClearRows \/ ClearFails
    <3>1. /\ [pc |-> "files", todo |-> Keys] \in [pc : {"idle", "files", "rows"}, todo : SUBSET Keys]
          /\ Quiet \in [pc : {"idle", "files", "rows"}, todo : SUBSET Keys]
      BY DEF Quiet
    <3>2. CASE Clear
      BY <1>0, <3>1, <3>2 DEF Clear
    <3>3. CASE ClearRows
      BY <2>1, <3>1, <3>3 DEF ClearRows
    <3>4. CASE ClearFails
      BY <3>1, <3>4 DEF ClearFails
    <3> QED
      BY <2>2, <3>2, <3>3, <3>4
  <2>3. ASSUME NEW k \in Keys, ClearFile(k)
        PROVE  /\ file' \in SUBSET Keys /\ UNCHANGED <<lru, limit, flight, enforced, bounds>>
               /\ clearing' \in [pc : {"idle", "files", "rows"}, todo : SUBSET Keys]
    <3>1. clearing.todo \ {k} \in SUBSET Keys
      BY <2>3 DEF ClearFile
    <3> QED
      BY <2>3, <3>1 DEF ClearFile
  <2> QED
    BY <1>10, <2>2, <2>3
<1> QED
  BY <1>0, <1>1, <1>2, <1>3, <1>4, <1>5, <1>6, <1>7, <1>8, <1>9, <1>10 DEF Next, ReaderStep, EvictStep

LEMMA InitType ==
    ASSUME CacheAssumption, Init
    PROVE  TypeInv
<1>1. <<>> \in Seq(Keys)
  OBVIOUS
<1>2. call \in [Callers -> CallState] /\ \A c \in Callers : call[c] = Idle
  BY IdleType DEF Init
<1>3. \A r \in Readers : r \in Callers
  BY DEF Callers
<1> QED
  BY <1>1, <1>2, <1>3, IdleType DEF Init, TypeInv, TypeOK, AtWork, Quiet, CacheAssumption

LEMMA TypeStep ==
    ASSUME TypeInv, CacheAssumption, [Next]_vars
    PROVE  TypeInv'
<1>1. CASE Next
  BY <1>1, CallsTyped, RestTyped DEF TypeInv, TypeOK
<1>2. CASE UNCHANGED vars
  BY <1>2 DEF vars, disk, bounds, TypeInv, TypeOK, AtWork
<1> QED
  BY <1>1, <1>2

(* Every variable keeps its type, an eviction that deletes has a victim    *)
(* left (so that its Head exists), and one that selects is over its limit. *)
THEOREM TypeCorrect == Spec => [](TypeOK /\ AtWork)
<1>1. Init => TypeInv
  BY InitType, CacheAssumption
<1>2. TypeInv /\ [Next]_vars => TypeInv'
  BY TypeStep, CacheAssumption
<1>3. TypeInv => TypeOK /\ AtWork
  BY DEF TypeInv
<1> QED
  BY <1>1, <1>2, <1>3, PTL DEF Spec

-----------------------------------------------------------------------------
(* One load per key, and no lost wake-up.                                  *)

(* A step that starts, ends and answers no load, and makes nobody wait.    *)
Aside(c, s) ==
    /\ UNCHANGED flight
    /\ call' = [call EXCEPT ![c] = s]
    /\ s.pc \in Leading <=> call[c].pc \in Leading
    /\ s.pc \in Leading => s.key = call[c].key
    /\ s.pc # "wait"
    /\ s.pc = "forget" <=> call[c].pc = "forget"

LEMMA AsideKeeps ==
    ASSUME TypeInv, CacheAssumption, FlightAgrees, NEW c \in Callers, NEW s, Aside(c, s)
    PROVE  FlightAgrees'
<1>1. \A r \in Readers : r \in Callers /\ call'[r] = IF r = c THEN s ELSE call[r]
  BY DEF TypeInv, TypeOK, Aside, Callers
<1>2. \A r \in Readers, k \in Keys :
         (flight[k] = r <=> call[r].key = k /\ call[r].pc \in Leading)
  BY DEF FlightAgrees, Leading
<1>3. \A r \in Readers, k \in Keys :
         (flight'[k] = r <=> call'[r].key = k /\ call'[r].pc \in Leading)
  BY <1>1, <1>2 DEF Aside
<1>4. \A r \in Readers : call'[r].pc = "forget" <=> call[r].pc = "forget"
  BY <1>1 DEF Aside
<1>5. ASSUME NEW r \in Readers, call'[r].pc = "wait"
      PROVE  flight'[call'[r].key] # None /\ call'[flight'[call'[r].key]].pc # "forget"
  <2>1. call'[r] = call[r] /\ flight' = flight
    BY <1>1, <1>5 DEF Aside
  <2>2. call[r].key \in Keys /\ flight[call[r].key] # None /\ call[flight[call[r].key]].pc # "forget"
    BY <1>5, <2>1 DEF FlightAgrees, TypeInv, AtWork
  <2>3. flight[call[r].key] \in Readers
    BY <2>2 DEF TypeInv, TypeOK
  <2> QED
    BY <1>4, <2>1, <2>2, <2>3
<1> QED
  BY <1>3, <1>5 DEF FlightAgrees, Leading

LEMMA GotoAside ==
    ASSUME TypeInv, CacheAssumption, FlightAgrees, NEW c \in Callers, NEW l \in Points, Goto(c, l), UNCHANGED flight,
           call[c].pc \in Leading <=> l \in Leading, l \notin {"wait", "forget"}, call[c].pc # "forget"
    PROVE  FlightAgrees'
<1> DEFINE s == [call[c] EXCEPT !.pc = l]
<1>1. s.pc = l /\ s.key = call[c].key
  BY DEF TypeInv, TypeOK, CallState
<1>2. call' = [call EXCEPT ![c] = s]
  BY DEF Goto
<1> HIDE DEF s
<1>3. Aside(c, s)
  BY <1>1, <1>2 DEF Aside
<1> QED
  BY <1>3, AsideKeeps

LEMMA IdleAside ==
    ASSUME TypeInv, CacheAssumption, FlightAgrees, NEW c \in Callers, UNCHANGED flight,
           call' = [call EXCEPT ![c] = Idle], call[c].pc \notin Leading
    PROVE  FlightAgrees'
<1>1. Aside(c, Idle)
  BY IdleType DEF Aside, Leading
<1> QED
  BY <1>1, AsideKeeps

(* Who reads, loads or waits: GetOrLoad but for its flight's ends. *)
LEMMA JoinKeeps ==
    ASSUME TypeInv, CacheAssumption, FlightAgrees, NEW r \in Readers, Join(r)
    PROVE  FlightAgrees'
<1> DEFINE k == call[r].key
<1>1. r \in Callers /\ k \in Keys /\ call[r].pc = "join"
  BY DEF TypeInv, AtWork, Join, At, Callers
<1>2. CASE flight[k] = None
  <2>1. flight' = [flight EXCEPT ![k] = r] /\ Goto(r, "load")
    BY <1>2 DEF Join
  <2>2. /\ \A q \in Readers : q # r => call'[q] = call[q]
        /\ call'[r].pc = "load" /\ call'[r].key = k
    BY <1>1, <2>1 DEF Goto, TypeInv, TypeOK, CallState, Callers
  <2>3. flight'[k] = r /\ \A j \in Keys : j # k => flight'[j] = flight[j]
    BY <1>1, <2>1 DEF TypeInv, TypeOK
  <2>4. None \notin Readers
    BY DEF CacheAssumption
  <2> HIDE DEF k
  <2>5. \A q \in Readers, j \in Keys :
           (flight[j] = q <=> call[q].key = j /\ call[q].pc \in Leading)
    BY DEF FlightAgrees, Leading
  <2>6. \A q \in Readers, j \in Keys :
           (flight'[j] = q <=> call'[q].key = j /\ call'[q].pc \in Leading)
    <3>1. \A j \in Keys : flight[j] # r
      BY <2>5, <1>1 DEF Leading
    <3>2. \A q \in Readers : ~(call[q].key = k /\ call[q].pc \in Leading)
      BY <2>5, <1>1, <1>2, <2>4
    <3> QED
      BY <1>1, <2>2, <2>3, <2>5, <3>1, <3>2 DEF Leading
  <2>7. ASSUME NEW q \in Readers, call'[q].pc = "wait"
        PROVE  flight'[call'[q].key] # None /\ call'[flight'[call'[q].key]].pc # "forget"
    <3>1. q # r /\ call'[q] = call[q]
      BY <2>2, <2>7
    <3>2. call[q].key \in Keys /\ flight[call[q].key] # None /\ call[flight[call[q].key]].pc # "forget"
      BY <2>7, <3>1 DEF FlightAgrees, TypeInv, AtWork
    <3>3. flight[call[q].key] \in Readers
      BY <3>2 DEF TypeInv, TypeOK
    <3>4. call[q].key # k
      BY <3>2, <1>2
    <3>5. flight[call[q].key] # r
      BY <2>5, <3>2, <1>1 DEF Leading
    <3> QED
      BY <2>2, <2>3, <3>1, <3>2, <3>3, <3>4, <3>5
  <2> QED
    BY <2>6, <2>7 DEF FlightAgrees, Leading
<1>3. CASE flight[k] # None /\ At(flight[k], "forget")
  <2>1. call' = [call EXCEPT ![r] = Idle] /\ UNCHANGED flight
    BY <1>3 DEF Join
  <2> QED
    BY <1>1, <2>1, IdleAside DEF Leading
<1>4. CASE flight[k] # None /\ ~At(flight[k], "forget")
  <2>1. Goto(r, "wait") /\ UNCHANGED flight
    BY <1>4 DEF Join
  <2>2. /\ \A q \in Readers : q # r => call'[q] = call[q]
        /\ call'[r].pc = "wait" /\ call'[r].key = k
    BY <1>1, <2>1 DEF Goto, TypeInv, TypeOK, CallState, Callers
  <2> HIDE DEF k
  <2>3. \A q \in Readers, j \in Keys :
           (flight'[j] = q <=> call'[q].key = j /\ call'[q].pc \in Leading)
    <3>1. \A q \in Readers, j \in Keys :
             (flight[j] = q <=> call[q].key = j /\ call[q].pc \in Leading)
      BY DEF FlightAgrees, Leading
    <3> QED
      BY <1>1, <2>1, <2>2, <3>1 DEF Leading
  <2>4. \A q \in Readers : call'[q].pc = "forget" => call[q].pc = "forget"
    BY <2>2
  <2>5. ASSUME NEW q \in Readers, call'[q].pc = "wait"
        PROVE  flight'[call'[q].key] # None /\ call'[flight'[call'[q].key]].pc # "forget"
    <3>1. call'[q].key = call[q].key /\ call[q].key \in Keys
          /\ flight[call[q].key] # None /\ call[flight[call[q].key]].pc # "forget"
      BY <1>1, <1>4, <2>2, <2>5 DEF FlightAgrees, TypeInv, AtWork, At, k
    <3>2. flight[call[q].key] \in Readers
      BY <3>1 DEF TypeInv, TypeOK
    <3> QED
      BY <2>1, <2>4, <3>1, <3>2
  <2> QED
    BY <2>3, <2>5 DEF FlightAgrees, Leading
<1> QED
  BY <1>2, <1>3, <1>4

(* The answer wakes everyone who waits on the key.                         *)
LEMMA CloseKeeps ==
    ASSUME TypeInv, CacheAssumption, FlightAgrees, NEW r \in Readers, Close(r)
    PROVE  FlightAgrees'
<1> DEFINE k == call[r].key
<1>1. r \in Callers /\ k \in Keys /\ call[r].pc = "close" /\ flight' = flight
  BY DEF TypeInv, AtWork, Close, At, Callers
<1>2. flight[k] = r
  BY <1>1 DEF FlightAgrees
<1>3. call'[r].pc = "forget" /\ call'[r].key = k
  BY <1>1 DEF Close, TypeInv, TypeOK, CallState
<1>4. \A q \in Readers : q # r =>
         call'[q] = IF call[q].pc = "wait" /\ call[q].key = k THEN Idle ELSE call[q]
  BY DEF Close, At, Callers
<1> HIDE DEF k
<1>5. \A q \in Readers, j \in Keys :
         (flight[j] = q <=> call[q].key = j /\ call[q].pc \in Leading)
  BY DEF FlightAgrees, Leading
<1>6. \A q \in Readers, j \in Keys :
         (flight'[j] = q <=> call'[q].key = j /\ call'[q].pc \in Leading)
  <2>1. ASSUME NEW j \in Keys
        PROVE  flight'[j] = r <=> call'[r].key = j /\ call'[r].pc \in Leading
    BY <1>1, <1>3, <1>5 DEF Leading, k
  <2>2. ASSUME NEW q \in Readers, q # r, NEW j \in Keys
        PROVE  flight'[j] = q <=> call'[q].key = j /\ call'[q].pc \in Leading
    BY <1>1, <1>4, <1>5, <2>2, IdleType DEF Leading
  <2> QED
    BY <2>1, <2>2
<1>7. ASSUME NEW q \in Readers, call'[q].pc = "wait"
      PROVE  flight'[call'[q].key] # None /\ call'[flight'[call'[q].key]].pc # "forget"
  <2>1. q # r /\ call'[q] = call[q] /\ call[q].key # k
    BY <1>3, <1>4, <1>7, IdleType
  <2>2. call[q].key \in Keys /\ flight[call[q].key] # None /\ call[flight[call[q].key]].pc # "forget"
    BY <1>7, <2>1 DEF FlightAgrees, TypeInv, AtWork
  <2>3. flight[call[q].key] \in Readers /\ flight[call[q].key] # r
    BY <1>5, <2>1, <2>2 DEF TypeInv, TypeOK, k
  <2> QED
    BY <1>1, <1>4, <2>1, <2>2, <2>3, IdleType
<1> QED
  BY <1>6, <1>7 DEF FlightAgrees, Leading

(* Nobody waits on a flight that is removed. *)
LEMMA ForgetKeeps ==
    ASSUME TypeInv, CacheAssumption, FlightAgrees, NEW r \in Readers, Forget(r)
    PROVE  FlightAgrees'
<1> DEFINE k == call[r].key
<1>1. r \in Callers /\ k \in Keys /\ call[r].pc = "forget"
  BY DEF TypeInv, AtWork, Forget, At, Callers
<1>2. flight[k] = r
  BY <1>1 DEF FlightAgrees
<1>3. call'[r] = Idle /\ \A q \in Readers : q # r => call'[q] = call[q]
  BY <1>1 DEF Forget, TypeInv, TypeOK, Callers
<1>4. flight'[k] = None /\ \A j \in Keys : j # k => flight'[j] = flight[j]
  BY <1>1 DEF Forget, TypeInv, TypeOK
<1>5. None \notin Readers
  BY DEF CacheAssumption
<1> HIDE DEF k
<1>6. \A q \in Readers, j \in Keys :
         (flight[j] = q <=> call[q].key = j /\ call[q].pc \in Leading)
  BY DEF FlightAgrees, Leading
<1>7. \A q \in Readers, j \in Keys :
         (flight'[j] = q <=> call'[q].key = j /\ call'[q].pc \in Leading)
  <2>1. ASSUME NEW j \in Keys
        PROVE  flight'[j] = r <=> call'[r].key = j /\ call'[r].pc \in Leading
    <3>1. call'[r].pc \notin Leading
      BY <1>3, IdleType DEF Leading
    <3>2. j # k => flight[j] # r
      BY <1>6 DEF k
    <3> QED
      BY <1>4, <1>5, <3>1, <3>2
  <2>2. ASSUME NEW q \in Readers, q # r, NEW j \in Keys
        PROVE  flight'[j] = q <=> call'[q].key = j /\ call'[q].pc \in Leading
    BY <1>1, <1>2, <1>3, <1>4, <1>5, <1>6, <2>2
  <2> QED
    BY <2>1, <2>2
<1>8. ASSUME NEW q \in Readers, call'[q].pc = "wait"
      PROVE  flight'[call'[q].key] # None /\ call'[flight'[call'[q].key]].pc # "forget"
  <2>1. q # r /\ call'[q] = call[q]
    BY <1>3, <1>8, IdleType
  <2>2. call[q].key \in Keys /\ flight[call[q].key] # None /\ call[flight[call[q].key]].pc # "forget"
    BY <1>8, <2>1 DEF FlightAgrees, TypeInv, AtWork
  <2>3. call[q].key # k
    BY <1>1, <1>2, <2>2
  <2>4. flight[call[q].key] \in Readers /\ flight[call[q].key] # r
    BY <1>6, <2>2, <2>3 DEF TypeInv, TypeOK, k
  <2> QED
    BY <1>3, <1>4, <2>1, <2>2, <2>3, <2>4
<1> QED
  BY <1>7, <1>8 DEF FlightAgrees, Leading

(* The admin's calls have no flight. *)
LEMMA SaverAside ==
    ASSUME TypeInv, FlightAgrees, \A q \in Readers : call'[q] = call[q] /\ flight' = flight
    PROVE  FlightAgrees'
<1>1. ASSUME NEW q \in Readers, call'[q].pc = "wait"
      PROVE  flight'[call'[q].key] # None /\ call'[flight'[call'[q].key]].pc # "forget"
  <2>1. call[q].key \in Keys /\ flight[call[q].key] # None /\ call[flight[call[q].key]].pc # "forget"
    BY <1>1 DEF FlightAgrees, TypeInv, AtWork
  <2>2. flight[call[q].key] \in Readers
    BY <2>1 DEF TypeInv, TypeOK
  <2> QED
    BY <2>1, <2>2
<1> QED
  BY <1>1 DEF FlightAgrees

(* An eviction is a part of the leader's load, or of the admin's save. *)
LEMMA EvictKeeps ==
    ASSUME TypeInv, CacheAssumption, FlightAgrees, NEW c \in Callers, EvictStep(c) \/ DeleteFails(c)
    PROVE  FlightAgrees'
<1>1. UNCHANGED flight /\ call[c].pc \in {"sum", "select", "remove", "delete"}
  BY DEF EvictStep, DeleteFails, Sum, Select, RemoveVictim, DeleteVictim, At
<1>2. PICK s : /\ call' = [call EXCEPT ![c] = s]
               /\ \/ s = Done(c)
                  \/ s.pc \in {"select", "remove", "delete"} /\ s.key = call[c].key
  <2>1. call[c] \in CallState
    BY DEF TypeInv, TypeOK
  <2>2. CASE Sum(c)
    <3> DEFINE t == [call[c] EXCEPT !.pc = "select", !.total = Len(lru)]
    <3>1. call' = [call EXCEPT ![c] = t] \/ call' = [call EXCEPT ![c] = Done(c)]
      BY <2>2 DEF Sum
    <3>2. t.pc = "select" /\ t.key = call[c].key
      BY <2>1 DEF CallState
    <3> QED
      BY <3>1, <3>2
  <2>3. CASE Select(c)
    <3> DEFINE v == SubSeq(lru, 1, Excess(call[c].total, call[c].limit, Len(lru)))
               o == Excess(call[c].total, call[c].limit, Len(lru)) < Len(lru)
               t == [call[c] EXCEPT !.pc = "remove", !.victims = v, !.open = o]
    <3>1. call' = [call EXCEPT ![c] = t] \/ call' = [call EXCEPT ![c] = Done(c)]
      BY <2>3 DEF Select
    <3> HIDE DEF v, o
    <3>2. t.pc = "remove" /\ t.key = call[c].key
      BY <2>1 DEF CallState
    <3> HIDE DEF t
    <3> QED
      BY <3>1, <3>2
  <2>4. CASE RemoveVictim(c)
    <3> DEFINE t == [call[c] EXCEPT !.pc = "delete"]
    <3>1. call' = [call EXCEPT ![c] = t]
      BY <2>4 DEF RemoveVictim, Goto
    <3>2. t.pc = "delete" /\ t.key = call[c].key
      BY <2>1 DEF CallState
    <3> QED
      BY <3>1, <3>2
  <2>5. CASE DeleteVictim(c) \/ DeleteFails(c)
    <3> DEFINE t == [call[c] EXCEPT !.pc = "remove", !.victims = Tail(call[c].victims)]
    <3>1. call' = [call EXCEPT ![c] = t] \/ call' = [call EXCEPT ![c] = Done(c)]
      BY <2>5 DEF DeleteVictim, DeleteFails, Deleted
    <3>2. t.pc = "remove" /\ t.key = call[c].key
      BY <2>1 DEF CallState
    <3> QED
      BY <3>1, <3>2
  <2> QED
    BY <2>2, <2>3, <2>4, <2>5 DEF EvictStep
<1>3. ASSUME c = Saver
      PROVE  FlightAgrees'
  <2>1. \A q \in Readers : q \in Callers /\ q # c /\ call'[q] = call[q] /\ flight' = flight
    BY <1>1, <1>2, <1>3 DEF CacheAssumption, TypeInv, TypeOK, Callers
  <2> QED
    BY <2>1, SaverAside
<1>4. ASSUME c # Saver
      PROVE  FlightAgrees'
  <2>1. Done(c).pc = "close" /\ Done(c).key = call[c].key
    BY <1>4 DEF Done, TypeInv, TypeOK, CallState
  <2>2. Aside(c, s)
    BY <1>1, <1>2, <2>1 DEF Aside, Leading
  <2> QED
    BY <2>2, AsideKeeps
<1> QED
  BY <1>3, <1>4

(* A new process knows no flight and no caller. *)
LEMMA RestartKeeps ==
    ASSUME TypeInv, CacheAssumption, Restart
    PROVE  FlightAgrees'
<1>1. None \notin Readers /\ \A r \in Readers : call'[r] = Idle
  BY DEF Restart, Callers, CacheAssumption
<1>2. \A k \in Keys : flight'[k] = None
  BY DEF Restart
<1> QED
  BY <1>1, <1>2, IdleType DEF FlightAgrees

LEMMA FlightStep ==
    ASSUME TypeInv, CacheAssumption, FlightAgrees, [Next]_vars
    PROVE  FlightAgrees'
<1>0. /\ \A r \in Readers : r \in Callers
      /\ Saver \in Callers /\ Saver \notin Readers
  BY DEF Callers, CacheAssumption
<1>1. ASSUME NEW r \in Readers, NEW k \in Keys, Start(r, k)
      PROVE  FlightAgrees'
  <2>1. limit \in Limits \cup {0} /\ "get" \in Points /\ k \in Keys \cup {None}
    BY DEF TypeInv, TypeOK, Points
  <2>2. Aside(r, Called("get", k, limit))
    BY <1>1, <2>1, CalledType DEF Start, At, Aside, Leading
  <2> QED
    BY <1>0, <2>2, AsideKeeps
<1>2. ASSUME NEW r \in Readers,
             Get(r) \/ (\E ok \in BOOLEAN : Load(r, ok)) \/ Rename(r) \/ Insert(r) \/ PutFails(r)
      PROVE  FlightAgrees'
  BY <1>0, <1>2, GotoAside DEF Get, Load, Rename, Insert, PutFails, At, Points, Leading
<1>3. ASSUME NEW r \in Readers, Touch(r) \/ LeaveFlight(r)
      PROVE  FlightAgrees'
  BY <1>0, <1>3, IdleAside DEF Touch, LeaveFlight, At, Leading
<1>4. ASSUME NEW l \in Limits, SaveLimit(l)
      PROVE  FlightAgrees'
  <2>1. \A q \in Readers : q \in Callers /\ q # Saver /\ call'[q] = call[q] /\ flight' = flight
    BY <1>0, <1>4 DEF SaveLimit, TypeInv, TypeOK
  <2> QED
    BY <2>1, SaverAside
<1>5. ASSUME SaveFails
      PROVE  FlightAgrees'
  <2>1. \A q \in Readers : q \in Callers /\ q # Saver /\ call'[q] = call[q] /\ flight' = flight
    BY <1>0, <1>5 DEF SaveFails, TypeInv, TypeOK
  <2> QED
    BY <2>1, SaverAside
<1>6. ASSUME Clear \/ ClearRows \/ ClearFails \/ (\E k \in Keys : ClearFile(k)) \/ UNCHANGED vars
      PROVE  FlightAgrees'
  <2>1. UNCHANGED <<flight, call>>
    BY <1>6 DEF Clear, ClearRows, ClearFails, ClearFile, vars
  <2> QED
    BY <2>1 DEF FlightAgrees
<1> QED
  BY <1>1, <1>2, <1>3, <1>4, <1>5, <1>6, JoinKeeps, CloseKeeps, ForgetKeeps, EvictKeeps, RestartKeeps
     DEF Next, ReaderStep

(* One load per key at a time, and a waiter always has a reader that will  *)
(* answer: the flights of GetOrLoad for any number of readers and keys.    *)
THEOREM OneLoadPerKey == Spec => []FlightAgrees
<1>1. Init => TypeInv /\ FlightAgrees
  <2> SUFFICES ASSUME Init PROVE TypeInv /\ FlightAgrees
    OBVIOUS
  <2>1. None \notin Readers /\ \A r \in Readers : call[r] = Idle
    BY CacheAssumption DEF Init, Callers, CacheAssumption
  <2> QED
    BY <2>1, InitType, IdleType, CacheAssumption DEF Init, FlightAgrees
<1>2. TypeInv /\ FlightAgrees /\ [Next]_vars => TypeInv' /\ FlightAgrees'
  BY TypeStep, FlightStep, CacheAssumption
<1> QED
  BY <1>1, <1>2, PTL DEF Spec

-----------------------------------------------------------------------------
(* The rows fit the limit.                                                 *)

RowsOf(s)   == {s[i] : i \in 1 .. Len(s)}
Distinct(s) == \A i, j \in 1 .. Len(s) : s[i] = s[j] => i = j

(* An eviction by the limit last measured against, that will see to it     *)
(* that the rows fit: it counts after every row there is, or what it has   *)
(* counted and will delete leaves no more than the limit, though others    *)
(* reorder the rows or delete some of them first.                          *)
Owes(c) ==
    \/ call[c].pc = "sum"
    \/ /\ call[c].pc = "select" /\ call[c].limit = enforced
       /\ Cardinality(RowsOf(lru)) <= call[c].total
    \/ /\ call[c].pc \in {"remove", "delete"} /\ call[c].limit = enforced
       /\ Cardinality(RowsOf(lru) \ RowsOf(call[c].victims)) <= enforced

Settled ==
    faults = 0 /\ enforced > 0 =>
        Cardinality(RowsOf(lru)) <= enforced \/ \E c \in Callers : Owes(c)

FitInv == Distinct(lru) /\ Settled

(* What DELETE, and an INSERT or UPDATE, make of the rows. *)
LEMMA WithoutRows ==
    ASSUME lru \in Seq(Keys), Distinct(lru), NEW k
    PROVE  Distinct(Without(k)) /\ RowsOf(Without(k)) \subseteq RowsOf(lru) \ {k}
<1>1. CASE Places(k) = {}
  <2>1. Without(k) = lru
    BY <1>1 DEF Without
  <2>2. k \notin RowsOf(lru)
    BY <1>1 DEF Places, RowsOf
  <2> QED
    BY <2>1, <2>2
<1>2. CASE Places(k) # {}
  <2> DEFINE i == CHOOSE i \in Places(k) : TRUE
             a == SubSeq(lru, 1, i - 1)
             b == SubSeq(lru, i + 1, Len(lru))
             t == a \o b
  <2>1. i \in 1 .. Len(lru) /\ lru[i] = k
    BY <1>2 DEF Places
  <2>2. Len(lru) \in Nat /\ \A j \in 1 .. Len(lru) : lru[j] \in Keys
    BY LenProperties
  <2>3. Without(k) = t
    BY <1>2 DEF Without
  <2> HIDE DEF i
  <2>4. a \in Seq(Keys) /\ Len(a) = i - 1 /\ \A j \in 1 .. i - 1 : a[j] = lru[j]
    <3>1. \A j \in 1 .. i - 1 : lru[j] \in Keys
      BY <2>1, <2>2
    <3> QED
      BY <2>1, <2>2, <3>1, SubSeqProperties
  <2>5. b \in Seq(Keys) /\ Len(b) = Len(lru) - i /\ \A j \in 1 .. Len(lru) - i : b[j] = lru[i + j]
    <3>1. \A j \in i + 1 .. Len(lru) : lru[j] \in Keys
      BY <2>1, <2>2
    <3> QED
      BY <2>1, <2>2, <3>1, SubSeqProperties
  <2> HIDE DEF a, b
  <2>6. /\ Len(t) = Len(lru) - 1
        /\ \A j \in 1 .. Len(t) : t[j] = IF j < i THEN lru[j] ELSE lru[j + 1]
    <3>1. /\ Len(t) = Len(a) + Len(b)
          /\ \A j \in 1 .. Len(a) + Len(b) : t[j] = IF j <= Len(a) THEN a[j] ELSE b[j - Len(a)]
      BY <2>4, <2>5, ConcatProperties
    <3>2. ASSUME NEW j \in 1 .. Len(lru) - 1
          PROVE  t[j] = IF j < i THEN lru[j] ELSE lru[j + 1]
      <4>1. CASE j < i
        BY <2>1, <2>2, <2>4, <2>5, <3>1, <4>1
      <4>2. CASE ~(j < i)
        <5>1. t[j] = b[j - (i - 1)]
          BY <2>1, <2>2, <2>4, <2>5, <3>1, <4>2
        <5>2. j - (i - 1) \in 1 .. Len(lru) - i /\ i + (j - (i - 1)) = j + 1
          BY <2>1, <2>2, <4>2
        <5> QED
          BY <2>5, <4>2, <5>1, <5>2
      <4> QED
        BY <4>1, <4>2
    <3> QED
      BY <2>1, <2>2, <2>4, <2>5, <3>1, <3>2, SMTT(30)
  <2> HIDE DEF t
  <2>7. \A j \in 1 .. Len(t) : \E n \in 1 .. Len(lru) : t[j] = lru[n] /\ n = (IF j < i THEN j ELSE j + 1)
    BY <2>1, <2>2, <2>6
  <2>8. Distinct(t)
    BY <2>1, <2>2, <2>6, <2>7 DEF Distinct
  <2>9. RowsOf(t) \subseteq RowsOf(lru) \ {k}
    <3> SUFFICES ASSUME NEW j \in 1 .. Len(t) PROVE t[j] \in RowsOf(lru) \ {k}
      BY DEF RowsOf
    <3>1. PICK n \in 1 .. Len(lru) : t[j] = lru[n] /\ n = (IF j < i THEN j ELSE j + 1)
      BY <2>7
    <3>2. n # i
      BY <2>1, <2>2, <2>6, <3>1
    <3> QED
      BY <2>1, <3>1, <3>2 DEF Distinct, RowsOf
  <2> QED
    BY <2>3, <2>8, <2>9
<1> QED
  BY <1>1, <1>2

LEMMA UsedRows ==
    ASSUME lru \in Seq(Keys), Distinct(lru), NEW k \in Keys, NEW t \in Used(k)
    PROVE  Distinct(t) /\ RowsOf(t) \subseteq RowsOf(lru) \cup {k}
<1> DEFINE rest == Without(k)
<1>1. rest \in Seq(Keys) /\ Distinct(rest) /\ RowsOf(rest) \subseteq RowsOf(lru) \ {k}
  BY WithoutType, WithoutRows
<1>2. PICK i \in 0 .. Len(rest) :
         t = SubSeq(rest, 1, i) \o <<k>> \o SubSeq(rest, i + 1, Len(rest))
  BY DEF Used
<1> HIDE DEF rest
<1>3. Len(rest) \in Nat /\ i \in 0 .. Len(rest) /\ \A j \in 1 .. Len(rest) : rest[j] \in Keys
  BY <1>1, <1>2, LenProperties
<1> DEFINE a == SubSeq(rest, 1, i)
           b == SubSeq(rest, i + 1, Len(rest))
           c == a \o <<k>>
<1>4. a \in Seq(Keys) /\ Len(a) = i /\ \A j \in 1 .. i : a[j] = rest[j]
  <2>1. \A j \in 1 .. i : rest[j] \in Keys
    BY <1>2, <1>3
  <2> QED
    BY <1>3, <2>1, SubSeqProperties
<1>5. b \in Seq(Keys) /\ Len(b) = Len(rest) - i /\ \A j \in 1 .. Len(rest) - i : b[j] = rest[i + j]
  <2>1. \A j \in i + 1 .. Len(rest) : rest[j] \in Keys
    BY <1>2, <1>3
  <2> QED
    BY <1>3, <2>1, SubSeqProperties
<1> HIDE DEF a, b
<1>6. c \in Seq(Keys) /\ Len(c) = i + 1 /\ \A j \in 1 .. i + 1 : c[j] = IF j <= i THEN a[j] ELSE k
  <2>1. <<k>> \in Seq(Keys) /\ Len(<<k>>) = 1 /\ <<k>>[1] = k
    OBVIOUS
  <2>2. /\ c \in Seq(Keys) /\ Len(c) = Len(a) + Len(<<k>>)
        /\ \A j \in 1 .. Len(a) + Len(<<k>>) : c[j] = IF j <= Len(a) THEN a[j] ELSE <<k>>[j - Len(a)]
    BY <1>4, <2>1, ConcatProperties
  <2> QED
    BY <1>3, <1>4, <2>1, <2>2
<1> HIDE DEF c
<1>7. /\ Len(t) = Len(rest) + 1
      /\ \A j \in 1 .. Len(rest) + 1 :
            t[j] = IF j <= i THEN rest[j] ELSE IF j = i + 1 THEN k ELSE rest[j - 1]
  <2>1. t = c \o b
    BY <1>2 DEF a, b, c
  <2>2. /\ Len(t) = Len(c) + Len(b)
        /\ \A j \in 1 .. Len(c) + Len(b) : t[j] = IF j <= Len(c) THEN c[j] ELSE b[j - Len(c)]
    BY <1>5, <1>6, <2>1, ConcatProperties
  <2>20. Len(c) = i + 1 /\ Len(b) = Len(rest) - i /\ Len(c) + Len(b) = Len(rest) + 1
    BY <1>3, <1>5, <1>6
  <2>21. \A j \in 1 .. Len(rest) + 1 : t[j] = IF j <= i + 1 THEN c[j] ELSE b[j - (i + 1)]
    BY <2>2, <2>20
  <2>3. ASSUME NEW j \in 1 .. Len(rest) + 1
        PROVE  t[j] = IF j <= i THEN rest[j] ELSE IF j = i + 1 THEN k ELSE rest[j - 1]
    <3>0. j \in Int /\ 1 <= j /\ j <= Len(rest) + 1 /\ i \in Int /\ 0 <= i /\ i <= Len(rest)
      BY <1>3
    <3>1. CASE j <= i + 1
      <4>1. t[j] = c[j]
        BY <2>21, <3>1
      <4>2. c[j] = IF j <= i THEN a[j] ELSE k
        BY <1>6, <3>0, <3>1
      <4>3. j <= i => a[j] = rest[j]
        BY <1>4, <3>0
      <4> QED
        BY <3>0, <3>1, <4>1, <4>2, <4>3
    <3>2. CASE ~(j <= i + 1)
      <4>1. t[j] = b[j - (i + 1)]
        BY <2>21, <3>2
      <4>2. j - (i + 1) \in 1 .. Len(rest) - i /\ i + (j - (i + 1)) = j - 1
        BY <1>3, <3>2
      <4>3. b[j - (i + 1)] = rest[i + (j - (i + 1))]
        BY <1>5, <4>2
      <4>4. t[j] = rest[j - 1]
        BY <4>1, <4>2, <4>3
      <4>5. ~(j <= i) /\ j # i + 1
        BY <3>0, <3>2
      <4> QED
        BY <4>4, <4>5
    <3> QED
      BY <3>1, <3>2
  <2> QED
    BY <2>2, <2>20, <2>3
<1>8. k \notin RowsOf(rest)
  BY <1>1
<1>9. Distinct(t)
  <2> SUFFICES ASSUME NEW m \in 1 .. Len(t), NEW n \in 1 .. Len(t), t[m] = t[n] PROVE m = n
    BY DEF Distinct
  <2>1. \A j \in 1 .. Len(rest) : rest[j] # k
    BY <1>8 DEF RowsOf
  <2>2. \A j, l \in 1 .. Len(rest) : rest[j] = rest[l] => j = l
    BY <1>1 DEF Distinct
  <2> DEFINE at(j) == IF j <= i THEN j ELSE j - 1
  <2>3. ASSUME NEW j \in 1 .. Len(t), j # i + 1
        PROVE  at(j) \in 1 .. Len(rest) /\ t[j] = rest[at(j)] /\ t[j] # k
    BY <1>3, <1>7, <2>1, <2>3
  <2>4. t[i + 1] = k
    BY <1>3, <1>7
  <2>5. CASE m = i + 1 \/ n = i + 1
    BY <2>3, <2>4, <2>5
  <2>6. CASE m # i + 1 /\ n # i + 1
    <3>1. at(m) = at(n)
      BY <2>2, <2>3, <2>6
    <3> QED
      BY <1>3, <1>7, <2>6, <3>1
  <2> QED
    BY <2>5, <2>6
<1>10. RowsOf(t) \subseteq RowsOf(rest) \cup {k}
  <2> SUFFICES ASSUME NEW m \in 1 .. Len(t) PROVE t[m] \in RowsOf(rest) \cup {k}
    BY DEF RowsOf
  <2> QED
    BY <1>3, <1>7 DEF RowsOf
<1> QED
  BY <1>1, <1>9, <1>10

LEMMA CountRows ==
    ASSUME NEW s \in Seq(Keys)
    PROVE  /\ IsFiniteSet(RowsOf(s)) /\ Cardinality(RowsOf(s)) \in Nat
           /\ Cardinality(RowsOf(s)) <= Len(s)
           /\ Distinct(s) => Cardinality(RowsOf(s)) = Len(s)
<1>1. Len(s) \in Nat /\ s \in [1 .. Len(s) -> RowsOf(s)]
  BY LenProperties DEF RowsOf
<1>2. s \in Surjection(1 .. Len(s), RowsOf(s))
  BY <1>1 DEF Surjection, RowsOf
<1>3. IsFiniteSet(RowsOf(s)) /\ Cardinality(RowsOf(s)) <= Len(s)
  BY <1>1, <1>2, FS_NatSurjection, FS_SurjCardinalityBound DEF ExistsSurjection
<1>4. ASSUME Distinct(s)
      PROVE  Cardinality(RowsOf(s)) = Len(s)
  <2>1. s \in Bijection(1 .. Len(s), RowsOf(s))
    BY <1>1, <1>2, <1>4 DEF Bijection, Injection, IsInjective, Distinct
  <2> QED
    BY <1>1, <2>1, FS_CountingElements DEF ExistsBijection
<1> QED
  BY <1>3, <1>4, FS_CardinalityType

(* The rows that an eviction does not select. *)
LEMMA SelectRows ==
    ASSUME NEW s \in Seq(Keys), NEW n \in 1 .. Len(s)
    PROVE  Cardinality(RowsOf(s) \ RowsOf(SubSeq(s, 1, n))) <= Len(s) - n
<1> DEFINE v == SubSeq(s, 1, n)
           w == SubSeq(s, n + 1, Len(s))
<1>1. Len(s) \in Nat /\ \A j \in 1 .. Len(s) : s[j] \in Keys
  BY LenProperties
<1>2. Len(v) = n /\ \A j \in 1 .. n : v[j] = s[j]
  <2>1. \A j \in 1 .. n : s[j] \in Keys
    BY <1>1
  <2> QED
    BY <1>1, <2>1, SubSeqProperties
<1>3. w \in Seq(Keys) /\ Len(w) = Len(s) - n /\ \A j \in 1 .. Len(s) - n : w[j] = s[n + j]
  <2>1. \A j \in n + 1 .. Len(s) : s[j] \in Keys
    BY <1>1
  <2> QED
    BY <1>1, <2>1, SubSeqProperties
<1> HIDE DEF v, w
<1>4. RowsOf(s) \ RowsOf(v) \subseteq RowsOf(w)
  <2> SUFFICES ASSUME NEW j \in 1 .. Len(s), s[j] \notin RowsOf(v) PROVE s[j] \in RowsOf(w)
    BY DEF RowsOf
  <2>1. j > n
    BY <1>1, <1>2 DEF RowsOf
  <2>2. j - n \in 1 .. Len(w) /\ n + (j - n) = j
    BY <1>1, <1>3, <2>1
  <2>3. w[j - n] = s[j]
    BY <1>3, <2>2
  <2> QED
    BY <2>2, <2>3 DEF RowsOf
<1>5. IsFiniteSet(RowsOf(w)) /\ Cardinality(RowsOf(w)) <= Len(w) /\ Cardinality(RowsOf(w)) \in Nat
  BY <1>3, CountRows
<1>6. /\ IsFiniteSet(RowsOf(s) \ RowsOf(v))
      /\ Cardinality(RowsOf(s) \ RowsOf(v)) <= Cardinality(RowsOf(w))
  BY <1>4, <1>5, FS_Subset
<1>7. Cardinality(RowsOf(s) \ RowsOf(v)) \in Nat
  BY <1>6, FS_CardinalityType
<1>8. Cardinality(RowsOf(s) \ RowsOf(v)) <= Len(s) - n
  BY <1>1, <1>3, <1>5, <1>6, <1>7
<1> QED
  BY <1>8 DEF v

LEMMA TailRows ==
    ASSUME NEW s \in Seq(Keys), s # <<>>
    PROVE  /\ RowsOf(s) \subseteq {Head(s)} \cup RowsOf(Tail(s))
           /\ Len(s) = 1 => RowsOf(s) = {Head(s)}
<1>1. /\ Len(s) \in Nat /\ Len(Tail(s)) = Len(s) - 1 /\ Head(s) = s[1]
      /\ \A j \in 1 .. Len(Tail(s)) : Tail(s)[j] = s[j + 1]
  BY HeadTailProperties, LenProperties, EmptySeq
<1>2. ASSUME NEW j \in 1 .. Len(s), j # 1
      PROVE  s[j] \in RowsOf(Tail(s))
  <2>1. j - 1 \in 1 .. Len(Tail(s)) /\ (j - 1) + 1 = j
    BY <1>1, <1>2
  <2>2. Tail(s)[j - 1] = s[j]
    BY <1>1, <2>1
  <2> QED
    BY <2>1, <2>2 DEF RowsOf
<1>3. RowsOf(s) \subseteq {Head(s)} \cup RowsOf(Tail(s))
  BY <1>1, <1>2 DEF RowsOf
<1>4. ASSUME Len(s) = 1
      PROVE  RowsOf(s) = {Head(s)}
  BY <1>1, <1>4 DEF RowsOf
<1> QED
  BY <1>3, <1>4

(* Fewer rows are no more than more of them. *)
LEMMA FewerRows ==
    ASSUME NEW S, NEW T, IsFiniteSet(T), S \subseteq T
    PROVE  /\ Cardinality(S) \in Nat /\ Cardinality(T) \in Nat /\ Cardinality(S) <= Cardinality(T)
           /\ IsFiniteSet(S)
BY FS_Subset, FS_CardinalityType

LEMMA LimitType ==
    ASSUME CacheAssumption
    PROVE  Limits \cup {0} \subseteq Nat
BY DEF CacheAssumption

LEMMA OwesKept ==
    ASSUME TypeInv, CacheAssumption, NEW c \in Callers, Owes(c), enforced' = enforced,
           RowsOf(lru)' \subseteq RowsOf(lru),
           \/ call'[c] = call[c]
           \/ /\ call[c].pc = "remove" /\ call'[c].pc = "delete"
              /\ call'[c].limit = call[c].limit /\ call'[c].victims = call[c].victims
    PROVE  Owes(c)'
<1>1. call[c] \in CallState /\ enforced \in Nat /\ lru \in Seq(Keys)
  BY LimitType DEF TypeInv, TypeOK
<1>2. /\ Cardinality(RowsOf(lru)') <= Cardinality(RowsOf(lru))
      /\ Cardinality(RowsOf(lru)') \in Nat /\ Cardinality(RowsOf(lru)) \in Nat
  BY <1>1, CountRows, FewerRows
<1>3. /\ Cardinality(RowsOf(lru)' \ RowsOf(call[c].victims))
           <= Cardinality(RowsOf(lru) \ RowsOf(call[c].victims))
      /\ Cardinality(RowsOf(lru)' \ RowsOf(call[c].victims)) \in Nat
      /\ Cardinality(RowsOf(lru) \ RowsOf(call[c].victims)) \in Nat
  <2>1. IsFiniteSet(RowsOf(lru) \ RowsOf(call[c].victims))
    BY <1>1, CountRows, FewerRows
  <2>2. RowsOf(lru)' \ RowsOf(call[c].victims) \subseteq RowsOf(lru) \ RowsOf(call[c].victims)
    OBVIOUS
  <2> QED
    BY <2>1, <2>2, FewerRows
<1>4. CASE call[c].pc = "sum"
  BY <1>4 DEF Owes
<1>5. CASE call[c].pc = "select"
  <2>1. /\ call[c].limit = enforced /\ Cardinality(RowsOf(lru)) <= call[c].total
        /\ call'[c] = call[c] /\ call[c].total \in Nat
    BY <1>1, <1>5 DEF Owes, CallState
  <2>2. Cardinality(RowsOf(lru)') <= call[c].total
    BY <1>2, <2>1
  <2>3. (call[c].pc = "select" /\ call[c].limit = enforced /\ Cardinality(RowsOf(lru)) <= call[c].total)'
    BY <1>5, <2>1, <2>2
  <2> QED
    BY <2>3 DEF Owes
<1>6. CASE call[c].pc \in {"remove", "delete"}
  <2>1. /\ call[c].limit = enforced
        /\ Cardinality(RowsOf(lru) \ RowsOf(call[c].victims)) <= enforced
    BY <1>6 DEF Owes
  <2>2. /\ call'[c].pc \in {"remove", "delete"} /\ call'[c].limit = enforced'
        /\ call'[c].victims = call[c].victims
    BY <1>6, <2>1
  <2>3. Cardinality(RowsOf(lru)' \ RowsOf(call[c].victims)) <= enforced'
    BY <1>1, <1>3, <2>1
  <2>4. RowsOf(call[c].victims)' = RowsOf(call[c].victims)
    BY <2>2 DEF RowsOf
  <2> QED
    BY <2>2, <2>3, <2>4 DEF Owes
<1> QED
  BY <1>4, <1>5, <1>6 DEF Owes

(* Nothing is inserted, and whoever owes the limit still does or has paid. *)
LEMMA StillSettled ==
    ASSUME Settled, UNCHANGED <<enforced, faults>>, TypeInv, RowsOf(lru)' \subseteq RowsOf(lru),
           CacheAssumption,
           \A c \in Callers : Owes(c) => Owes(c)' \/ Cardinality(RowsOf(lru)') <= enforced
    PROVE  Settled'
<1>1. lru \in Seq(Keys) /\ enforced \in Nat
  BY LimitType DEF TypeInv, TypeOK
<1>2. /\ Cardinality(RowsOf(lru)') <= Cardinality(RowsOf(lru))
      /\ Cardinality(RowsOf(lru)') \in Nat /\ Cardinality(RowsOf(lru)) \in Nat
  BY <1>1, CountRows, FewerRows
<1> SUFFICES ASSUME faults' = 0, enforced' > 0
             PROVE  Cardinality(RowsOf(lru)') <= enforced' \/ \E c \in Callers : Owes(c)'
  BY DEF Settled
<1>3. Cardinality(RowsOf(lru)) <= enforced \/ \E c \in Callers : Owes(c)
  BY DEF Settled
<1>4. CASE Cardinality(RowsOf(lru)) <= enforced
  BY <1>1, <1>2, <1>4
<1>5. CASE \E c \in Callers : Owes(c)
  BY <1>5
<1> QED
  BY <1>3, <1>4, <1>5

Evicting == {"sum", "select", "remove", "delete"}

LEMMA EvictionsApart ==
    ASSUME Settled, UNCHANGED <<enforced, faults>>, TypeInv, RowsOf(lru)' \subseteq RowsOf(lru),
           CacheAssumption, \A c \in Callers : call[c].pc \in Evicting => call'[c] = call[c]
    PROVE  Settled'
<1>1. ASSUME NEW c \in Callers, Owes(c)
      PROVE  Owes(c)'
  <2>1. call'[c] = call[c]
    BY <1>1 DEF Owes, Evicting
  <2> QED
    BY <1>1, <2>1, OwesKept
<1> QED
  BY <1>1, StillSettled

(* Steps between which no row is inserted and no eviction goes on. *)
LEMMA OthersSettle ==
    ASSUME TypeInv, CacheAssumption, FitInv,
           \/ \E r \in Readers, k \in Keys : Start(r, k)
           \/ \E r \in Readers : Get(r) \/ Touch(r) \/ Join(r) \/ (\E ok \in BOOLEAN : Load(r, ok))
                                  \/ Rename(r) \/ Close(r) \/ Forget(r) \/ LeaveFlight(r)
           \/ Clear \/ ClearRows \/ ClearFails \/ (\E k \in Keys : ClearFile(k))
    PROVE  FitInv'
<1>1. lru \in Seq(Keys) /\ call \in [Callers -> CallState] /\ \A r \in Readers : r \in Callers
  BY DEF TypeInv, TypeOK, Callers
<1>2. UNCHANGED <<enforced, faults>>
  BY DEF Start, Get, Touch, Join, Load, Rename, Close, Forget, LeaveFlight, Clear, ClearRows,
         ClearFails, ClearFile, bounds
<1>3. Distinct(lru)' /\ RowsOf(lru)' \subseteq RowsOf(lru)
  <2>1. CASE lru' = lru
    BY <2>1 DEF FitInv, Distinct, RowsOf
  <2>2. CASE ClearRows
    <3>1. lru' = <<>> /\ Len(<<>>) = 0
      BY <2>2 DEF ClearRows
    <3> QED
      BY <3>1 DEF Distinct, RowsOf
  <2>3. ASSUME NEW r \in Readers, Touch(r)
        PROVE  Distinct(lru)' /\ RowsOf(lru)' \subseteq RowsOf(lru)
    <3>1. CASE Places(call[r].key) = {}
      BY <2>1, <2>3, <3>1 DEF Touch
    <3>2. CASE Places(call[r].key) # {}
      <4>1. call[r].key \in RowsOf(lru) /\ call[r].key \in Keys /\ lru' \in Used(call[r].key)
        <5>1. call[r].key \in Keys
          BY <1>1, <2>3 DEF TypeInv, AtWork, Touch, At
        <5> QED
          BY <2>3, <3>2, <5>1 DEF Touch, Places, RowsOf
      <4>2. Distinct(lru') /\ RowsOf(lru') \subseteq RowsOf(lru) \cup {call[r].key}
        BY <1>1, <4>1, UsedRows DEF FitInv
      <4> QED
        BY <4>1, <4>2 DEF Distinct, RowsOf
    <3> QED
      BY <3>1, <3>2
  <2>4. lru' = lru \/ ClearRows \/ \E r \in Readers : Touch(r)
    BY DEF Start, Get, Join, Load, Rename, Close, Forget, LeaveFlight, Clear, ClearFails, ClearFile, disk
  <2> QED
    BY <2>1, <2>2, <2>3, <2>4
<1>4. \A c \in Callers : call[c].pc \in Evicting => call'[c] = call[c]
  <2>1. CASE Clear \/ ClearRows \/ ClearFails \/ (\E k \in Keys : ClearFile(k))
    BY <2>1 DEF Clear, ClearRows, ClearFails, ClearFile
  <2>2. ASSUME NEW r \in Readers, Close(r)
        PROVE  \A c \in Callers : call[c].pc \in Evicting => call'[c] = call[c]
    BY <2>2 DEF Close, At, Evicting
  <2>3. ASSUME NEW r \in Readers, call[r].pc \notin Evicting, NEW s, call' = [call EXCEPT ![r] = s]
        PROVE  \A c \in Callers : call[c].pc \in Evicting => call'[c] = call[c]
    BY <1>1, <2>3
  <2>4. ASSUME NEW r \in Readers, \E k \in Keys : Start(r, k)
        PROVE  \A c \in Callers : call[c].pc \in Evicting => call'[c] = call[c]
    BY <2>3, <2>4 DEF Start, At, Evicting
  <2>5. ASSUME NEW r \in Readers, Get(r) \/ (\E ok \in BOOLEAN : Load(r, ok)) \/ Rename(r)
        PROVE  \A c \in Callers : call[c].pc \in Evicting => call'[c] = call[c]
    BY <2>3, <2>5 DEF Get, Load, Rename, Goto, At, Evicting
  <2>6. ASSUME NEW r \in Readers, Touch(r) \/ Forget(r) \/ LeaveFlight(r) \/ Join(r)
        PROVE  \A c \in Callers : call[c].pc \in Evicting => call'[c] = call[c]
    BY <2>3, <2>6 DEF Touch, Forget, LeaveFlight, Join, Goto, At, Evicting
  <2> QED
    BY <2>1, <2>2, <2>4, <2>5, <2>6
<1>5. Settled'
  BY <1>2, <1>3, <1>4, EvictionsApart DEF FitInv
<1> QED
  BY <1>3, <1>5 DEF FitInv

(* Who has inserted a row, or saved the limit, is about to measure. *)
LEMMA InsertSettles ==
    ASSUME TypeInv, CacheAssumption, FitInv,
           (\E r \in Readers : Insert(r)) \/ \E l \in Limits : SaveLimit(l)
    PROVE  FitInv'
<1>1. lru \in Seq(Keys) /\ call \in [Callers -> CallState] /\ Readers \subseteq Callers /\ Saver \in Callers
  BY DEF TypeInv, TypeOK, Callers
<1>2. ASSUME NEW r \in Readers, Insert(r)
      PROVE  FitInv'
  <2>1. call[r].key \in Keys /\ lru' \in Used(call[r].key)
    BY <1>2 DEF TypeInv, AtWork, Insert, At
  <2>2. Distinct(lru)'
    BY <1>1, <2>1, UsedRows DEF FitInv, Distinct
  <2>3. call'[r].pc = "sum"
    BY <1>1, <1>2 DEF Insert, Goto, CallState
  <2> QED
    BY <1>1, <2>2, <2>3 DEF FitInv, Settled, Owes
<1>3. ASSUME NEW l \in Limits, SaveLimit(l)
      PROVE  FitInv'
  <2>1. call'[Saver].pc = "sum" /\ lru' = lru
    BY <1>1, <1>3 DEF SaveLimit, Called, disk
  <2>2. Distinct(lru)'
    BY <2>1 DEF FitInv, Distinct
  <2> QED
    BY <1>1, <2>1, <2>2 DEF FitInv, Settled, Owes
<1> QED
  BY <1>2, <1>3

(* The rows are only promised to fit while nothing has failed. *)
LEMMA FaultSettles ==
    ASSUME TypeInv, CacheAssumption, FitInv,
           \/ \E r \in Readers : PutFails(r)
           \/ \E c \in Callers : DeleteFails(c)
           \/ SaveFails \/ Restart
    PROVE  FitInv'
<1>1. lru' = lru /\ faults' = faults + 1 /\ faults \in Nat
  BY DEF PutFails, DeleteFails, SaveFails, Restart, Fault, disk, TypeInv, TypeOK, CacheAssumption
<1>2. faults' # 0
  BY <1>1
<1> QED
  BY <1>1, <1>2 DEF FitInv, Settled, Distinct

LEMMA SumSettles ==
    ASSUME TypeInv, CacheAssumption, FitInv, NEW c \in Callers, Sum(c)
    PROVE  FitInv'
<1>1. /\ lru \in Seq(Keys) /\ Len(lru) \in Nat /\ call[c] \in CallState /\ call[c].limit \in Nat
      /\ call \in [Callers -> CallState]
  BY LimitType, LenProperties DEF TypeInv, TypeOK, CallState
<1>2. lru' = lru /\ enforced' = call[c].limit /\ Distinct(lru)
  BY DEF Sum, disk, FitInv
<1>3. Cardinality(RowsOf(lru)) = Len(lru) /\ RowsOf(lru)' = RowsOf(lru)
  BY <1>1, <1>2, CountRows DEF RowsOf
<1>4. CASE call[c].limit > 0 /\ Len(lru) > call[c].limit
  <2>1. /\ call'[c].pc = "select" /\ call'[c].limit = call[c].limit
        /\ call'[c].total = Len(lru)
    BY <1>1, <1>4 DEF Sum, CallState
  <2>2. Owes(c)'
    BY <1>1, <1>2, <1>3, <2>1 DEF Owes
  <2> QED
    BY <1>2, <2>2 DEF FitInv, Settled, Distinct
<1>5. CASE ~(call[c].limit > 0 /\ Len(lru) > call[c].limit)
  <2>1. enforced' > 0 => Cardinality(RowsOf(lru)') <= enforced'
    BY <1>1, <1>2, <1>3, <1>5
  <2> QED
    BY <1>2, <2>1 DEF FitInv, Settled, Distinct
<1> QED
  BY <1>4, <1>5

(* What is left when the selected rows are gone fits, though rows may have *)
(* gone since they were counted.                                           *)
LEMMA SelectSettles ==
    ASSUME TypeInv, CacheAssumption, FitInv, NEW c \in Callers, Select(c)
    PROVE  FitInv'
<1> DEFINE n == Excess(call[c].total, call[c].limit, Len(lru))
<1>1. /\ lru \in Seq(Keys) /\ Len(lru) \in Nat /\ call[c] \in CallState
      /\ call[c].limit \in Nat /\ call[c].total \in Nat
      /\ call \in [Callers -> CallState]
  BY LimitType, LenProperties DEF TypeInv, TypeOK, CallState
<1>2. /\ call[c].pc = "select" /\ call[c].total > call[c].limit
      /\ lru' = lru /\ UNCHANGED <<enforced, faults>> /\ Distinct(lru)
  BY DEF Select, At, TypeInv, AtWork, disk, bounds, FitInv
<1>3. Cardinality(RowsOf(lru)) = Len(lru) /\ RowsOf(lru)' = RowsOf(lru)
  BY <1>1, <1>2, CountRows DEF RowsOf
<1>4. n \in Nat /\ n <= Len(lru) /\ Len(lru) - n <= IF Len(lru) <= call[c].total THEN call[c].limit ELSE Len(lru)
  BY <1>1, <1>2 DEF Excess
<1>5. \A d \in Callers : d # c => call'[d] = call[d]
  BY <1>1 DEF Select
<1>6. ASSUME Owes(c)
      PROVE  Owes(c)' \/ Cardinality(RowsOf(lru)') <= enforced
  <2>1. call[c].limit = enforced /\ Len(lru) <= call[c].total
    BY <1>2, <1>3, <1>6 DEF Owes
  <2>2. CASE n = 0
    BY <1>1, <1>3, <1>4, <2>1, <2>2
  <2>3. CASE n # 0
    <3>1. /\ call'[c].pc = "remove" /\ call'[c].limit = call[c].limit
          /\ call'[c].victims = SubSeq(lru, 1, n)
      BY <1>1, <2>3 DEF Select, CallState
    <3> HIDE DEF n
    <3>2. Cardinality(RowsOf(lru) \ RowsOf(SubSeq(lru, 1, n))) <= Len(lru) - n
      BY <1>1, <1>4, <2>3, SelectRows
    <3>3. Cardinality(RowsOf(lru) \ RowsOf(SubSeq(lru, 1, n))) \in Nat
      BY <1>1, CountRows, FewerRows
    <3>4. Cardinality(RowsOf(lru) \ RowsOf(SubSeq(lru, 1, n))) <= enforced
      BY <1>1, <1>4, <2>1, <3>2, <3>3
    <3>5. RowsOf(call[c].victims)' = RowsOf(SubSeq(lru, 1, n))
      BY <3>1 DEF RowsOf
    <3>6. Cardinality(RowsOf(lru) \ RowsOf(call[c].victims))' <= enforced'
      BY <1>2, <1>3, <3>4, <3>5
    <3> QED
      BY <1>2, <2>1, <3>1, <3>6 DEF Owes
  <2> QED
    BY <2>2, <2>3
<1>7. ASSUME NEW d \in Callers, Owes(d)
      PROVE  Owes(d)' \/ Cardinality(RowsOf(lru)') <= enforced
  <2>1. d # c => Owes(d)'
    BY <1>2, <1>3, <1>5, <1>7, OwesKept
  <2> QED
    BY <1>6, <1>7, <2>1
<1>8. Settled'
  BY <1>2, <1>3, <1>7, StillSettled DEF FitInv
<1> QED
  BY <1>2, <1>8 DEF FitInv, Distinct

LEMMA RemoveSettles ==
    ASSUME TypeInv, CacheAssumption, FitInv, NEW c \in Callers, RemoveVictim(c)
    PROVE  FitInv'
<1>1. call \in [Callers -> CallState] /\ call[c] \in CallState
  BY DEF TypeInv, TypeOK
<1>2. lru' = lru /\ UNCHANGED <<enforced, faults>> /\ call[c].pc = "remove" /\ Distinct(lru)
  BY DEF RemoveVictim, At, bounds, FitInv
<1>3. /\ call'[c].pc = "delete" /\ call'[c].limit = call[c].limit /\ call'[c].victims = call[c].victims
      /\ \A d \in Callers : d # c => call'[d] = call[d]
  BY <1>1 DEF RemoveVictim, Goto, CallState
<1>4. RowsOf(lru)' = RowsOf(lru)
  BY <1>2 DEF RowsOf
<1>5. ASSUME NEW d \in Callers, Owes(d)
      PROVE  Owes(d)'
  <2>1. \/ call'[d] = call[d]
        \/ /\ call[d].pc = "remove" /\ call'[d].pc = "delete"
           /\ call'[d].limit = call[d].limit /\ call'[d].victims = call[d].victims
    BY <1>2, <1>3
  <2> QED
    BY <1>2, <1>4, <1>5, <2>1, OwesKept
<1>6. Settled'
  BY <1>2, <1>4, <1>5, StillSettled DEF FitInv
<1> QED
  BY <1>2, <1>6 DEF FitInv, Distinct

(* A victim that somebody else has deleted before is deleted all the same. *)
LEMMA DeleteSettles ==
    ASSUME TypeInv, CacheAssumption, FitInv, NEW c \in Callers, DeleteVictim(c)
    PROVE  FitInv'
<1> DEFINE v == call[c].victims
<1>1. /\ lru \in Seq(Keys) /\ call \in [Callers -> CallState] /\ call[c] \in CallState
      /\ v \in Seq(Keys) /\ v # <<>> /\ call[c].pc = "delete"
  BY DEF DeleteVictim, At, TypeInv, TypeOK, AtWork, CallState
<1>2. /\ lru' = Without(Head(v)) /\ UNCHANGED <<enforced, faults>> /\ Distinct(lru)
      /\ enforced \in Nat
  BY LimitType DEF DeleteVictim, bounds, FitInv, TypeInv, TypeOK
<1>3. Distinct(lru') /\ RowsOf(lru') \subseteq RowsOf(lru) \ {Head(v)}
  BY <1>1, <1>2, WithoutRows
<1>4. \A d \in Callers : d # c => call'[d] = call[d]
  BY <1>1 DEF DeleteVictim, Deleted
<1>5. ASSUME Owes(c)
      PROVE  Owes(c)' \/ Cardinality(RowsOf(lru')) <= enforced
  <2>1. call[c].limit = enforced /\ Cardinality(RowsOf(lru) \ RowsOf(v)) <= enforced
    BY <1>1, <1>5 DEF Owes
  <2>2. IsFiniteSet(RowsOf(lru) \ RowsOf(v))
    BY <1>1, CountRows, FewerRows
  <2>3. CASE Len(v) = 1
    <3>1. RowsOf(lru') \subseteq RowsOf(lru) \ RowsOf(v)
      BY <1>1, <1>3, <2>3, TailRows
    <3>2. /\ Cardinality(RowsOf(lru')) <= Cardinality(RowsOf(lru) \ RowsOf(v))
          /\ Cardinality(RowsOf(lru')) \in Nat /\ Cardinality(RowsOf(lru) \ RowsOf(v)) \in Nat
      BY <2>2, <3>1, FewerRows
    <3> QED
      BY <1>2, <2>1, <3>2
  <2>4. CASE Len(v) # 1
    <3>1. call'[c].pc = "remove" /\ call'[c].limit = call[c].limit /\ call'[c].victims = Tail(v)
      BY <1>1, <2>4 DEF DeleteVictim, Deleted, CallState
    <3>2. RowsOf(lru') \ RowsOf(Tail(v)) \subseteq RowsOf(lru) \ RowsOf(v)
      BY <1>1, <1>3, TailRows
    <3>3. /\ Cardinality(RowsOf(lru') \ RowsOf(Tail(v))) <= Cardinality(RowsOf(lru) \ RowsOf(v))
          /\ Cardinality(RowsOf(lru') \ RowsOf(Tail(v))) \in Nat
          /\ Cardinality(RowsOf(lru) \ RowsOf(v)) \in Nat
      BY <2>2, <3>2, FewerRows
    <3>4. Cardinality(RowsOf(lru') \ RowsOf(call'[c].victims)) <= enforced'
      BY <1>2, <2>1, <3>1, <3>3
    <3> QED
      BY <1>2, <2>1, <3>1, <3>4 DEF Owes, RowsOf
  <2> QED
    BY <2>3, <2>4
<1>6. RowsOf(lru)' \subseteq RowsOf(lru)
  BY <1>3 DEF RowsOf
<1>7. ASSUME NEW d \in Callers, Owes(d)
      PROVE  Owes(d)' \/ Cardinality(RowsOf(lru)') <= enforced
  <2>1. CASE d # c
    BY <1>2, <1>4, <1>6, <1>7, <2>1, OwesKept
  <2>2. CASE d = c
    BY <1>5, <1>7, <2>2 DEF RowsOf
  <2> QED
    BY <2>1, <2>2
<1>8. Settled'
  BY <1>2, <1>6, <1>7, StillSettled DEF FitInv
<1>9. Distinct(lru)'
  BY <1>3 DEF Distinct
<1> QED
  BY <1>8, <1>9 DEF FitInv

LEMMA FitStep ==
    ASSUME TypeInv, CacheAssumption, FitInv, [Next]_vars
    PROVE  FitInv'
<1>1. CASE UNCHANGED vars
  <2>1. UNCHANGED <<lru, call, enforced, faults>>
    BY <1>1 DEF vars, disk, bounds
  <2>2. Settled'
    BY <2>1, EvictionsApart DEF FitInv, RowsOf
  <2>3. Distinct(lru)'
    BY <2>1 DEF FitInv, Distinct
  <2> QED
    BY <2>2, <2>3 DEF FitInv
<1>2. CASE Next
  BY <1>2, OthersSettle, InsertSettles, FaultSettles, SumSettles, SelectSettles, RemoveSettles, DeleteSettles
  DEF Next, ReaderStep, EvictStep
<1> QED
  BY <1>1, <1>2

(* Whatever evictions overlap, whoever saves another limit and whoever     *)
(* reads, touches or clears meanwhile: when the last eviction is over and  *)
(* nothing has failed, the rows fit the limit last measured against.       *)
THEOREM LimitHolds == Spec => []RowsFitLimit
<1>1. Init => TypeInv /\ FitInv
  <2> SUFFICES ASSUME Init PROVE TypeInv /\ FitInv
    OBVIOUS
  <2>1. Distinct(lru) /\ enforced = 0
    <3>1. lru = <<>> /\ Len(<<>>) = 0
      BY DEF Init
    <3> QED
      BY <3>1 DEF Init, Distinct
  <2> QED
    BY <2>1, InitType, CacheAssumption DEF FitInv, Settled
<1>2. TypeInv /\ FitInv /\ [Next]_vars => TypeInv' /\ FitInv'
  BY TypeStep, FitStep, CacheAssumption
<1>3. TypeInv /\ FitInv => RowsFitLimit
  <2> SUFFICES ASSUME TypeInv, FitInv, faults = 0, enforced > 0,
                      \A c \in Callers : call[c].pc \notin {"sum", "select", "remove", "delete"}
               PROVE  Len(lru) <= enforced
    BY DEF RowsFitLimit
  <2>1. Cardinality(RowsOf(lru)) = Len(lru)
    BY CountRows DEF FitInv, TypeInv, TypeOK
  <2> QED
    BY <2>1 DEF FitInv, Settled, Owes
<1> QED
  BY <1>1, <1>2, <1>3, PTL DEF Spec
=============================================================================
