------------------------- MODULE RangeReaderProofs -------------------------
(***************************************************************************)
(* ReadAt returns the file: blocks are stretches of it whatever size they  *)
(* were fetched with, copy takes a piece of one, and the pieces join.      *)
(*                                                                         *)
(* Lemmas about Bytes come first, then what each kind of step makes of a   *)
(* call, then the inductive invariant ReadInv and the theorems.            *)
(***************************************************************************)
EXTENDS RangeReader, SequenceTheorems, TLAPS

-----------------------------------------------------------------------------
(* Stretches of bytes.                                                     *)

LEMMA BytesAre ==
    ASSUME NEW i \in Int, NEW j \in Int, i <= j + 1
    PROVE  /\ Bytes(i, j) \in Seq(Int)
           /\ Len(Bytes(i, j)) = j - i + 1
           /\ \A n \in 1 .. j - i + 1 : Bytes(i, j)[n] = i + n - 1
<1> DEFINE m == j - i + 1
<1>1. m \in Nat
    OBVIOUS
<1>2. Bytes(i, j) = [n \in 1 .. m |-> i + n - 1]
    BY DEF Bytes
<1>3. \A n \in 1 .. m : i + n - 1 \in Int
    BY <1>1
<1>4. Bytes(i, j) \in [1 .. m -> Int]
    BY <1>2, <1>3
<1>5. Bytes(i, j) \in Seq(Int) /\ Len(Bytes(i, j)) = m
    BY <1>1, <1>4, LenProperties, SMT
<1> QED
    BY <1>2, <1>5

(* Names for the two operators, which the provers would otherwise expand   *)
(* wherever sequences are compared.                                        *)
Cut(b, from, to) == SubSeq(b, from, to)
Join(a, b) == a \o b

LEMMA PieceOfBytes ==
    ASSUME NEW i \in Int, NEW j \in Int, NEW from \in Int, NEW to \in Int,
           NEW lo \in Int, NEW hi \in Int,
           1 <= from, from <= to, to <= j - i + 1, lo = i + from - 1, hi = i + to - 1
    PROVE  Cut(Bytes(i, j), from, to) = Bytes(lo, hi)
<1> DEFINE b == Bytes(i, j)
           t == Bytes(lo, hi)
           s == SubSeq(b, from, to)
<1>0. i <= j + 1 /\ lo <= hi + 1
    OBVIOUS
<1>1. b \in Seq(Int) /\ Len(b) = j - i + 1 /\ \A k \in 1 .. j - i + 1 : b[k] = i + k - 1
    BY <1>0, BytesAre
<1>2. t \in Seq(Int) /\ Len(t) = hi - lo + 1 /\ \A k \in 1 .. hi - lo + 1 : t[k] = lo + k - 1
    BY <1>0, BytesAre
<1> HIDE DEF b, t
<1>3. \A k \in from .. to : b[k] \in Int
    BY <1>1
<1>4. s \in Seq(Int) /\ Len(s) = to - from + 1 /\ \A k \in 1 .. to - from + 1 : s[k] = b[from + k - 1]
    BY <1>3, SubSeqProperties
<1> HIDE DEF s
<1>5. \A k \in 1 .. to - from + 1 : s[k] = t[k]
    <2>1. TAKE k \in 1 .. to - from + 1
    <2>2. s[k] = b[from + k - 1]
        BY <1>4
    <2>3. from + k - 1 \in 1 .. j - i + 1
        OBVIOUS
    <2>4. b[from + k - 1] = i + (from + k - 1) - 1
        BY <1>1, <2>3
    <2>5. k \in 1 .. hi - lo + 1 /\ t[k] = lo + k - 1
        BY <1>2
    <2> QED
        BY <2>2, <2>4, <2>5
<1>6. Len(s) = Len(t) /\ \A k \in 1 .. Len(s) : s[k] = t[k]
    BY <1>2, <1>4, <1>5
<1>7. s = t
    BY <1>2, <1>4, <1>6, SeqEqual
<1> QED
    BY <1>7 DEF s, t, b, Cut

LEMMA BytesJoin ==
    ASSUME NEW i \in Int, NEW j \in Int, NEW k \in Int, NEW next \in Int, i <= j + 1, j <= k, next = j + 1
    PROVE  Join(Bytes(i, j), Bytes(next, k)) = Bytes(i, k)
<1> DEFINE a == Bytes(i, j)
           b == Bytes(next, k)
           c == Bytes(i, k)
<1>0. next <= k + 1 /\ i <= k + 1
    OBVIOUS
<1>1. a \in Seq(Int) /\ Len(a) = j - i + 1 /\ \A n \in 1 .. j - i + 1 : a[n] = i + n - 1
    BY BytesAre
<1>2. b \in Seq(Int) /\ Len(b) = k - next + 1 /\ \A n \in 1 .. k - next + 1 : b[n] = next + n - 1
    BY <1>0, BytesAre
<1>3. c \in Seq(Int) /\ Len(c) = k - i + 1 /\ \A n \in 1 .. k - i + 1 : c[n] = i + n - 1
    BY <1>0, BytesAre
<1> HIDE DEF a, b, c
<1>4. /\ a \o b \in Seq(Int) /\ Len(a \o b) = Len(a) + Len(b)
      /\ \A n \in 1 .. Len(a) + Len(b) : (a \o b)[n] = IF n <= Len(a) THEN a[n] ELSE b[n - Len(a)]
    BY <1>1, <1>2, ConcatProperties
<1>5. Len(a \o b) = Len(c) /\ Len(c) = k - i + 1
    BY <1>1, <1>2, <1>3, <1>4
<1>6. \A n \in 1 .. k - i + 1 : (a \o b)[n] = c[n]
    <2>1. TAKE n \in 1 .. k - i + 1
    <2>2. c[n] = i + n - 1
        BY <1>3
    <2>3. CASE n <= j - i + 1
        BY <1>1, <1>2, <1>4, <2>2, <2>3
    <2>4. CASE ~ (n <= j - i + 1)
        <3> DEFINE p == n - (j - i + 1)
        <3>1. p \in 1 .. k - next + 1 /\ next + p - 1 = i + n - 1
            BY <2>4
        <3>2. n \in 1 .. Len(a) + Len(b) /\ ~ (n <= Len(a)) /\ n - Len(a) = p
            BY <1>1, <1>2, <2>4
        <3>3. (a \o b)[n] = b[p]
            BY <1>4, <3>2
        <3> HIDE DEF p
        <3> QED
            BY <1>2, <2>2, <3>1, <3>3
    <2> QED
        BY <2>3, <2>4
<1>7. a \o b = c
    BY <1>3, <1>4, <1>5, <1>6, SeqEqual
<1> QED
    BY <1>7 DEF a, b, c, Join

LEMMA Division ==
    ASSUME NEW n \in Nat, NEW s \in Nat \ {0}
    PROVE  /\ n \div s \in Nat
           /\ n % s \in 0 .. s - 1
           /\ n = (n \div s) * s + (n % s)
    OBVIOUS

-----------------------------------------------------------------------------
(* The inductive invariant.                                                *)

Fetching == {"peek", "ask", "save", "request", "drop", "put"}

(* Whatever size a block was fetched with, its key tells. *)
CacheRight == \A e \in cached : e.data = BlockOf(e.key[1], e.key[2])

Goal(d) == Min2(d.len, Size - d.off)

(* What a call has copied so far is the beginning of its range. *)
Reads(d) ==
    /\ d.pc \in Fetching \cup {"block"} =>
          /\ d.size \in BlockSizes /\ d.off \in 0 .. Size - 1
          /\ Len(d.got) <= Goal(d)
          /\ d.got = Bytes(d.off, d.off + Len(d.got) - 1)
    /\ d.pc \in Fetching => Len(d.got) < Goal(d)

(* ReadsTheFile, of one call. *)
Returns(d) ==
    d.pc = "done" =>
        /\ d.got = Bytes(d.off, d.off + Len(d.got) - 1)
        /\ d.err = "none" => Len(d.got) = d.len
        /\ d.err = "EOF" => \/ d.off >= Size /\ d.got = <<>>
                            \/ d.off + d.len > Size /\ d.off + Len(d.got) = Size
                            \/ d.off < 0 /\ d.got = <<>>
        /\ d.err # "UnexpectedEOF"
        /\ Len(d.got) <= d.len

(* URLs are numbered as 115 makes them; a refused one is of this fetch.    *)
Retries(d, made) ==
    /\ d.url <= made /\ d.refused <= made
    /\ d.pc \in {"idle", "block", "peek", "done"} => d.refused = 0
    /\ d.pc \in {"save", "request"} /\ d.refused # 0 => d.url > d.refused

Right(d, made) == Reads(d) /\ Returns(d) /\ Retries(d, made)

ReadInv ==
    /\ TypeOK
    /\ CacheRight
    /\ stored.url <= asked
    /\ \A r \in Readers : Right(reader[r], asked)

-----------------------------------------------------------------------------
(* The step that copies.                                                   *)

(* The block around an offset, and where the offset is in it. *)
LEMMA BlockAround ==
    ASSUME NEW size \in BlockSizes, NEW n \in 0 .. Size - 1
    PROVE  /\ n \div size \in Nat
           /\ \E lo \in Nat, hi \in Nat :
                 /\ BlockOf(size, n \div size) = Bytes(lo, hi)
                 /\ lo <= n /\ n <= hi /\ hi < Size
                 /\ n % size = n - lo
                 /\ BlockOf(size, n \div size) \in Seq(Int)
                 /\ Len(BlockOf(size, n \div size)) = hi - lo + 1
<1>0. Size \in Nat /\ BlockSizes \subseteq Nat \ {0}
    BY RangeAssumption
<1> DEFINE q == n \div size
           lo == q * size
           hi == Min2(q * size + size - 1, Size - 1)
<1>1. n \in Nat /\ size \in Nat \ {0}
    BY <1>0
<1>2. q \in Nat /\ n % size \in 0 .. size - 1 /\ n = q * size + (n % size)
    BY <1>1, Division
<1> HIDE DEF q
<1>3. lo \in Nat
    BY <1>0, <1>1, <1>2
<1>4. n = lo + (n % size)
    BY <1>2
<1>5. hi = IF lo + size - 1 < Size - 1 THEN lo + size - 1 ELSE Size - 1
    BY DEF Min2
<1>6. BlockOf(size, q) = Bytes(lo, hi)
    BY DEF BlockOf
<1> HIDE DEF lo, hi
<1>7. hi \in Nat /\ lo <= n /\ n <= hi /\ hi < Size /\ n % size = n - lo
    BY <1>0, <1>1, <1>2, <1>3, <1>4, <1>5
<1>8. Bytes(lo, hi) \in Seq(Int) /\ Len(Bytes(lo, hi)) = hi - lo + 1
    <2>1. lo \in Int /\ hi \in Int /\ lo <= hi + 1
        BY <1>0, <1>3, <1>7
    <2> QED
        BY <2>1, BytesAre
<1>9. \E l \in Nat, h \in Nat :
          /\ BlockOf(size, q) = Bytes(l, h)
          /\ l <= n /\ n <= h /\ h < Size
          /\ n % size = n - l
          /\ BlockOf(size, q) \in Seq(Int)
          /\ Len(BlockOf(size, q)) = h - l + 1
    BY <1>3, <1>6, <1>7, <1>8
<1> QED
    BY <1>2, <1>9 DEF q

(* The part of a block behind offset, after the bytes before it. *)
Fits(off, end, last, lo, hi, from, to) ==
    /\ {off, end, last, lo, hi, from, to} \subseteq Int
    /\ off <= end + 1 /\ end < last /\ 1 <= from
    /\ end + 1 = lo + from - 1 /\ last = lo + to - 1 /\ last <= hi

LEMMA PieceJoins ==
    ASSUME NEW off, NEW end, NEW last, NEW lo, NEW hi, NEW from, NEW to,
           Fits(off, end, last, lo, hi, from, to)
    PROVE  Join(Bytes(off, end), Cut(Bytes(lo, hi), from, to)) = Bytes(off, last)
<1> DEFINE abs == end + 1
<1>0. /\ off \in Int /\ end \in Int /\ last \in Int /\ lo \in Int /\ hi \in Int
      /\ from \in Int /\ to \in Int
    BY DEF Fits
<1>1. /\ from <= to /\ to <= hi - lo + 1
      /\ abs \in Int /\ abs = lo + from - 1 /\ abs = end + 1 /\ end <= last
      /\ 1 <= from /\ off <= end + 1 /\ last = lo + to - 1
    BY <1>0 DEF Fits
<1> HIDE DEF abs
<1>2. Cut(Bytes(lo, hi), from, to) = Bytes(abs, last)
    BY <1>0, <1>1, PieceOfBytes
<1>3. Join(Bytes(off, end), Bytes(abs, last)) = Bytes(off, last)
    BY <1>0, <1>1, BytesJoin
<1> QED
    BY <1>2, <1>3

(* The part of the block a call copies, and what it has afterwards. *)
Offset(d)      == (d.off + Len(d.got)) % d.size
Taken(d, block) == Min2(Goal(d) - Len(d.got), Len(block) - Offset(d))
Longer(d, block) == Join(d.got, Cut(block, Offset(d) + 1, Offset(d) + Taken(d, block)))

(* copy never finds a block too short, takes at least one byte, and what   *)
(* it has then is again the beginning of the range.                        *)
LEMMA LongerIsRight ==
    ASSUME NEW d \in ReaderState, NEW block, d.pc \in Fetching \cup {"block"}, Reads(d), Len(d.got) < Goal(d),
           block = BlockOf(d.size, (d.off + Len(d.got)) \div d.size)
    PROVE  /\ Offset(d) \in Nat /\ Len(block) \in Nat /\ Offset(d) < Len(block)
           /\ Longer(d, block) \in Seq(Int)
           /\ Len(Longer(d, block)) <= Goal(d)
           /\ Longer(d, block) = Bytes(d.off, d.off + Len(Longer(d, block)) - 1)
<1>0. Size \in Nat /\ BlockSizes \subseteq Nat \ {0}
    BY RangeAssumption
<1>1. /\ d.size \in BlockSizes /\ d.off \in 0 .. Size - 1 /\ d.len \in Nat
      /\ d.got \in Seq(Int) /\ Len(d.got) \in Nat
      /\ d.got = Bytes(d.off, d.off + Len(d.got) - 1)
    BY <1>0 DEF Reads, ReaderState
<1> DEFINE g == Len(d.got)
           len == d.len
           off == d.off
           goal == Goal(d)
           offset == Offset(d)
           n == Taken(d, block)
           room == Len(block)
<1>2. goal = IF len < Size - off THEN len ELSE Size - off
    BY DEF Goal, Min2
<1>3. off \in 0 .. Size - 1 /\ len \in Nat /\ g \in Nat /\ g < goal
    BY <1>1
<1>4. d.got = Bytes(off, off + g - 1)
    BY <1>1
<1>5. n = IF goal - g < room - offset THEN goal - g ELSE room - offset
    BY DEF Taken, Min2
<1>6. Longer(d, block) = Join(d.got, Cut(block, offset + 1, offset + n))
    BY DEF Longer
<1> DEFINE abs == off + g
<1>7. offset = abs % d.size
    BY DEF Offset
<1>8. block = BlockOf(d.size, abs \div d.size)
    OBVIOUS
<1> HIDE DEF g, len, off, goal, offset, n
<1>9. goal \in Nat /\ off \in Nat /\ abs \in 0 .. Size - 1
    BY <1>0, <1>2, <1>3
<1> HIDE DEF abs
<1>10. PICK lo \in Nat, hi \in Nat :
          /\ block = Bytes(lo, hi)
          /\ lo <= abs /\ abs <= hi /\ hi < Size
          /\ offset = abs - lo
          /\ room = hi - lo + 1
    <2>1. \E lo \in Nat, hi \in Nat :
              /\ BlockOf(d.size, abs \div d.size) = Bytes(lo, hi)
              /\ lo <= abs /\ abs <= hi /\ hi < Size
              /\ abs % d.size = abs - lo
              /\ BlockOf(d.size, abs \div d.size) \in Seq(Int)
              /\ Len(BlockOf(d.size, abs \div d.size)) = hi - lo + 1
        BY <1>1, <1>9, BlockAround, Zenon
    <2> QED
        BY <1>7, <1>8, <2>1, Zenon
<1> HIDE DEF room
<1>11. offset \in Nat /\ offset < room /\ room \in Nat /\ goal - g \in Nat \ {0} /\ room - offset \in Nat \ {0}
    BY <1>3, <1>9, <1>10
<1>12. n \in Nat \ {0} /\ n <= goal - g /\ n <= room - offset
    BY <1>5, <1>11
<1> DEFINE last == off + g + n - 1
           end == off + g - 1
           from == offset + 1
           to == offset + n
<1>13. off + g = abs
    BY DEF abs
<1>14. /\ last \in Int /\ end \in Int /\ from \in Int /\ to \in Int /\ off \in Int /\ lo \in Int /\ hi \in Int
       /\ end + 1 = abs /\ last = abs + n - 1 /\ last - off + 1 = g + n
       /\ off <= end + 1 /\ end < last /\ off <= last + 1 /\ 1 <= from
    BY <1>3, <1>9, <1>11, <1>12, <1>13
<1>15. end + 1 = lo + from - 1 /\ last = lo + to - 1
    BY <1>9, <1>10, <1>11, <1>12, <1>14
<1>16. last <= hi /\ g + n <= goal
    BY <1>3, <1>9, <1>10, <1>11, <1>12, <1>14
<1>17. d.got = Bytes(off, end)
    BY <1>4
<1>18. Longer(d, block) = Join(d.got, Cut(block, from, to))
    BY <1>6
<1> HIDE DEF last, end, from, to
<1>19. Join(Bytes(off, end), Cut(Bytes(lo, hi), from, to)) = Bytes(off, last)
    <2>1. Fits(off, end, last, lo, hi, from, to)
        BY <1>14, <1>15, <1>16 DEF Fits
    <2> QED
        BY <2>1, PieceJoins
<1>20. Longer(d, block) = Bytes(off, last)
    BY <1>10, <1>17, <1>18, <1>19
<1>21. Bytes(off, last) \in Seq(Int) /\ Len(Bytes(off, last)) = last - off + 1
    BY <1>14, BytesAre
<1>22. last = off + Len(Bytes(off, last)) - 1 /\ Len(Bytes(off, last)) <= goal
    <2> DEFINE m == Len(Bytes(off, last))
    <2>1. m = last - off + 1
        BY <1>21
    <2> HIDE DEF m
    <2>2. last = off + m - 1 /\ m <= goal
        BY <1>14, <1>16, <2>1
    <2> QED
        BY <2>2 DEF m
<1> QED
    BY <1>11, <1>20, <1>21, <1>22 DEF offset, room, goal, off

-----------------------------------------------------------------------------
(* What the steps make of a call.                                          *)

LEMMA RetriesGrow ==
    ASSUME NEW d \in ReaderState, NEW m \in Nat, NEW n \in Nat, m <= n, Retries(d, m)
    PROVE  Retries(d, n)
BY RangeAssumption DEF Retries, ReaderState

(* A step of one call that leaves it right. *)
Steps(r) == \E x \in ReaderState : reader' = [reader EXCEPT ![r] = x] /\ Right(x, asked')

LEMMA OthersStay ==
    ASSUME ReadInv, NEW r \in Readers, Steps(r), asked' \in 0 .. MaxAsks, asked <= asked'
    PROVE  reader' \in [Readers -> ReaderState] /\ \A q \in Readers : Right(reader'[q], asked')
<1>1. PICK x \in ReaderState : reader' = [reader EXCEPT ![r] = x] /\ Right(x, asked')
    BY DEF Steps
<1>2. MaxAsks \in Nat /\ asked \in 0 .. MaxAsks /\ reader \in [Readers -> ReaderState]
    BY RangeAssumption DEF ReadInv, TypeOK
<1>3. reader' \in [Readers -> ReaderState]
    BY <1>1, <1>2
<1>4. ASSUME NEW q \in Readers
      PROVE  Right(reader'[q], asked')
    <2>1. CASE q = r
        BY <1>1, <1>2, <2>1
    <2>2. CASE q # r
        <3> DEFINE d == reader[q]
        <3>1. reader'[q] = d /\ d \in ReaderState
            BY <1>1, <1>2, <2>2
        <3>2. Reads(d) /\ Returns(d) /\ Retries(d, asked)
            BY DEF ReadInv, Right
        <3> HIDE DEF d
        <3>3. Retries(d, asked')
            BY <1>2, <3>1, <3>2, RetriesGrow
        <3> QED
            BY <3>1, <3>2, <3>3 DEF Right
    <2> QED
        BY <2>1, <2>2
<1> QED
    BY <1>3, <1>4

(* Returning with an error that tells the truth. *)
LEMMA ReturnsRight ==
    ASSUME ReadInv, NEW r \in Readers, NEW e \in {"none", "EOF", "failed"}, Return(r, e), asked' = asked,
           reader[r].pc \in Fetching \cup {"block"},
           e # "failed" => /\ Len(reader[r].got) = Goal(reader[r])
                           /\ e = IF reader[r].len > Goal(reader[r]) THEN "EOF" ELSE "none"
    PROVE  Steps(r)
<1>0. Size \in Nat /\ MaxAsks \in Nat
    BY RangeAssumption
<1> DEFINE d == reader[r]
           x == Call("done", 1, d.off, d.len, d.got, e)
<1>1. d \in ReaderState /\ Reads(d) /\ Returns(d) /\ Retries(d, asked) /\ asked \in 0 .. MaxAsks
    BY DEF ReadInv, TypeOK, Right
<1>2. reader' = [reader EXCEPT ![r] = x]
    BY DEF Return
<1> HIDE DEF d
<1>3. x \in ReaderState
    BY <1>0, <1>1 DEF ReaderState, Call
<1>4. /\ x.pc = "done" /\ x.err = e /\ x.got = d.got /\ x.off = d.off /\ x.len = d.len
      /\ x.url = 0 /\ x.refused = 0
    BY DEF Call
<1> HIDE DEF x
<1>5. Reads(x)
    BY <1>4 DEF Reads, Fetching
<1>6. Retries(x, asked')
    BY <1>0, <1>1, <1>4 DEF Retries
<1>7. /\ d.off \in 0 .. Size - 1 /\ d.len \in Nat /\ Len(d.got) \in Nat /\ Len(d.got) <= Goal(d)
      /\ d.got = Bytes(d.off, d.off + Len(d.got) - 1)
    BY <1>1 DEF Reads, ReaderState, d
<1>8. Returns(x)
    <2> DEFINE g == Len(d.got)
               len == d.len
               off == d.off
               goal == Goal(d)
    <2>1. goal = IF len < Size - off THEN len ELSE Size - off
        BY DEF Goal, Min2
    <2>2. off \in 0 .. Size - 1 /\ len \in Nat /\ g \in Nat /\ g <= goal
        BY <1>7
    <2>3. e # "failed" => g = goal /\ e = IF len > goal THEN "EOF" ELSE "none"
        BY DEF d
    <2> HIDE DEF g, len, off, goal
    <2>4. g <= len
        BY <1>0, <2>1, <2>2
    <2>5. e = "none" => g = len
        BY <1>0, <2>1, <2>2, <2>3
    <2>6. e = "EOF" => off + len > Size /\ off + g = Size
        BY <1>0, <2>1, <2>2, <2>3
    <2> QED
        BY <1>4, <1>7, <2>4, <2>5, <2>6 DEF Returns, g, len, off
<1> QED
    BY <1>2, <1>3, <1>5, <1>6, <1>8 DEF Steps, Right

LEMMA CopiesRight ==
    ASSUME ReadInv, NEW r \in Readers, asked' = asked, reader[r].pc \in Fetching \cup {"block"},
           Len(reader[r].got) < Goal(reader[r]),
           NEW block, block = BlockOf(reader[r].size, Index(r)), Copy(r, block)
    PROVE  Steps(r)
<1>0. Size \in Nat /\ MaxAsks \in Nat
    BY RangeAssumption
<1> DEFINE d == reader[r]
           more == Longer(d, block)
           x == Call("block", d.size, d.off, d.len, more, "none")
<1>1. d \in ReaderState /\ Reads(d) /\ Returns(d) /\ Retries(d, asked) /\ asked \in 0 .. MaxAsks
    BY DEF ReadInv, TypeOK, Right
<1>2. block = BlockOf(d.size, (d.off + Len(d.got)) \div d.size)
    BY DEF Index, Absolute
<1>3. /\ Offset(d) \in Nat /\ Len(block) \in Nat /\ Offset(d) < Len(block)
      /\ more \in Seq(Int) /\ Len(more) <= Goal(d)
      /\ more = Bytes(d.off, d.off + Len(more) - 1)
    <2> HIDE DEF d
    <2> QED
        BY <1>1, <1>2, LongerIsRight DEF d
<1>4. reader' = [reader EXCEPT ![r] = x]
    <2> DEFINE offset == Absolute(r) % reader[r].size
               n == Min2(Wanted(r) - Len(reader[r].got), Len(block) - offset)
    <2>1. offset = Offset(d) /\ n = Taken(d, block)
        BY DEF Offset, Taken, Absolute, Wanted, Goal
    <2> HIDE DEF offset, n
    <2>2. ~ (offset >= Len(block))
        BY <1>3, <2>1
    <2>3. reader' = [reader EXCEPT ![r] = Call("block", @.size, @.off, @.len,
                                               @.got \o SubSeq(block, offset + 1, offset + n), "none")]
        BY <2>2, Zenon DEF Copy, offset, n
    <2>4. more = d.got \o SubSeq(block, offset + 1, offset + n)
        BY <2>1, Zenon DEF Longer, Join, Cut
    <2> QED
        BY <2>3, <2>4, Zenon
<1> HIDE DEF d, more
<1>5. x \in ReaderState
    BY <1>0, <1>1, <1>3 DEF ReaderState, Call
<1>6. /\ x.pc = "block" /\ x.size = d.size /\ x.got = more /\ x.off = d.off /\ x.len = d.len
      /\ x.url = 0 /\ x.refused = 0
    BY DEF Call
<1>7. d.size \in BlockSizes /\ d.off \in 0 .. Size - 1
    BY <1>1 DEF Reads, d
<1> HIDE DEF x
<1>8. Reads(x)
    BY <1>3, <1>6, <1>7 DEF Reads, Fetching, Goal
<1>9. Retries(x, asked') /\ Returns(x)
    BY <1>0, <1>1, <1>6 DEF Retries, Returns
<1> QED
    BY <1>4, <1>5, <1>8, <1>9 DEF Steps, Right

-----------------------------------------------------------------------------
(* The invariant is kept.                                                  *)

LEMMA ReadInvInit == Init => ReadInv
<1> SUFFICES ASSUME Init PROVE ReadInv
    OBVIOUS
<1>0. MaxAsks \in Nat /\ Size \in Nat
    BY RangeAssumption
<1>1. Idle \in ReaderState
    BY <1>0 DEF Idle, Call, ReaderState
<1>2. Right(Idle, 0)
    BY DEF Right, Reads, Returns, Retries, Idle, Call, Fetching
<1>3. TypeOK
    BY <1>0, <1>1 DEF Init, TypeOK, NoURL
<1> QED
    BY <1>2, <1>3 DEF Init, ReadInv, CacheRight, NoURL

(* ReadAt starts a call with nothing copied, or refuses it. *)
LEMMA ReadAtRight ==
    ASSUME ReadInv, NEW r \in Readers, NEW size \in BlockSizes, NEW off \in Offsets, NEW len \in Lengths,
           ReadAt(r, size, off, len)
    PROVE  Steps(r)
<1>0. Size \in Nat /\ MaxAsks \in Nat /\ size \in Nat \ {0} /\ off \in Int /\ len \in Nat
    BY RangeAssumption
<1>1. asked \in 0 .. MaxAsks /\ asked' = asked
    BY DEF ReadInv, TypeOK, ReadAt
<1>2. <<>> = Bytes(off, off + Len(<<>>) - 1)
    BY <1>0 DEF Bytes
<1>3. CASE off < 0 \/ off >= Size
    <2> DEFINE x == Call("done", 1, off, len, <<>>, "EOF")
    <2>1. reader' = [reader EXCEPT ![r] = x]
        BY <1>3 DEF ReadAt
    <2>2. x \in ReaderState
        BY <1>0 DEF Call, ReaderState
    <2>3. Right(x, asked')
        BY <1>0, <1>1, <1>2, <1>3 DEF Right, Reads, Returns, Retries, Call, Fetching
    <2> QED
        BY <2>1, <2>2, <2>3 DEF Steps
<1>4. CASE ~ (off < 0 \/ off >= Size)
    <2> DEFINE x == Call("block", size, off, len, <<>>, "none")
    <2>1. reader' = [reader EXCEPT ![r] = x]
        BY <1>4 DEF ReadAt
    <2>2. x \in ReaderState
        BY <1>0 DEF Call, ReaderState
    <2>3. Right(x, asked')
        BY <1>0, <1>1, <1>2, <1>4 DEF Right, Reads, Returns, Retries, Call, Fetching, Goal, Min2
    <2> QED
        BY <2>1, <2>2, <2>3 DEF Steps
<1> QED
    BY <1>3, <1>4

(* A fetch goes on without touching what was copied. *)
Fetches(x, d) == x.size = d.size /\ x.off = d.off /\ x.len = d.len /\ x.got = d.got

LEMMA GoesOn ==
    ASSUME ReadInv, NEW r \in Readers, NEW d, d = reader[r], NEW x \in ReaderState,
           reader' = [reader EXCEPT ![r] = x],
           d.pc \in Fetching \cup {"block"}, Len(d.got) < Goal(d), x.pc \in Fetching, Fetches(x, d),
           Retries(x, asked')
    PROVE  Steps(r)
<1>1. Reads(d)
    BY DEF ReadInv, Right
<1>2. Reads(x)
    BY <1>1 DEF Reads, Goal, Fetching, Fetches
<1>3. Returns(x)
    BY DEF Returns, Fetching
<1> QED
    BY <1>2, <1>3 DEF Steps, Right

LEMMA FetchingReads ==
    ASSUME ReadInv, NEW r \in Readers, reader[r].pc \in Fetching
    PROVE  reader[r].pc \in Fetching \cup {"block"} /\ Len(reader[r].got) < Goal(reader[r])
BY DEF ReadInv, Right, Reads

(* One field of a call at a time. *)
LEMMA Moved ==
    ASSUME NEW d \in ReaderState, NEW l \in Fetching
    PROVE  LET x == [d EXCEPT !.pc = l] IN
           x \in ReaderState /\ Fetches(x, d) /\ x.pc = l /\ x.url = d.url /\ x.refused = d.refused
BY DEF ReaderState, Fetches, Fetching

LEMMA GivenURL ==
    ASSUME NEW d \in ReaderState, NEW u \in 0 .. MaxAsks
    PROVE  LET x == [d EXCEPT !.url = u] IN
           x \in ReaderState /\ Fetches(x, d) /\ x.pc = d.pc /\ x.url = u /\ x.refused = d.refused
BY DEF ReaderState, Fetches

LEMMA Refused ==
    ASSUME NEW d \in ReaderState, NEW u \in 0 .. MaxAsks
    PROVE  LET x == [d EXCEPT !.refused = u] IN
           x \in ReaderState /\ Fetches(x, d) /\ x.pc = d.pc /\ x.url = d.url /\ x.refused = u
BY DEF ReaderState, Fetches

LEMMA Retried ==
    ASSUME NEW d \in ReaderState
    PROVE  LET x == [d EXCEPT !.retry = TRUE] IN
           x \in ReaderState /\ Fetches(x, d) /\ x.pc = d.pc /\ x.url = d.url /\ x.refused = d.refused
BY DEF ReaderState, Fetches

(* 115 makes URLs, and takes none back. *)
LEMMA AskedGrows ==
    ASSUME ReadInv, NEW r \in Readers, ReadStep(r)
    PROVE  asked' \in 0 .. MaxAsks /\ asked <= asked'
<1>1. MaxAsks \in Nat /\ asked \in 0 .. MaxAsks
    BY RangeAssumption DEF ReadInv, TypeOK
<1>2. asked' = asked \/ (asked' = asked + 1 /\ asked < MaxAsks)
    BY DEF ReadStep, Finish, Hit, Miss, PeekURL, DownloadURL, SaveURL, RequestRange, InvalidateURL, PutBlock, Fail
<1> QED
    BY <1>1, <1>2

(* fetchBlock and downloadURL leave the call right. *)
LEMMA FetchRight ==
    ASSUME ReadInv, NEW r \in Readers,
           Miss(r) \/ PeekURL(r) \/ DownloadURL(r) \/ SaveURL(r) \/ RequestRange(r) \/ InvalidateURL(r) \/ Fail(r)
    PROVE  Steps(r)
<1> DEFINE d == reader[r]
<1>0. /\ MaxAsks \in Nat /\ asked \in 0 .. MaxAsks
      /\ d \in ReaderState /\ Retries(d, asked) /\ reader \in [Readers -> ReaderState]
      /\ stored.url \in 0 .. MaxAsks /\ stored.url <= asked
      /\ d.url \in 0 .. MaxAsks /\ d.refused \in 0 .. MaxAsks
    BY RangeAssumption DEF ReadInv, TypeOK, Right, ReaderState
<1>00. ASSUME d.pc \in Fetching
       PROVE  d.pc \in Fetching \cup {"block"} /\ Len(d.got) < Goal(d)
    BY <1>00, FetchingReads
<1>1. CASE Miss(r)
    <2> DEFINE x == [d EXCEPT !.pc = "peek"]
    <2>1. reader' = [reader EXCEPT ![r] = x] /\ asked' = asked
        BY <1>0, <1>1 DEF Miss, Goto, At, Wanted, Goal
    <2>2. d.pc = "block" /\ d.pc \in Fetching \cup {"block"} /\ Len(d.got) < Goal(d)
        BY <1>1 DEF Miss, Goto, At, Wanted, Goal
    <2> HIDE DEF d
    <2>3. /\ x \in ReaderState /\ Fetches(x, d)
          /\ x.pc = "peek" /\ x.url = d.url /\ x.refused = d.refused
        BY <1>0, Moved DEF Fetching
    <2> HIDE DEF x
    <2>4. Fetches(x, d) /\ x.pc \in Fetching
        BY <2>3 DEF Fetches, Fetching
    <2>5. Retries(x, asked')
        BY <1>0, <2>1, <2>2, <2>3 DEF Retries
    <2> QED
        BY <2>1, <2>2, <2>3, <2>4, <2>5, GoesOn DEF d
<1>2. CASE PeekURL(r)
    <2> DEFINE l == IF stored.fresh THEN "request" ELSE "ask"
               y == [d EXCEPT !.pc = l]
               x == [y EXCEPT !.url = IF stored.fresh THEN stored.url ELSE 0]
    <2>1. reader' = [reader EXCEPT ![r] = x] /\ asked' = asked
        BY <1>0, <1>2 DEF PeekURL, At
    <2>2. d.pc = "peek" /\ d.pc \in Fetching \cup {"block"} /\ Len(d.got) < Goal(d)
        BY <1>00, <1>2 DEF PeekURL, At, Fetching
    <2> HIDE DEF d
    <2>2a. l \in {"request", "ask"} /\ l \in Fetching
        BY DEF Fetching
    <2> HIDE DEF l
    <2>3. /\ y \in ReaderState /\ Fetches(y, d)
          /\ y.pc \in {"request", "ask"} /\ y.url = d.url /\ y.refused = d.refused
        BY <1>0, <2>2a, Moved
    <2> HIDE DEF y
    <2>4. /\ x \in ReaderState /\ Fetches(x, y)
          /\ (x.url = IF stored.fresh THEN stored.url ELSE 0) /\ x.pc = y.pc /\ x.refused = y.refused
        BY <1>0, <2>3, GivenURL DEF Fetching
    <2> HIDE DEF x
    <2>5. Fetches(x, d) /\ x.pc \in Fetching
        BY <2>3, <2>4 DEF Fetches, Fetching
    <2>6. Retries(x, asked')
        BY <1>0, <2>1, <2>2, <2>3, <2>4 DEF Retries
    <2> QED
        BY <2>1, <2>2, <2>3, <2>4, <2>5, <2>6, GoesOn DEF d
<1>3. CASE DownloadURL(r)
    <2> DEFINE y == [d EXCEPT !.pc = "save"]
               x == [y EXCEPT !.url = asked + 1]
    <2>1. reader' = [reader EXCEPT ![r] = x] /\ asked' = asked + 1 /\ asked + 1 \in 0 .. MaxAsks
        BY <1>0, <1>3 DEF DownloadURL, At
    <2>2. d.pc = "ask" /\ d.pc \in Fetching \cup {"block"} /\ Len(d.got) < Goal(d)
        BY <1>00, <1>3 DEF DownloadURL, At, Fetching
    <2> HIDE DEF d
    <2>3. /\ y \in ReaderState /\ Fetches(y, d)
          /\ y.pc = "save" /\ y.url = d.url /\ y.refused = d.refused
        BY <1>0, Moved DEF Fetching
    <2> HIDE DEF y
    <2>4. /\ x \in ReaderState /\ Fetches(x, y)
          /\ x.url = asked + 1 /\ x.pc = y.pc /\ x.refused = y.refused
        BY <1>0, <2>1, <2>3, GivenURL DEF Fetching
    <2> HIDE DEF x
    <2>5. Fetches(x, d) /\ x.pc \in Fetching
        BY <2>3, <2>4 DEF Fetches, Fetching
    <2>6. Retries(x, asked')
        BY <1>0, <2>1, <2>2, <2>3, <2>4 DEF Retries
    <2> QED
        BY <2>1, <2>2, <2>3, <2>4, <2>5, <2>6, GoesOn DEF d
<1>4. CASE SaveURL(r)
    <2> DEFINE x == [d EXCEPT !.pc = "request"]
    <2>1. reader' = [reader EXCEPT ![r] = x] /\ asked' = asked
        BY <1>0, <1>4 DEF SaveURL, Goto, At
    <2>2. d.pc = "save" /\ d.pc \in Fetching \cup {"block"} /\ Len(d.got) < Goal(d)
        BY <1>00, <1>4 DEF SaveURL, Goto, At, Fetching
    <2> HIDE DEF d
    <2>3. /\ x \in ReaderState /\ Fetches(x, d)
          /\ x.pc = "request" /\ x.url = d.url /\ x.refused = d.refused
        BY <1>0, Moved DEF Fetching
    <2> HIDE DEF x
    <2>4. Fetches(x, d) /\ x.pc \in Fetching
        BY <2>3 DEF Fetches, Fetching
    <2>5. Retries(x, asked')
        BY <1>0, <2>1, <2>2, <2>3 DEF Retries
    <2> QED
        BY <2>1, <2>2, <2>3, <2>4, <2>5, GoesOn DEF d
<1>5. CASE RequestRange(r)
    <2>1. d.pc = "request" /\ asked' = asked /\ d.pc \in Fetching \cup {"block"} /\ Len(d.got) < Goal(d)
        BY <1>00, <1>5 DEF RequestRange, At, Fetching
    <2>2. CASE Goto(r, "put")
        <3> DEFINE x == [d EXCEPT !.pc = "put"]
        <3>1. reader' = [reader EXCEPT ![r] = x] /\ asked' = asked
            BY <1>0, <2>1, <2>2 DEF Goto
        <3> HIDE DEF d
        <3>3. /\ x \in ReaderState /\ Fetches(x, d)
              /\ x.pc = "put" /\ x.url = d.url /\ x.refused = d.refused
            BY <1>0, Moved DEF Fetching
        <3> HIDE DEF x
        <3>4. Fetches(x, d) /\ x.pc \in Fetching
            BY <3>3 DEF Fetches, Fetching
        <3>5. Retries(x, asked')
            BY <1>0, <3>1, <2>1, <3>3 DEF Retries
        <3> QED
            BY <3>1, <2>1, <3>3, <3>4, <3>5, GoesOn DEF d
    <2>3. CASE reader' = [reader EXCEPT ![r] = [@ EXCEPT !.pc = "drop", !.refused = reader[r].url]]
        <3> DEFINE y == [d EXCEPT !.pc = "drop"]
                   x == [y EXCEPT !.refused = d.url]
        <3>1. reader' = [reader EXCEPT ![r] = x] /\ asked' = asked
            BY <1>0, <2>1, <2>3 DEF Goto
        <3> HIDE DEF d
        <3>3. /\ y \in ReaderState /\ Fetches(y, d)
              /\ y.pc = "drop" /\ y.url = d.url /\ y.refused = d.refused
            BY <1>0, Moved DEF Fetching
        <3> HIDE DEF y
        <3>4. /\ x \in ReaderState /\ Fetches(x, y)
              /\ x.refused = d.url /\ x.pc = y.pc /\ x.url = y.url
            BY <1>0, <3>3, Refused DEF Fetching
        <3> HIDE DEF x
        <3>5. Fetches(x, d) /\ x.pc \in Fetching
            BY <3>3, <3>4 DEF Fetches, Fetching
        <3>6. Retries(x, asked')
            BY <1>0, <3>1, <2>1, <3>3, <3>4 DEF Retries
        <3> QED
            BY <3>1, <2>1, <3>3, <3>4, <3>5, <3>6, GoesOn DEF d
    <2>4. CASE Return(r, "failed")
        BY <2>1, <2>4, ReturnsRight
    <2> QED
        BY <1>5, <2>2, <2>3, <2>4 DEF RequestRange
<1>6. CASE InvalidateURL(r)
    <2>1. d.pc = "drop" /\ asked' = asked /\ d.pc \in Fetching \cup {"block"} /\ Len(d.got) < Goal(d)
        BY <1>00, <1>6 DEF InvalidateURL, At, Fetching
    <2>2. CASE d.retry
        BY <1>6, <2>1, <2>2, ReturnsRight DEF InvalidateURL
    <2>3. CASE ~ d.retry
        <3> DEFINE y == [d EXCEPT !.pc = "ask"]
                   z == [y EXCEPT !.retry = TRUE]
                   x == [z EXCEPT !.url = 0]
        <3>1. reader' = [reader EXCEPT ![r] = x] /\ asked' = asked
            BY <1>0, <1>6, <2>1, <2>3 DEF InvalidateURL
        <3> HIDE DEF d
        <3>3. /\ y \in ReaderState /\ Fetches(y, d)
              /\ y.pc = "ask" /\ y.url = d.url /\ y.refused = d.refused
            BY <1>0, Moved DEF Fetching
        <3> HIDE DEF y
        <3>4. /\ z \in ReaderState /\ Fetches(z, y)
              /\ z.pc = y.pc /\ z.url = y.url /\ z.refused = y.refused
            BY <1>0, <3>3, Retried DEF Fetching
        <3> HIDE DEF z
        <3>5. /\ x \in ReaderState /\ Fetches(x, z)
              /\ x.url = 0 /\ x.pc = z.pc /\ x.refused = z.refused
            BY <1>0, <3>3, <3>4, GivenURL DEF Fetching
        <3> HIDE DEF x
        <3>6. Fetches(x, d) /\ x.pc \in Fetching
            BY <3>3, <3>4, <3>5 DEF Fetches, Fetching
        <3>7. Retries(x, asked')
            BY <1>0, <3>1, <2>1, <3>3, <3>4, <3>5 DEF Retries
        <3> QED
            BY <3>1, <2>1, <3>3, <3>4, <3>5, <3>6, <3>7, GoesOn DEF d
    <2> QED
        BY <2>2, <2>3
<1>7. CASE Fail(r)
    <2>1. d.pc \in Fetching /\ asked' = asked /\ Return(r, "failed")
        BY <1>7 DEF Fail, Fetching
    <2> QED
        BY <2>1, FetchingReads, ReturnsRight
<1> QED
    BY <1>1, <1>2, <1>3, <1>4, <1>5, <1>6, <1>7

LEMMA ReadInvNext == ReadInv /\ [Next]_vars => ReadInv'
<1> SUFFICES ASSUME ReadInv, [Next]_vars PROVE ReadInv'
    OBVIOUS
<1>0. /\ MaxAsks \in Nat /\ asked \in 0 .. MaxAsks /\ TypeOK /\ CacheRight
      /\ stored \in [url : 0 .. MaxAsks, fresh : BOOLEAN] /\ stored.url <= asked
    BY RangeAssumption DEF ReadInv, TypeOK

(* Steps of a call: the readers are right, if the tables are. *)
<1>1. ASSUME NEW r \in Readers, Steps(r), asked' \in 0 .. MaxAsks, asked <= asked',
             cached' \in SUBSET [key : BlockSizes \X Nat, data : Seq(Int)], CacheRight',
             stored' \in [url : 0 .. MaxAsks, fresh : BOOLEAN], stored'.url <= asked'
      PROVE  ReadInv'
    BY <1>1, OthersStay DEF ReadInv, TypeOK
<1>2. ASSUME NEW r \in Readers, Steps(r), asked' \in 0 .. MaxAsks, asked <= asked', cached' = cached, stored' = stored
      PROVE  ReadInv'
    <2>1. stored'.url <= asked'
        BY <1>0, <1>2
    <2>2. CacheRight'
        BY <1>0, <1>2 DEF CacheRight
    <2> QED
        BY <1>0, <1>1, <1>2, <2>1, <2>2 DEF TypeOK

(* Steps of the tables. *)
<1>3. ASSUME reader' = reader, asked' = asked,
             cached' \subseteq cached, stored' \in [url : 0 .. MaxAsks, fresh : BOOLEAN], stored'.url <= asked
      PROVE  ReadInv'
    BY <1>0, <1>3 DEF ReadInv, TypeOK, CacheRight, Right, Reads, Returns, Retries
<1>4. ASSUME NEW r \in Readers, ReadStep(r)
      PROVE  ReadInv'
    <2> DEFINE d == reader[r]
    <2>0. /\ asked' \in 0 .. MaxAsks /\ asked <= asked'
        BY <1>4, AskedGrows
    <2>1. CASE Finish(r)
        <3> DEFINE e == IF d.len > Goal(d) THEN "EOF" ELSE "none"
        <3>1. /\ asked' = asked /\ cached' = cached /\ stored' = stored
              /\ d.pc = "block" /\ Len(d.got) = Goal(d) /\ Return(r, e)
            BY <2>1 DEF Finish, At, Wanted, Goal
        <3>2. e \in {"none", "EOF", "failed"}
            OBVIOUS
        <3>3. Steps(r)
            BY <3>1, <3>2, ReturnsRight
        <3> QED
            BY <1>2, <2>0, <3>1, <3>3
    <2>2. CASE Hit(r)
        <3>1. /\ asked' = asked /\ cached' = cached /\ stored' = stored
              /\ d.pc = "block" /\ Len(d.got) < Goal(d)
            BY <2>2 DEF Hit, At, Wanted, Goal
        <3>2. PICK e \in cached : e.key = Key(r) /\ Copy(r, e.data)
            BY <2>2 DEF Hit
        <3>3. e.data = BlockOf(d.size, Index(r))
            BY <1>0, <3>2 DEF CacheRight, Key, blockKey
        <3>4. Steps(r)
            BY <3>1, <3>2, <3>3, CopiesRight
        <3> QED
            BY <1>2, <2>0, <3>1, <3>4
    <2>3. CASE PutBlock(r)
        <3> DEFINE block == BlockOf(d.size, Index(r))
                   entry == [key |-> Key(r), data |-> block]
        <3>1. /\ asked' = asked /\ stored' = stored /\ d.pc = "put" /\ d.pc \in Fetching /\ Copy(r, block)
              /\ cached' = {e \in cached : e.key # Key(r)} \cup {entry}
            BY <2>3 DEF PutBlock, At, Fetching
        <3>2. d.pc \in Fetching \cup {"block"} /\ Len(d.got) < Goal(d)
            BY <3>1, FetchingReads
        <3>3. Steps(r)
            BY <3>1, <3>2, CopiesRight
        <3>4. d.size \in BlockSizes /\ Index(r) \in Nat /\ block \in Seq(Int)
            <4> DEFINE abs == d.off + Len(d.got)
            <4>1. Size \in Nat /\ d \in ReaderState /\ Reads(d)
                BY RangeAssumption DEF ReadInv, TypeOK, Right
            <4> HIDE DEF d
            <4>2. d.size \in BlockSizes /\ d.off \in 0 .. Size - 1 /\ d.len \in Nat /\ Len(d.got) \in Nat
                BY <3>1, <4>1 DEF Reads, ReaderState
            <4>3. abs \in 0 .. Size - 1
                <5> DEFINE off == d.off
                           g == Len(d.got)
                           len == d.len
                <5>1. g < IF len < Size - off THEN len ELSE Size - off
                    BY <3>2 DEF Goal, Min2
                <5>2. off \in 0 .. Size - 1 /\ len \in Nat /\ g \in Nat
                    BY <4>2
                <5> HIDE DEF off, g, len
                <5>3. off + g \in 0 .. Size - 1
                    BY <4>1, <5>1, <5>2
                <5> QED
                    BY <5>3 DEF off, g
            <4>4. Index(r) = abs \div d.size
                BY DEF Index, Absolute, d
            <4> HIDE DEF abs
            <4>5. abs \div d.size \in Nat /\ BlockOf(d.size, abs \div d.size) \in Seq(Int)
                BY <4>2, <4>3, BlockAround
            <4> QED
                BY <4>2, <4>4, <4>5
        <3>5. entry \in [key : BlockSizes \X Nat, data : Seq(Int)] /\ entry.data = BlockOf(entry.key[1], entry.key[2])
            BY <3>4 DEF Key, blockKey
        <3> HIDE DEF entry
        <3>6. cached' \in SUBSET [key : BlockSizes \X Nat, data : Seq(Int)] /\ CacheRight'
            BY <1>0, <3>1, <3>5 DEF TypeOK, CacheRight
        <3>7. stored'.url <= asked' /\ stored' \in [url : 0 .. MaxAsks, fresh : BOOLEAN]
            BY <1>0, <3>1
        <3> QED
            BY <1>1, <2>0, <3>3, <3>6, <3>7
    <2>4. CASE SaveURL(r)
        <3>1. /\ Steps(r) /\ asked' = asked /\ cached' = cached
              /\ stored' = [url |-> d.url, fresh |-> TRUE]
            BY <2>4, FetchRight DEF SaveURL
        <3>2. d.url \in 0 .. MaxAsks /\ d.url <= asked
            BY DEF ReadInv, TypeOK, ReaderState, Right, Retries
        <3>3. stored' \in [url : 0 .. MaxAsks, fresh : BOOLEAN] /\ stored'.url <= asked'
            BY <3>1, <3>2
        <3>4. cached' \in SUBSET [key : BlockSizes \X Nat, data : Seq(Int)] /\ CacheRight'
            BY <1>0, <3>1 DEF TypeOK, CacheRight
        <3> QED
            BY <1>1, <2>0, <3>1, <3>3, <3>4
    <2>5. CASE InvalidateURL(r)
        <3>1. Steps(r) /\ asked' = asked /\ cached' = cached /\ stored' \in {NoURL, stored}
            BY <2>5, FetchRight DEF InvalidateURL
        <3>2. stored' \in [url : 0 .. MaxAsks, fresh : BOOLEAN] /\ stored'.url <= asked'
            <4>1. CASE stored' = stored
                BY <1>0, <3>1, <4>1
            <4>2. CASE stored' = NoURL
                BY <1>0, <3>1, <4>2 DEF NoURL
            <4> QED
                BY <3>1, <4>1, <4>2
        <3>3. cached' \in SUBSET [key : BlockSizes \X Nat, data : Seq(Int)] /\ CacheRight'
            BY <1>0, <3>1 DEF TypeOK, CacheRight
        <3> QED
            BY <1>1, <2>0, <3>1, <3>2, <3>3
    <2>6. CASE Miss(r) \/ PeekURL(r) \/ DownloadURL(r) \/ RequestRange(r) \/ Fail(r)
        <3>1. cached' = cached /\ stored' = stored
            BY <2>6 DEF Miss, PeekURL, DownloadURL, RequestRange, Fail
        <3>2. Steps(r)
            BY <2>6, FetchRight
        <3> QED
            BY <1>2, <2>0, <3>1, <3>2
    <2> QED
        BY <1>4, <2>1, <2>2, <2>3, <2>4, <2>5, <2>6 DEF ReadStep
<1>5. ASSUME NEW r \in Readers, NEW size \in BlockSizes, NEW off \in Offsets, NEW len \in Lengths,
             ReadAt(r, size, off, len)
      PROVE  ReadInv'
    <2>1. cached' = cached /\ stored' = stored /\ asked' = asked
        BY <1>5 DEF ReadAt
    <2>2. Steps(r)
        BY <1>5, ReadAtRight
    <2>3. asked' \in 0 .. MaxAsks /\ asked <= asked'
        BY <1>0, <2>1
    <2> QED
        BY <1>2, <2>1, <2>2, <2>3
<1>6. CASE Expire
    BY <1>0, <1>3, <1>6 DEF Expire
<1>7. CASE Evict
    BY <1>0, <1>3, <1>7 DEF Evict
<1>8. CASE ClearAll
    BY <1>0, <1>3, <1>8 DEF ClearAll, NoURL
<1>9. CASE UNCHANGED vars
    BY <1>0, <1>3, <1>9 DEF vars
<1> QED
    BY <1>4, <1>5, <1>6, <1>7, <1>8, <1>9 DEF Next

LEMMA AlwaysReadInv == Spec => []ReadInv
BY ReadInvInit, ReadInvNext, PTL DEF Spec

-----------------------------------------------------------------------------

(* Every variable of the reader keeps its type. *)
THEOREM TypeCorrect == Spec => []TypeOK
<1>1. ReadInv => TypeOK
    BY DEF ReadInv
<1> QED
    BY <1>1, AlwaysReadInv, PTL

(* For any file size, block sizes, offsets and lengths, any number of      *)
(* readers and any evictions: what ReadAt returns is the range of the file *)
(* it was asked for, as far as the file and the errors let it.             *)
THEOREM ReadsWhatIsThere == Spec => []ReadsTheFile
<1>1. ReadInv => ReadsTheFile
    BY DEF ReadInv, Right, Returns, ReadsTheFile
<1> QED
    BY <1>1, AlwaysReadInv, PTL

(* For any readers that share the table of download URLs: the request that *)
(* follows a refusal is made with a URL younger than the refused one.      *)
THEOREM RetriesWithNewURL == Spec => []RetryHasNewURL
<1>1. ReadInv => RetryHasNewURL
    BY DEF ReadInv, Right, Retries, RetryHasNewURL
<1> QED
    BY <1>1, AlwaysReadInv, PTL
=============================================================================
