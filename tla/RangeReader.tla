----------------------------- MODULE RangeReader -----------------------------
(***************************************************************************)
(* Reading a file of 115 by ranges: ReadAt cuts the range into blocks,     *)
(* takes each from the block cache or fetches it, and the fetch takes its  *)
(* download URL from a table shared by all readers.  A refused URL is      *)
(* dropped and a new one asked for, once.                                  *)
(*                                                                         *)
(* A reader is a RemoteReaderAt at one call; its urlMu has no rival then.  *)
(* The byte at offset i of the file is i, so a block is a sequence of      *)
(* offsets.  Sharing a fetch among readers, and eviction, are PageCache's. *)
(***************************************************************************)
EXTENDS Integers, Sequences

CONSTANTS
    Readers,     \* calls of ReadAt
    Size,        \* size of the file
    BlockSizes,  \* block sizes in use: ZIP readers', RAR indexes', and changed settings
    Offsets,     \* offsets asked for
    Lengths,     \* lengths asked for
    MaxAsks      \* bound: download URLs asked of 115

ASSUME RangeAssumption ==
    /\ Size \in Nat
    /\ BlockSizes \subseteq Nat \ {0}
    /\ Offsets \subseteq Int /\ Lengths \subseteq Nat
    /\ MaxAsks \in Nat

VARIABLES
    cached,  \* the block cache: contents by key
    stored,  \* the row of downurl_cache: url 0 for none, fresh while it may be used
    asked,   \* download URLs that 115 has made: they are numbered
    reader

vars == <<cached, stored, asked, reader>>

NoURL == [url |-> 0, fresh |-> FALSE]

(* A call of ReadAt with what it has copied so far; between two blocks it  *)
(* has no URL.                                                             *)
Call(l, size, off, len, got, e) ==
    [pc |-> l, size |-> size, off |-> off, len |-> len, got |-> got, err |-> e,
     url |-> 0, retry |-> FALSE, refused |-> 0]
Idle == Call("idle", 1, 0, 0, <<>>, "none")

Min2(a, b) == IF a < b THEN a ELSE b

(* The bytes from offset i to offset j. *)
Bytes(i, j) == [n \in 1 .. (IF j < i THEN 0 ELSE j - i + 1) |-> i + n - 1]

(* The file's ID, size and SHA1 are in the key, too. *)
(* Fault: the block size is left out of the key. *)
blockKeyUnsized(size, index) == <<1, index>>

blockKey(size, index) == <<size, index>>

ReaderState ==
    [pc : {"idle", "block", "peek", "ask", "save", "request", "drop", "put", "done"},
     size : Nat \ {0}, off : Int, len : Nat, got : Seq(Int), url : 0..MaxAsks, retry : BOOLEAN,
     refused : 0..MaxAsks, err : {"none", "EOF", "UnexpectedEOF", "failed"}]

TypeOK ==
    /\ cached \in SUBSET [key : BlockSizes \X Nat, data : Seq(Int)]
    /\ stored \in [url : 0..MaxAsks, fresh : BOOLEAN]
    /\ asked \in 0..MaxAsks
    /\ reader \in [Readers -> ReaderState]

Init ==
    /\ cached = {}
    /\ stored = NoURL
    /\ asked = 0
    /\ reader = [r \in Readers |-> Idle]

At(r, l)     == reader[r].pc = l
Goto(r, l)   == reader' = [reader EXCEPT ![r].pc = l]
Return(r, e) == reader' = [reader EXCEPT ![r] = Call("done", 1, @.off, @.len, @.got, e)]

-----------------------------------------------------------------------------
(* ReadAt.                                                                 *)

Absolute(r) == reader[r].off + Len(reader[r].got)
Index(r)    == Absolute(r) \div reader[r].size
Key(r)      == blockKey(reader[r].size, Index(r))
Wanted(r)   == Min2(reader[r].len, Size - reader[r].off)

ReadAt(r, size, off, len) ==
    /\ reader[r].pc \in {"idle", "done"}
    /\ reader' = [reader EXCEPT ![r] =
           IF off < 0 \/ off >= Size THEN Call("done", 1, off, len, <<>>, "EOF")
                                     ELSE Call("block", size, off, len, <<>>, "none")]
    /\ UNCHANGED <<cached, stored, asked>>

(* copy from the offset inside the block. *)
Copy(r, block) ==
    LET offset == Absolute(r) % reader[r].size
        n == Min2(Wanted(r) - Len(reader[r].got), Len(block) - offset) IN
    IF offset >= Len(block) THEN Return(r, "UnexpectedEOF")
    ELSE reader' = [reader EXCEPT ![r] = Call("block", @.size, @.off, @.len,
                                              @.got \o SubSeq(block, offset + 1, offset + n), "none")]

(* The end of the loop: a range cut short by the end of the file is an EOF. *)
Finish(r) ==
    /\ At(r, "block") /\ Len(reader[r].got) = Wanted(r)
    /\ Return(r, IF reader[r].len > Wanted(r) THEN "EOF" ELSE "none")
    /\ UNCHANGED <<cached, stored, asked>>

Hit(r) ==
    /\ At(r, "block") /\ Len(reader[r].got) < Wanted(r)
    /\ \E e \in cached : e.key = Key(r) /\ Copy(r, e.data)
    /\ UNCHANGED <<cached, stored, asked>>

Miss(r) ==
    /\ At(r, "block") /\ Len(reader[r].got) < Wanted(r)
    /\ \A e \in cached : e.key # Key(r)
    /\ Goto(r, "peek")
    /\ UNCHANGED <<cached, stored, asked>>

-----------------------------------------------------------------------------
(* fetchBlock and downloadURL.                                             *)

(* The statement, 115 or the disk fails, or the request is canceled. *)
Fail(r) ==
    /\ reader[r].pc \in {"peek", "ask", "save", "request", "put"}
    /\ Return(r, "failed")
    /\ UNCHANGED <<cached, stored, asked>>

(* A row with more than 30 seconds left is used as it is. *)
PeekURL(r) ==
    /\ At(r, "peek")
    /\ reader' = [reader EXCEPT ![r] = [@ EXCEPT !.pc = IF stored.fresh THEN "request" ELSE "ask",
                                               !.url = IF stored.fresh THEN stored.url ELSE 0]]
    /\ UNCHANGED <<cached, stored, asked>>

(* Client.DownloadURL. *)
DownloadURL(r) ==
    /\ At(r, "ask") /\ asked < MaxAsks
    /\ asked' = asked + 1
    /\ reader' = [reader EXCEPT ![r] = [@ EXCEPT !.pc = "save", !.url = asked + 1]]
    /\ UNCHANGED <<cached, stored>>

SaveURL(r) ==
    /\ At(r, "save")
    /\ stored' = [url |-> reader[r].url, fresh |-> TRUE]
    /\ Goto(r, "request")
    /\ UNCHANGED <<cached, asked>>

(* A whole file, another status, or a body of another length fails.        *)
RequestRange(r) ==
    /\ At(r, "request")
    /\ \/ Goto(r, "put")
       \/ reader' = [reader EXCEPT ![r] = [@ EXCEPT !.pc = "drop", !.refused = reader[r].url]]
       \/ Return(r, "failed")
    /\ UNCHANGED <<cached, stored, asked>>

(* Fault: the retry looks into the table first, as the first try did. *)
InvalidateAndPeek(r) ==
    /\ At(r, "drop")
    /\ stored' \in {NoURL, stored}
    /\ IF reader[r].retry THEN Return(r, "failed")
       ELSE reader' = [reader EXCEPT ![r] = [@ EXCEPT !.pc = "peek", !.retry = TRUE, !.url = 0]]
    /\ UNCHANGED <<cached, asked>>

(* The row goes, whatever URL it has by now; the error is ignored.  The    *)
(* retry is forced to ask 115.                                             *)
InvalidateURL(r) ==
    /\ At(r, "drop")
    /\ stored' \in {NoURL, stored}
    /\ IF reader[r].retry THEN Return(r, "failed")
       ELSE reader' = [reader EXCEPT ![r] = [@ EXCEPT !.pc = "ask", !.retry = TRUE, !.url = 0]]
    /\ UNCHANGED <<cached, asked>>

(* bytes=start-end, end inclusive. *)
BlockOf(size, index) == Bytes(index * size, Min2(index * size + size - 1, Size - 1))

PutBlock(r) ==
    LET block == BlockOf(reader[r].size, Index(r)) IN
    /\ At(r, "put")
    /\ cached' = {e \in cached : e.key # Key(r)} \cup {[key |-> Key(r), data |-> block]}
    /\ Copy(r, block)
    /\ UNCHANGED <<stored, asked>>

-----------------------------------------------------------------------------
(* Time and the admin: a URL nears its end, a block is evicted, all caches *)
(* are cleared.                                                            *)

Expire == stored.fresh /\ stored' = [stored EXCEPT !.fresh = FALSE] /\ UNCHANGED <<cached, asked, reader>>
Evict  == \E e \in cached : cached' = cached \ {e} /\ UNCHANGED <<stored, asked, reader>>
ClearAll == stored # NoURL /\ stored' = NoURL /\ cached' = {} /\ UNCHANGED <<asked, reader>>

-----------------------------------------------------------------------------
ReadStep(r) ==
    \/ Finish(r) \/ Hit(r) \/ Miss(r) \/ PeekURL(r) \/ DownloadURL(r) \/ SaveURL(r) \/ RequestRange(r)
    \/ InvalidateURL(r) \/ PutBlock(r) \/ Fail(r)

Next ==
    \/ \E r \in Readers : ReadStep(r)
    \/ \E r \in Readers, size \in BlockSizes, off \in Offsets, len \in Lengths : ReadAt(r, size, off, len)
    \/ Expire \/ Evict \/ ClearAll

Spec == Init /\ [][Next]_vars

-----------------------------------------------------------------------------
(* Properties.                                                             *)

(* What ReadAt has returned is the range of the file, whatever block sizes *)
(* the cached blocks were fetched with: all of it and no error, or up to   *)
(* the end of the file with EOF, or a beginning of it with an error.       *)
ReadsTheFile ==
    \A r \in Readers : LET d == reader[r]  off == d.off IN
        d.pc = "done" =>
            /\ d.got = Bytes(off, off + Len(d.got) - 1)
            /\ d.err = "none" => Len(d.got) = d.len
            /\ d.err = "EOF" => \/ off >= Size /\ d.got = <<>>
                                \/ off + d.len > Size /\ off + Len(d.got) = Size
                                \/ off < 0 /\ d.got = <<>>
            /\ d.err # "UnexpectedEOF"
            /\ Len(d.got) <= d.len

(* The second request of a fetch goes to a URL that 115 made after it      *)
(* refused the first, whatever other readers left in the table.            *)
RetryHasNewURL ==
    \A r \in Readers : reader[r].refused # 0 /\ reader[r].pc = "request" => reader[r].url > reader[r].refused
=============================================================================
