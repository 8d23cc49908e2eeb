---------------------------- MODULE MinidumpFile ----------------------------
(***************************************************************************)
(* MinidumpFileWriter and the MDRVA classes: how the native crash dump     *)
(* lays out its file.  A writer is a record and each operation a function  *)
(* from writers to writers.                                                *)
(*                                                                         *)
(* The content of the file is a set of parts.  A part is one record of an  *)
(* allocated object: number 0 is the object itself, numbers from 1 on are  *)
(* the elements of the array allocated with it.  Its state is "hole" until *)
(* it is written, "good" once its own object has written it, and "bad"     *)
(* when a write meant for something else has run over it.                  *)
(*                                                                         *)
(* Sizes are in bytes.  The widths of MDRVA and size_t are parameters: the *)
(* arithmetic of Copy depends on them, and the library is built for        *)
(* armeabi-v7a (both 32 bits) and arm64-v8a (32 and 64).                   *)
(***************************************************************************)
EXTENDS Integers, FiniteSets

CONSTANTS Page,     \* getpagesize()
          RvaMod,   \* an MDRVA is a number below RvaMod
          SizeMod   \* a size_t is a number below SizeMod

ASSUME PageAssumption == Page \in Nat \ {0}
ASSUME WidthAssumption == RvaMod \in Nat \ {0} /\ SizeMod \in Nat /\ SizeMod >= RvaMod

kInvalidMDRVA == RvaMod - 1

\* A file just created.  ok: no call has failed since the last Begin; grow: how many
\* times the file system will still let the file grow; full: writes fail; short
\* (history): some write has failed.
NewFile == [position |-> 0, size |-> 0, offset |-> 0, parts |-> {}, ok |-> TRUE,
            grow |-> 0, full |-> FALSE, short |-> FALSE]

\* The file system's behaviour during one stretch of calls, chosen by the environment.
Begin(w, grow, full) == [w EXCEPT !.ok = TRUE, !.grow = grow, !.full = full]
End(w) == [w EXCEPT !.ok = TRUE, !.grow = 0, !.full = FALSE]

Align(n) == ((n + 7) \div 8) * 8
Larger(a, b) == IF a < b THEN b ELSE a
Overlap(p, pos, len) == p.pos < pos + len /\ pos < p.pos + p.len
Inside(p, pos, len) == pos <= p.pos /\ p.pos + p.len <= pos + len
-----------------------------------------------------------------------------
\* Is there room without growing, or does ftruncate grow the file?
MustGrow(w, len) == w.position + Align(len) > w.size
Allocates(w, len) == w.ok /\ (MustGrow(w, len) => w.grow > 0)

\* Mutant of Growth: the file grows by one page, however much is asked for.
GrowthOnePage(len) == Page

\* The file grows by the aligned size, and by a page at least.
Growth(len) == Larger(Align(len), Page)

\* The records of an object of `head` bytes, which is number `id` of its kind,
\* followed by `n` elements of `e` bytes.
Layout(kind, id, pos, head, n, e) ==
    (IF head = 0 THEN {}
     ELSE {[kind |-> kind, i |-> id, pos |-> pos, len |-> head, st |-> "hole"]})
    \cup {[kind |-> kind, i |-> j, pos |-> pos + head + (j - 1) * e, len |-> e,
           st |-> "hole"] : j \in 1..n}

\* MinidumpFileWriter::Allocate for AllocateObjectAndArray(n, e), AllocateArray
\* (head = 0) and the plain Allocate (n = 0); a failure leaves the file alone.
Allocate(w, kind, id, head, n, e) ==
    LET len == head + n * e
    IN IF ~Allocates(w, len) THEN [w EXCEPT !.ok = FALSE]
       ELSE [w EXCEPT !.position = @ + Align(len),
                      !.size = IF MustGrow(w, len) THEN @ + Growth(len) ELSE @,
                      !.grow = IF MustGrow(w, len) THEN @ - 1 ELSE @,
                      !.parts = @ \cup Layout(kind, id, w.position, head, n, e)]

\* A write failed: what the file holds is no longer known, and no longer followed.
Spoil(w) == [w EXCEPT !.short = TRUE, !.offset = 0,
                      !.parts = {[p EXCEPT !.st = "hole"] : p \in @}]

\* What a write of `len` bytes at `pos` on behalf of `kind` does to the parts.
Overwrite(parts, kind, pos, len) ==
    {IF ~Overlap(p, pos, len) THEN p
     ELSE [p EXCEPT !.st = IF p.kind = kind /\ Inside(p, pos, len) THEN "good"
                           ELSE "bad"] : p \in parts}

\* lseek: an offset beyond the signed range of a 32-bit off_t is negative, and
\* refused; off_t has 64 bits where size_t has.
SeekRefused(pos) == SizeMod = RvaMod /\ 2 * pos >= RvaMod

\* MinidumpFileWriter::Copy.  The bound is checked in size_t arithmetic.  A refused
\* lseek returns -1, which equals the position when that is kInvalidMDRVA: the write
\* then goes to wherever the last one ended.
Copies(w, pos, len) ==
    /\ (pos + len) % SizeMod <= w.size
    /\ SeekRefused(pos) => pos = kInvalidMDRVA
Copy(w, kind, pos, len) ==
    IF ~Copies(w, pos, len) THEN w
    ELSE IF w.full \/ w.short THEN Spoil(w)
    ELSE LET start == IF SeekRefused(pos) THEN w.offset ELSE pos
         IN [w EXCEPT !.parts = Overwrite(@, kind, start, len),
                      !.offset = start + len]

\* TypedMDRVA::~TypedMDRVA flushes the object, whatever became of its allocation.
Flush(w, kind, pos, head) == Copy(w, kind, pos, head)
FlushUnallocated(w, head) == Copy(w, "nothing", kInvalidMDRVA, head)

\* The position of an allocated object: where its first record is.
PositionOf(w, kind) ==
    (CHOOSE p \in w.parts : p.kind = kind /\ \A q \in w.parts :
                                q.kind = kind => p.pos <= q.pos).pos

\* A typed object that is allocated, filled in and flushed; when it cannot be
\* allocated its destructor still flushes.
WriteObject(w, kind, id, head) ==
    LET a == Allocate(w, kind, id, head, 0, 0)
    IN IF ~w.ok THEN w
       ELSE IF a.ok THEN Flush(a, kind, w.position, head)
       ELSE FlushUnallocated(a, head)

\* An object with an array after it, allocated; its destructor will flush it, or
\* flushes now.
AllocateList(w, kind, head, n, e) ==
    LET a == Allocate(w, kind, 0, head, n, e)
    IN IF w.ok /\ ~a.ok THEN FlushUnallocated(a, head) ELSE a

\* CopyIndexAfterObject, for the elements first..last.
CopyIndex(w, kind, head, first, last, e) ==
    IF w.ok /\ first <= last
    THEN Copy(w, kind, PositionOf(w, kind) + head + (first - 1) * e,
              (last - first + 1) * e)
    ELSE w

\* An untyped block that is allocated and copied (UntypedMDRVA, WriteMemory).
WriteBlock(w, kind, id, len) ==
    LET a == Allocate(w, kind, id, len, 0, 0)
    IN IF a.ok THEN Copy(a, kind, w.position, len) ELSE a

\* WriteStringCore: a length and the characters.  The characters' copy is the one
\* result the writer looks at; `valid` says whether the text can be converted.
StringHead == 4
WriteString(w, kind, len, valid) ==
    LET a == Allocate(w, kind, 0, StringHead, 1, len)
        c == Copy(a, kind, w.position + StringHead, len)
    IN IF ~w.ok THEN w
       ELSE IF ~a.ok THEN FlushUnallocated(a, StringHead)
       ELSE IF ~valid THEN [Flush(a, kind, w.position, StringHead) EXCEPT !.ok = FALSE]
       ELSE [Flush(c, kind, w.position, StringHead) EXCEPT !.ok = ~w.full]

\* MinidumpFileWriter::Close cuts the file at the position: what lies beyond is lost.
Close(w) == [w EXCEPT !.parts = {p \in @ : p.pos + p.len <= w.position}]
=============================================================================
