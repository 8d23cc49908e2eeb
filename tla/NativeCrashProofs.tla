------------------------- MODULE NativeCrashProofs -------------------------
(***************************************************************************)
(* Proofs about NativeCrash, for any number of threads and signals, any    *)
(* sequence of airbags, any budget of faults and any widths of MDRVA and   *)
(* size_t.                                                                 *)
(***************************************************************************)
EXTENDS NativeCrash, WellFoundedInduction, FiniteSetTheorems, FunctionTheorems, TLAPS

\* The kinds of the objects in the file.
Kinds == {"header", "dir", "threads", "stack", "ip", "cpu", "modules", "cv", "module_name",
          "memory", "exception", "system", "version", "linkmap", "dso_name", "debug", "cpuinfo",
          "status", "lsb_release", "cmdline", "environ", "auxv", "maps"}

\* The file under construction, as a record.
Part == [kind : Kinds, i : Nat, pos : Nat, len : Nat, st : {"hole", "good", "bad"}]
Writer == [position : Nat, size : Nat, offset : Nat, parts : SUBSET Part, ok : BOOLEAN,
           grow : Nat, full : BOOLEAN, short : BOOLEAN]

\* There is an object of that kind in the file.
Has(v, kd) == \E p \in v.parts : p.kind = kd

\* u is a file that v became: nothing is taken back, and no object is lost.
Grown(v, u) ==
    /\ u \in Writer
    /\ u.position >= v.position /\ u.size >= v.size
    /\ v.short => u.short
    /\ \A x : Has(v, x) => Has(u, x)

\* ... by calls of which the first to fail ended the work.
Follows(v, u) == Grown(v, u) /\ (u.ok => v.ok)
-----------------------------------------------------------------------------
\* A set of positions has a smallest one.
LEMMA SmallestPosition ==
    ASSUME NEW T, T \subseteq Nat, T # {}
    PROVE  \E x \in T : \A y \in T : x <= y
  <1>1. PICK x \in T : \A y \in T : ~(<<y, x>> \in OpToRel(<, Nat))
    BY NatLessThanWellFounded, WFMin
  <1>2. ASSUME NEW y \in T PROVE x <= y
    <2>1. x \in Nat /\ y \in Nat
      OBVIOUS
    <2>2. ~(y < x)
      BY <1>1, <2>1 DEF OpToRel
    <2> QED
      BY <2>1, <2>2
  <1> QED
    BY <1>2

\* PositionOf finds an object that is there.
LEMMA PositionFound ==
    ASSUME NEW v \in Writer, NEW kd, Has(v, kd)
    PROVE  PositionOf(v, kd) \in Nat
  <1> DEFINE P == {p \in v.parts : p.kind = kd}
             T == {p.pos : p \in P}
  <1>1. P \subseteq Part /\ P # {}
    BY DEF Writer, Has
  <1>2. \A p \in P : p.pos \in Nat
    BY <1>1 DEF Part
  <1>3. T \subseteq Nat /\ T # {}
    BY <1>1, <1>2
  <1>4. PICK x \in T : \A y \in T : x <= y
    <2> HIDE DEF T
    <2> QED
      BY <1>3, SmallestPosition
  <1>5. PICK p \in P : p.pos = x
    OBVIOUS
  <1>6. \A q \in v.parts : q.kind = kd => p.pos <= q.pos
    BY <1>4, <1>5
  <1>7. \E r \in v.parts : r.kind = kd /\ \A q \in v.parts : q.kind = kd => r.pos <= q.pos
    BY <1>5, <1>6
  <1> DEFINE c == CHOOSE r \in v.parts :
                      r.kind = kd /\ \A q \in v.parts : q.kind = kd => r.pos <= q.pos
  <1>8. c \in v.parts /\ c.kind = kd
    BY <1>7
  <1>9. c \in P
    BY <1>8
  <1>10. c.pos \in Nat
    <2> HIDE DEF c, P
    <2> QED
      BY <1>2, <1>9
  <1> QED
    BY <1>10 DEF PositionOf

\* Products of sizes.
LEMMA Product ==
    ASSUME NEW a \in Nat, NEW b \in Nat
    PROVE  a * b \in Nat
  OBVIOUS

\* The aligned size is no smaller.
LEMMA AlignUp ==
    ASSUME NEW n \in Nat
    PROVE  Align(n) \in Nat /\ Align(n) >= n
  BY DEF Align

\* The records S are those of an object.
LaidOut(S, kd, head, n) == S \subseteq Part /\ (head > 0 \/ n > 0 => \E p \in S : p.kind = kd)

\* The records of an object have their places in the file.
LEMMA LayoutParts ==
    ASSUME NEW kd \in Kinds, NEW id \in Nat, NEW pos \in Nat, NEW head \in Nat, NEW n \in Nat,
           NEW e \in Nat
    PROVE  LaidOut(Layout(kd, id, pos, head, n, e), kd, head, n)
  <1>1. ASSUME NEW j \in 1..n PROVE (j - 1) * e \in Nat /\ pos + head + (j - 1) * e \in Nat
    <2>1. j - 1 \in Nat /\ j \in Nat
      OBVIOUS
    <2>2. (j - 1) * e \in Nat
      BY <2>1, Product
    <2> QED
      BY <2>2
  <1>2. \A j \in 1..n :
           [kind |-> kd, i |-> j, pos |-> pos + head + (j - 1) * e, len |-> e, st |-> "hole"] \in Part
    <2> SUFFICES ASSUME NEW j \in 1..n
                 PROVE  [kind |-> kd, i |-> j, pos |-> pos + head + (j - 1) * e, len |-> e,
                         st |-> "hole"] \in Part
      OBVIOUS
    <2> DEFINE q == pos + head + (j - 1) * e
    <2>1. q \in Nat /\ j \in Nat
      BY <1>1
    <2> HIDE DEF q
    <2>2. [kind |-> kd, i |-> j, pos |-> q, len |-> e, st |-> "hole"] \in Part
      BY <2>1 DEF Part
    <2> QED
      BY <2>2 DEF q
  <1>3. [kind |-> kd, i |-> id, pos |-> pos, len |-> head, st |-> "hole"] \in Part
    BY DEF Part
  <1>4. Layout(kd, id, pos, head, n, e) \subseteq Part
    BY <1>2, <1>3 DEF Layout
  <1>5. CASE head > 0
    <2> DEFINE r == [kind |-> kd, i |-> id, pos |-> pos, len |-> head, st |-> "hole"]
    <2>0. head # 0
      BY <1>5
    <2>1. r \in Layout(kd, id, pos, head, n, e)
      <3> HIDE DEF r
      <3>1. Layout(kd, id, pos, head, n, e) =
              {r} \cup {[kind |-> kd, i |-> j, pos |-> pos + head + (j - 1) * e, len |-> e,
                         st |-> "hole"] : j \in 1..n}
        BY <2>0 DEF Layout, r
      <3> QED
        BY <3>1
    <2>2. r.kind = kd
      OBVIOUS
    <2> QED
      BY <1>4, <2>1, <2>2 DEF LaidOut
  <1>6. CASE n > 0
    <2> DEFINE r == [kind |-> kd, i |-> 1, pos |-> pos + head + (1 - 1) * e, len |-> e, st |-> "hole"]
    <2>1. 1 \in 1..n
      BY <1>6
    <2>2. r \in Layout(kd, id, pos, head, n, e)
      BY <2>1 DEF Layout
    <2>3. r.kind = kd
      OBVIOUS
    <2> QED
      BY <1>4, <2>2, <2>3 DEF LaidOut
  <1> QED
    BY <1>4, <1>5, <1>6 DEF LaidOut

\* Files that grow go on growing.
LEMMA GrownTransitive ==
    ASSUME NEW u \in Writer, NEW v, NEW x, Grown(u, v), Grown(v, x)
    PROVE  Grown(u, x)
  <1>1. /\ u.position \in Nat /\ v.position \in Nat /\ x.position \in Nat
        /\ u.size \in Nat /\ v.size \in Nat /\ x.size \in Nat
    BY DEF Grown, Writer
  <1> QED
    BY <1>1 DEF Grown

\* The same for calls that stop at the first failure.
LEMMA FollowsTransitive ==
    ASSUME NEW u \in Writer, NEW v, NEW x, Follows(u, v), Follows(v, x)
    PROVE  Follows(u, x)
  BY GrownTransitive DEF Follows

\* A change of the flags only.
LEMMA FlagsGrown ==
    ASSUME NEW v \in Writer, NEW u \in Writer, u.position = v.position, u.parts = v.parts,
           u.size = v.size, u.short = v.short
    PROVE  Grown(v, u)
  <1>1. v.position \in Nat /\ v.size \in Nat
    BY DEF Writer
  <1> QED
    BY <1>1 DEF Grown, Has

\* u is v with an object of n elements allocated, or the attempt.
Allocated(v, u, kd, head, n) ==
    /\ Follows(v, u)
    /\ u.ok => u.position >= v.position + head
    /\ u.ok /\ (head > 0 \/ n > 0) => Has(u, kd)

\* u is v after a write, which does not count as a failure.
Written(v, u) == Follows(v, u) /\ u.ok = v.ok

\* Allocate
LEMMA AllocateFollows ==
    ASSUME NEW v \in Writer, NEW kd \in Kinds, NEW id \in Nat, NEW head \in Nat, NEW n \in Nat,
           NEW e \in Nat
    PROVE  Allocated(v, Allocate(v, kd, id, head, n, e), kd, head, n)
  <1> DEFINE len == head + n * e
             u == Allocate(v, kd, id, head, n, e)
             L == Layout(kd, id, v.position, head, n, e)
  <1> SUFFICES Allocated(v, u, kd, head, n)
    OBVIOUS
  <1>1. len \in Nat /\ len >= head
    <2>1. n * e \in Nat
      BY Product
    <2> QED
      BY <2>1
  <1>2. /\ v.position \in Nat /\ v.size \in Nat /\ v.grow \in Nat /\ v.parts \subseteq Part
        /\ v.ok \in BOOLEAN
    BY DEF Writer
  <1>3. L \subseteq Part /\ (head > 0 \/ n > 0 => \E p \in L : p.kind = kd)
    <2>1. LaidOut(L, kd, head, n)
      BY <1>2, LayoutParts
    <2> HIDE DEF L
    <2> QED
      BY <2>1 DEF LaidOut
  <1> HIDE DEF L
  <1>4. Align(len) \in Nat /\ Align(len) >= len
    <2> HIDE DEF len
    <2> QED
      BY <1>1, AlignUp
  <1>5. Growth(len) \in Nat
    BY <1>4, PageAssumption DEF Growth, Larger
  <1>6. CASE ~Allocates(v, len)
    <2>1. u = [v EXCEPT !.ok = FALSE]
      BY <1>6 DEF Allocate
    <2> HIDE DEF u
    <2>2. u \in Writer /\ u.position = v.position /\ u.parts = v.parts /\ ~u.ok
      BY <2>1 DEF Writer
    <2>3. u.size = v.size /\ u.short = v.short
      BY <2>1 DEF Writer
    <2> QED
      BY <2>2, <2>3, FlagsGrown DEF Follows, Allocated
  <1>7. CASE Allocates(v, len)
    <2> DEFINE size == IF MustGrow(v, len) THEN v.size + Growth(len) ELSE v.size
               grow == IF MustGrow(v, len) THEN v.grow - 1 ELSE v.grow
               position == v.position + Align(len)
               parts == v.parts \cup L
    <2>1. u = [v EXCEPT !.position = position, !.size = size, !.grow = grow, !.parts = parts]
      BY <1>7 DEF Allocate, L
    <2> HIDE DEF u
    <2>2. size \in Nat /\ grow \in Nat /\ position \in Nat /\ parts \in SUBSET Part
      BY <1>2, <1>3, <1>4, <1>5, <1>7 DEF Allocates
    <2>3. position >= v.position + head /\ position >= v.position
      BY <1>1, <1>2, <1>4
    <2>4. v.ok
      BY <1>7 DEF Allocates
    <2>8. size >= v.size
      BY <1>2, <1>5
    <2> HIDE DEF size, grow, position, parts
    <2>5. u \in Writer /\ u.position = position /\ u.parts = parts
      BY <2>1, <2>2 DEF Writer
    <2>9. u.size = size /\ u.short = v.short
      BY <2>1 DEF Writer
    <2>6. \A x : Has(v, x) => Has(u, x)
      BY <2>5 DEF Has, parts
    <2>7. head > 0 \/ n > 0 => Has(u, kd)
      BY <1>3, <2>5 DEF Has, parts
    <2> QED
      BY <2>3, <2>4, <2>5, <2>6, <2>7, <2>8, <2>9 DEF Follows, Grown, Allocated
  <1> HIDE DEF len
  <1> QED
    BY <1>6, <1>7

\* Overwriting changes the state of parts and nothing else.
LEMMA OverwriteParts ==
    ASSUME NEW S \in SUBSET Part, NEW kd, NEW pos, NEW len
    PROVE  /\ Overwrite(S, kd, pos, len) \in SUBSET Part
           /\ \A p \in S : \E q \in Overwrite(S, kd, pos, len) : q.kind = p.kind
  <1> DEFINE F(p) == IF ~Overlap(p, pos, len) THEN p
                     ELSE [p EXCEPT !.st = IF p.kind = kd /\ Inside(p, pos, len) THEN "good"
                                           ELSE "bad"]
  <1>1. ASSUME NEW p \in S PROVE F(p) \in Part /\ F(p).kind = p.kind
    BY DEF Part
  <1> HIDE DEF F
  <1>2. Overwrite(S, kd, pos, len) = {F(p) : p \in S}
    BY DEF Overwrite, F
  <1> QED
    BY <1>1, <1>2

\* Copy changes neither the size nor what is allocated.
LEMMA CopyFollows ==
    ASSUME NEW v \in Writer, NEW kd, NEW pos \in Nat, NEW len \in Nat
    PROVE  Written(v, Copy(v, kd, pos, len))
  <1> DEFINE u == Copy(v, kd, pos, len)
  <1> SUFFICES Written(v, u)
    OBVIOUS
  <1>0. v.position \in Nat /\ v.parts \in SUBSET Part /\ v.offset \in Nat /\ v.size \in Nat
    BY DEF Writer
  <1>1. CASE ~Copies(v, pos, len)
    <2>1. u = v
      BY <1>1 DEF Copy
    <2> HIDE DEF u
    <2> QED
      BY <2>1, <1>0 DEF Follows, Grown, Written
  <1>2. CASE Copies(v, pos, len) /\ (v.full \/ v.short)
    <2> DEFINE parts == {[p EXCEPT !.st = "hole"] : p \in v.parts}
    <2>1. u = [v EXCEPT !.short = TRUE, !.offset = 0, !.parts = parts]
      BY <1>2 DEF Copy, Spoil
    <2> HIDE DEF u
    <2>2. \A p \in v.parts : [p EXCEPT !.st = "hole"] \in Part /\ [p EXCEPT !.st = "hole"].kind = p.kind
      BY <1>0 DEF Part
    <2>3. parts \in SUBSET Part /\ \A p \in v.parts : \E q \in parts : q.kind = p.kind
      BY <2>2
    <2> HIDE DEF parts
    <2>4. u \in Writer /\ u.position = v.position /\ u.parts = parts /\ u.ok = v.ok
      <3>1. parts \in SUBSET Part
        BY <2>3
      <3>2. u \in Writer
        <4> DEFINE x == [v EXCEPT !.short = TRUE]
                   y == [x EXCEPT !.offset = 0, !.parts = parts]
        <4>1. x \in Writer
          BY DEF Writer
        <4>2. u = y
          BY <2>1
        <4> HIDE DEF x
        <4>3. y \in Writer
          BY <3>1, <4>1 DEF Writer
        <4> QED
          BY <4>2, <4>3
      <3>3. u.position = v.position /\ u.parts = parts
        BY <2>1 DEF Writer
      <3>4. u.ok = v.ok
        BY <2>1 DEF Writer
      <3> QED
        BY <3>2, <3>3, <3>4
    <2>5. \A x : Has(v, x) => Has(u, x)
      BY <2>3, <2>4 DEF Has
    <2>6. u.size = v.size /\ u.short
      BY <2>1 DEF Writer
    <2> QED
      BY <1>0, <2>4, <2>5, <2>6 DEF Follows, Grown, Written
  <1>3. CASE Copies(v, pos, len) /\ ~(v.full \/ v.short)
    <2> DEFINE start == IF SeekRefused(pos) THEN v.offset ELSE pos
               parts == Overwrite(v.parts, kd, start, len)
               offset == start + len
    <2>1. u = [v EXCEPT !.parts = parts, !.offset = offset]
      BY <1>3 DEF Copy
    <2> HIDE DEF u
    <2>2. start \in Nat
      BY <1>0
    <2>3. offset \in Nat
      BY <2>2
    <2> HIDE DEF start
    <2>4. parts \in SUBSET Part /\ \A p \in v.parts : \E q \in parts : q.kind = p.kind
      BY <1>0, OverwriteParts
    <2> HIDE DEF parts, offset
    <2>5. u \in Writer /\ u.position = v.position /\ u.parts = parts /\ u.ok = v.ok
      BY <2>1, <2>3, <2>4 DEF Writer
    <2>6. \A x : Has(v, x) => Has(u, x)
      BY <2>4, <2>5 DEF Has
    <2>7. u.size = v.size /\ u.short = v.short
      BY <2>1 DEF Writer
    <2> QED
      BY <1>0, <2>5, <2>6, <2>7 DEF Follows, Grown, Written
  <1> QED
    BY <1>1, <1>2, <1>3

\* Flush, and the flush of what could not be allocated.
LEMMA FlushFollows ==
    ASSUME NEW v \in Writer, NEW kd, NEW pos \in Nat, NEW head \in Nat
    PROVE  Written(v, Flush(v, kd, pos, head)) /\ Written(v, FlushUnallocated(v, head))
  <1>1. kInvalidMDRVA \in Nat
    BY WidthAssumption DEF kInvalidMDRVA
  <1>2. Written(v, Copy(v, kd, pos, head))
    BY CopyFollows
  <1>3. Written(v, Copy(v, "nothing", kInvalidMDRVA, head))
    BY <1>1, CopyFollows
  <1> QED
    BY <1>2, <1>3 DEF Flush, FlushUnallocated

\* A file follows itself.
LEMMA FollowsSelf ==
    ASSUME NEW v \in Writer
    PROVE  Follows(v, v)
  <1>1. v.position \in Nat /\ v.size \in Nat
    BY DEF Writer
  <1> QED
    BY <1>1 DEF Follows, Grown

\* What follows is a file.
LEMMA FollowsWriter ==
    ASSUME NEW v, NEW u, Follows(v, u)
    PROVE  u \in Writer
  BY DEF Follows, Grown

\* WriteObject
LEMMA WriteObjectFollows ==
    ASSUME NEW v \in Writer, NEW kd \in Kinds, NEW id \in Nat, NEW head \in Nat
    PROVE  Follows(v, WriteObject(v, kd, id, head))
  <1> DEFINE a == Allocate(v, kd, id, head, 0, 0)
  <1>1. Follows(v, a) /\ a \in Writer
    <2>1. Follows(v, a)
      BY AllocateFollows DEF Allocated
    <2> QED
      BY <2>1, FollowsWriter
  <1>2. v.position \in Nat
    BY DEF Writer
  <1>3. WriteObject(v, kd, id, head) = IF ~v.ok THEN v
                                       ELSE IF a.ok THEN Flush(a, kd, v.position, head)
                                       ELSE FlushUnallocated(a, head)
    BY DEF WriteObject
  <1> HIDE DEF a
  <1>4. Follows(a, Flush(a, kd, v.position, head)) /\ Follows(a, FlushUnallocated(a, head))
    BY <1>1, <1>2, FlushFollows DEF Written
  <1>5. Follows(v, Flush(a, kd, v.position, head)) /\ Follows(v, FlushUnallocated(a, head))
    BY <1>1, <1>4, FollowsTransitive
  <1> QED
    BY <1>3, <1>5, FollowsSelf

\* AllocateList
LEMMA AllocateListFollows ==
    ASSUME NEW v \in Writer, NEW kd \in Kinds, NEW head \in Nat, NEW n \in Nat, NEW e \in Nat
    PROVE  Allocated(v, AllocateList(v, kd, head, n, e), kd, head, n)
  <1> DEFINE u == AllocateList(v, kd, head, n, e)
             a == Allocate(v, kd, 0, head, n, e)
  <1> SUFFICES Allocated(v, u, kd, head, n)
    OBVIOUS
  <1>1. Allocated(v, a, kd, head, n)
    BY AllocateFollows
  <1>2. Follows(v, a) /\ a \in Writer
    BY <1>1, FollowsWriter DEF Allocated
  <1>3. u = IF v.ok /\ ~a.ok THEN FlushUnallocated(a, head) ELSE a
    BY DEF AllocateList
  <1> HIDE DEF a, u
  <1>4. Follows(a, FlushUnallocated(a, head)) /\ FlushUnallocated(a, head).ok = a.ok
    <2>1. 0 \in Nat
      OBVIOUS
    <2> QED
      BY <1>2, <2>1, FlushFollows DEF Written
  <1>5. Follows(v, FlushUnallocated(a, head))
    BY <1>2, <1>4, FollowsTransitive
  <1>6. CASE v.ok /\ ~a.ok
    BY <1>3, <1>4, <1>5, <1>6 DEF Allocated
  <1>7. CASE ~(v.ok /\ ~a.ok)
    BY <1>1, <1>3, <1>7
  <1> QED
    BY <1>6, <1>7

\* CopyIndexAfterObject
LEMMA CopyIndexFollows ==
    ASSUME NEW v \in Writer, NEW kd, NEW head \in Nat, NEW i \in Nat \ {0}, NEW j \in Nat,
           NEW e \in Nat, v.ok /\ i <= j => Has(v, kd)
    PROVE  Written(v, CopyIndex(v, kd, head, i, j, e))
  <1>1. CASE ~(v.ok /\ i <= j)
    <2>1. CopyIndex(v, kd, head, i, j, e) = v
      BY <1>1 DEF CopyIndex
    <2> QED
      BY <2>1, FollowsSelf DEF Written
  <1>2. CASE v.ok /\ i <= j
    <2> DEFINE pos == PositionOf(v, kd) + head + (i - 1) * e
               len == (j - i + 1) * e
    <2>1. PositionOf(v, kd) \in Nat
      BY <1>2, PositionFound
    <2>2. (i - 1) * e \in Nat /\ len \in Nat
      <3>1. i - 1 \in Nat /\ j - i + 1 \in Nat
        BY <1>2
      <3> QED
        BY <3>1, Product
    <2>3. pos \in Nat
      <3> DEFINE m == (i - 1) * e
      <3>1. m \in Nat
        BY <2>2
      <3> HIDE DEF m
      <3>2. PositionOf(v, kd) + head + m \in Nat
        BY <2>1, <3>1
      <3> QED
        BY <3>2 DEF m
    <2>4. CopyIndex(v, kd, head, i, j, e) = Copy(v, kd, pos, len)
      BY <1>2 DEF CopyIndex
    <2>5. len \in Nat
      BY <2>2
    <2> HIDE DEF pos, len
    <2> QED
      BY <2>3, <2>4, <2>5, CopyFollows
  <1> QED
    BY <1>1, <1>2

\* WriteBlock
LEMMA WriteBlockFollows ==
    ASSUME NEW v \in Writer, NEW kd \in Kinds, NEW id \in Nat, NEW len \in Nat
    PROVE  Follows(v, WriteBlock(v, kd, id, len))
  <1> DEFINE a == Allocate(v, kd, id, len, 0, 0)
  <1>1. Follows(v, a)
    BY AllocateFollows DEF Allocated
  <1>2. a \in Writer /\ v.position \in Nat
    BY <1>1, FollowsWriter DEF Writer
  <1>3. WriteBlock(v, kd, id, len) = IF a.ok THEN Copy(a, kd, v.position, len) ELSE a
    BY DEF WriteBlock
  <1> HIDE DEF a
  <1>4. Follows(a, Copy(a, kd, v.position, len))
    BY <1>2, CopyFollows DEF Written
  <1>5. Follows(v, Copy(a, kd, v.position, len))
    BY <1>1, <1>4, FollowsTransitive
  <1> QED
    BY <1>1, <1>3, <1>5

\* A failure, or a success where there was one.
LEMMA SetOkFollows ==
    ASSUME NEW v, NEW u, Follows(v, u), NEW b \in BOOLEAN, b => v.ok
    PROVE  Follows(v, [u EXCEPT !.ok = b])
  <1> DEFINE x == [u EXCEPT !.ok = b]
  <1>1. u \in Writer
    BY FollowsWriter
  <1>2. x \in Writer /\ x.position = u.position /\ x.parts = u.parts /\ x.ok = b
    BY <1>1 DEF Writer
  <1>5. x.size = u.size /\ x.short = u.short
    BY <1>1 DEF Writer
  <1> HIDE DEF x
  <1>3. \A y : Has(v, y) => Has(x, y)
    BY <1>2 DEF Has, Follows, Grown
  <1>4. Follows(v, x)
    BY <1>2, <1>3, <1>5 DEF Follows, Grown
  <1> QED
    BY <1>4 DEF x

\* WriteString
LEMMA WriteStringFollows ==
    ASSUME NEW v \in Writer, NEW kd \in Kinds, NEW len \in Nat, NEW valid \in BOOLEAN
    PROVE  Follows(v, WriteString(v, kd, len, valid))
  <1> DEFINE a == Allocate(v, kd, 0, StringHead, 1, len)
             pos == v.position + StringHead
             c == Copy(a, kd, pos, len)
  <1>0. StringHead \in Nat /\ v.position \in Nat /\ pos \in Nat /\ (~v.full) \in BOOLEAN
    BY DEF StringHead, Writer
  <1>1. Follows(v, a)
    BY <1>0, AllocateFollows DEF Allocated
  <1>2. a \in Writer
    BY <1>1, FollowsWriter
  <1>3. WriteString(v, kd, len, valid) =
          IF ~v.ok THEN v
          ELSE IF ~a.ok THEN FlushUnallocated(a, StringHead)
          ELSE IF ~valid THEN [Flush(a, kd, v.position, StringHead) EXCEPT !.ok = FALSE]
          ELSE [Flush(c, kd, v.position, StringHead) EXCEPT !.ok = ~v.full]
    BY DEF WriteString
  <1> HIDE DEF a, pos
  <1>4. Follows(a, c) /\ c \in Writer
    BY <1>0, <1>2, CopyFollows, FollowsWriter DEF Written
  <1> HIDE DEF c
  <1>5. Follows(v, c)
    BY <1>1, <1>4, FollowsTransitive
  <1>6. /\ Follows(a, FlushUnallocated(a, StringHead)) /\ Follows(a, Flush(a, kd, v.position, StringHead))
        /\ Follows(c, Flush(c, kd, v.position, StringHead))
    BY <1>0, <1>2, <1>4, FlushFollows DEF Written
  <1>7. /\ Follows(v, FlushUnallocated(a, StringHead)) /\ Follows(v, Flush(a, kd, v.position, StringHead))
        /\ Follows(v, Flush(c, kd, v.position, StringHead))
    BY <1>1, <1>5, <1>6, FollowsTransitive
  <1>8. Follows(v, [Flush(a, kd, v.position, StringHead) EXCEPT !.ok = FALSE])
    BY <1>7, SetOkFollows
  <1>9. v.ok => Follows(v, [Flush(c, kd, v.position, StringHead) EXCEPT !.ok = ~v.full])
    BY <1>0, <1>7, SetOkFollows
  <1> QED
    BY <1>3, <1>7, <1>8, <1>9, FollowsSelf

-----------------------------------------------------------------------------
(* The steps of the dump process. *)

Entries == [kind : Kinds \cup {"unused"}, pos : Nat]

\* The types of the dump process's state.
DumpTypes ==
    /\ dpc \in Stages
    /\ cctx \in Crash \cup {NoCrash}
    /\ tids \in Seq(Threads)
    /\ k \in Nat
    /\ attached \in SUBSET Threads
    /\ w \in Writer
    /\ created \in BOOLEAN
    /\ blocks \in Nat
    /\ context \in Nat
    /\ dir \in Seq(Entries)
    /\ verdict \in {"none", "ok", "fail"}
    /\ faults \in 0..MaxFaults

\* While the streams are written the file is there, with its header, its directory, and
\* the list of which elements are being written.
FileShape ==
    /\ dpc \in Reading \cup {"resume"} => created
    /\ dpc \in (Reading \ {"header"}) \cup {"resume"} => w.position > 0 /\ Has(w, "dir")
    /\ dpc = "threads" => Has(w, "threads")
    /\ dpc = "modules" => Has(w, "modules")
    /\ dpc \in Reading \cup {"suspend", "open"} => k >= 1

\* The directory has an entry for each stream that is finished.
DirShape ==
    /\ Len(dir) <= kNumWriters
    /\ dpc \in {"header", "list", "threads"} => Len(dir) = 0
    /\ dpc \in {"modlist", "modules"} => Len(dir) = 1
    /\ dpc = "memory" => Len(dir) = 2
    /\ dpc = "exception" => Len(dir) = 3
    /\ dpc = "system" => Len(dir) = 4
    /\ dpc = "files" => k <= 8 /\ Len(dir) = k + 4
    /\ dpc = "dso" => Len(dir) = 12

DumpShape == DumpTypes /\ FileShape /\ DirShape

\* A stage ends with the next one and a file that has grown, or it fails.
Wrote(next) ==
    \/ dpc' = next /\ Grown(w, w')
    \/ dpc' = "failed" /\ w' = NewFile

\* An empty file.
LEMMA NewFileWriter == NewFile \in Writer
  BY DEF NewFile, Writer

\* The sizes of the records are numbers.
LEMMA Sizes ==
    /\ HeaderSize \in Nat \ {0} /\ DirectorySize \in Nat /\ ThreadSize \in Nat /\ ModuleSize \in Nat
    /\ DescriptorSize \in Nat /\ ExceptionSize \in Nat /\ SystemSize \in Nat \ {0}
    /\ LinkMapSize \in Nat /\ DebugSize \in Nat \ {0} /\ StackLen \in Nat /\ IpLen \in Nat
    /\ CpuSize \in Nat /\ CvLen \in Nat /\ NameLen \in Nat /\ FileLen \in Nat
    /\ kNumWriters \in Nat \ {0} /\ 0 \in Nat
  BY DEF HeaderSize, DirectorySize, ThreadSize, ModuleSize, DescriptorSize, ExceptionSize,
         SystemSize, LinkMapSize, DebugSize, StackLen, IpLen, CpuSize, CvLen, NameLen, FileLen,
         kNumWriters

\* The beginning of a stage changes flags only.
LEMMA StartGrown ==
    ASSUME w \in Writer, NEW d \in Disk
    PROVE  /\ Start(d) \in Writer /\ Grown(w, Start(d)) /\ Start(d).position = w.position
           /\ Start(d).parts = w.parts /\ Start(d).size = w.size /\ Start(d).short = w.short
           /\ Start(d).ok
           /\ \A x : Has(Start(d), x) <=> Has(w, x)
  <1>1. d[1] \in Nat /\ d[2] \in BOOLEAN
    <2>1. d = <<3, FALSE>> \/ d \in (0..2) \X {FALSE} \/ d = <<3, TRUE>>
      BY DEF Disk
    <2>2. CASE d = <<3, FALSE>>
      BY <2>2
    <2>3. CASE d = <<3, TRUE>>
      BY <2>3
    <2>4. CASE d \in (0..2) \X {FALSE}
      <3>1. d[1] \in 0..2 /\ d[2] \in {FALSE}
        BY <2>4
      <3>2. d[1] \in Nat
        BY <3>1
      <3>3. d[2] \in BOOLEAN
        BY <3>1, Zenon
      <3> QED
        BY <3>2, <3>3
    <2> QED
      BY <2>1, <2>2, <2>3, <2>4
  <1> DEFINE s == [w EXCEPT !.ok = TRUE, !.grow = d[1], !.full = d[2]]
  <1>2. s \in Writer
    <2> DEFINE x == [w EXCEPT !.ok = TRUE]
               y == [x EXCEPT !.grow = d[1]]
               z == [y EXCEPT !.full = d[2]]
    <2>1. x \in Writer
      BY DEF Writer
    <2> HIDE DEF x
    <2>2. y \in Writer
      BY <1>1, <2>1 DEF Writer
    <2> HIDE DEF y
    <2>3. z \in Writer
      BY <1>1, <2>2 DEF Writer
    <2>4. s = z
      BY DEF x, y
    <2> QED
      BY <2>3, <2>4
  <1>3. /\ s.position = w.position /\ s.parts = w.parts /\ s.size = w.size /\ s.short = w.short
        /\ s.ok
    BY DEF Writer
  <1>4. Start(d) = s
    BY DEF Start, Begin
  <1> HIDE DEF s
  <1>5. Grown(w, s)
    BY <1>2, <1>3, FlagsGrown
  <1>6. \A x : Has(s, x) <=> Has(w, x)
    BY <1>3 DEF Has
  <1> QED
    BY <1>2, <1>3, <1>4, <1>5, <1>6

\* ... and so does its end.
LEMMA EndGrown ==
    ASSUME NEW v \in Writer
    PROVE  /\ Grown(v, End(v)) /\ End(v).position = v.position /\ End(v).parts = v.parts
           /\ End(v).size = v.size /\ End(v).short = v.short
  <1> DEFINE e == [v EXCEPT !.ok = TRUE, !.grow = 0, !.full = FALSE]
  <1>1. e \in Writer
    <2> DEFINE x == [v EXCEPT !.ok = TRUE]
               y == [x EXCEPT !.grow = 0]
               z == [y EXCEPT !.full = FALSE]
    <2>1. x \in Writer
      BY DEF Writer
    <2> HIDE DEF x
    <2>2. y \in Writer
      BY <2>1 DEF Writer
    <2> HIDE DEF y
    <2>3. z \in Writer
      BY <2>2 DEF Writer
    <2>4. e = z
      BY DEF x, y
    <2> QED
      BY <2>3, <2>4
  <1>2. e.position = v.position /\ e.parts = v.parts /\ e.size = v.size /\ e.short = v.short
    BY DEF Writer
  <1>3. End(v) = e
    BY DEF End
  <1> HIDE DEF e
  <1> QED
    BY <1>1, <1>2, <1>3, FlagsGrown

\* What a stage has written when it is over.
LEMMA ThenOutcome ==
    ASSUME w \in Writer, NEW d \in Disk, NEW v, Follows(Start(d), v), NEW next, Then(v, next)
    PROVE  /\ UNCHANGED <<attached, verdict>>
           /\ \/ v.ok /\ dpc' = next /\ Grown(w, w') /\ Grown(v, w')
              \/ ~v.ok /\ dpc' = "failed" /\ w' = NewFile
  <1>1. Grown(w, Start(d)) /\ Grown(Start(d), v) /\ v \in Writer /\ Start(d) \in Writer
    BY StartGrown DEF Follows, Grown
  <1>2. Grown(v, End(v))
    BY <1>1, EndGrown
  <1>3. Grown(w, v)
    BY <1>1, GrownTransitive
  <1>4. Grown(w, End(v))
    BY <1>2, <1>3, GrownTransitive
  <1> QED
    BY <1>2, <1>4 DEF Then, Abandon, Fail

\* The entry of a stream in the directory.
LEMMA EnteredFollows ==
    ASSUME dir \in Seq(Entries), NEW v \in Writer, Has(v, "dir")
    PROVE  Written(v, Entered(v))
  <1> DEFINE i == Len(dir) + 1
  <1>1. Entered(v) = CopyIndex(v, "dir", 0, i, i, DirectorySize)
    BY DEF Entered
  <1>2. i \in Nat \ {0} /\ i \in Nat /\ 0 \in Nat /\ DirectorySize \in Nat
    BY Sizes
  <1> HIDE DEF i
  <1>3. v.ok /\ i <= i => Has(v, "dir")
    OBVIOUS
  <1>4. Written(v, CopyIndex(v, "dir", 0, i, i, DirectorySize))
    BY <1>2, <1>3, CopyIndexFollows
  <1> QED
    BY <1>1, <1>4

\* Dump's first step.
LEMMA HeaderWritten ==
    ASSUME w \in Writer, WriteHeader
    PROVE  /\ UNCHANGED <<attached, verdict, cctx, tids, k, created, blocks, context, dir>>
           /\ dpc = "header" /\ Wrote("list")
           /\ dpc' = "list" => w'.position > 0 /\ Has(w', "dir")
  <1> DEFINE A(d) == Allocate(Start(d), "header", 0, HeaderSize, 0, 0)
             B(d) == Allocate(A(d), "dir", 0, 0, kNumWriters, DirectorySize)
             C(d) == IF A(d).ok THEN Flush(B(d), "header", 0, HeaderSize)
                     ELSE FlushUnallocated(A(d), HeaderSize)
  <1>1. PICK d \in Disk : Then(C(d), "list")
    BY DEF WriteHeader
  <1>2. dpc = "header" /\ UNCHANGED <<cctx, tids, k, created, blocks, context, dir>>
    BY DEF WriteHeader
  <1> DEFINE s == Start(d)
             a == Allocate(s, "header", 0, HeaderSize, 0, 0)
             b == Allocate(a, "dir", 0, 0, kNumWriters, DirectorySize)
             c == IF a.ok THEN Flush(b, "header", 0, HeaderSize) ELSE FlushUnallocated(a, HeaderSize)
  <1>3. Then(c, "list")
    BY <1>1
  <1>4. s \in Writer /\ s.position \in Nat
    BY StartGrown DEF Writer
  <1> HIDE DEF A, B, C, s
  <1>5. Follows(s, a) /\ (a.ok => a.position >= s.position + HeaderSize)
    <2>1. "header" \in Kinds /\ HeaderSize \in Nat /\ 0 \in Nat
      BY Sizes DEF Kinds
    <2>2. Allocated(s, a, "header", HeaderSize, 0)
      BY <1>4, <2>1, AllocateFollows, Zenon
    <2> QED
      BY <2>2 DEF Allocated
  <1>6. a \in Writer
    BY <1>5, FollowsWriter
  <1> HIDE DEF a
  <1>7. Follows(a, b) /\ (b.ok => Has(b, "dir"))
    <2>1. kNumWriters \in Nat /\ kNumWriters > 0 /\ DirectorySize \in Nat /\ 0 \in Nat /\ "dir" \in Kinds
      BY Sizes DEF Kinds
    <2>2. Allocated(a, b, "dir", 0, kNumWriters)
      BY <1>6, <2>1, AllocateFollows, Zenon
    <2> QED
      BY <2>1, <2>2 DEF Allocated
  <1>8. b \in Writer
    BY <1>7, FollowsWriter
  <1> HIDE DEF b
  <1>9. Follows(b, Flush(b, "header", 0, HeaderSize)) /\ Flush(b, "header", 0, HeaderSize).ok = b.ok
    BY <1>8, Sizes, FlushFollows DEF Written
  <1>10. Follows(a, FlushUnallocated(a, HeaderSize)) /\ FlushUnallocated(a, HeaderSize).ok = a.ok
    <2>1. 0 \in Nat
      OBVIOUS
    <2> QED
      BY <1>6, <2>1, Sizes, FlushFollows DEF Written
  <1>11. Follows(s, c)
    <2>1. Follows(s, b)
      BY <1>4, <1>5, <1>7, FollowsTransitive
    <2>2. Follows(s, Flush(b, "header", 0, HeaderSize))
      BY <1>4, <1>9, <2>1, FollowsTransitive
    <2>3. Follows(s, FlushUnallocated(a, HeaderSize))
      BY <1>4, <1>5, <1>10, FollowsTransitive
    <2> QED
      BY <2>2, <2>3
  <1>12. c.ok => c.position > 0 /\ Has(c, "dir")
    <2> SUFFICES ASSUME c.ok PROVE c.position > 0 /\ Has(c, "dir")
      OBVIOUS
    <2>1. a.ok /\ c = Flush(b, "header", 0, HeaderSize)
      BY <1>10
    <2>2. Follows(b, c) /\ b.ok
      BY <1>9, <2>1
    <2>3. a.position \in Nat /\ b.position \in Nat /\ c.position \in Nat
      BY <1>6, <1>8, <2>2 DEF Follows, Grown, Writer
    <2>4. a.position > 0
      BY <1>4, <1>5, <2>1, <2>3, Sizes
    <2>5. b.position >= a.position /\ c.position >= b.position
      BY <1>7, <2>2 DEF Follows, Grown
    <2>6. Has(c, "dir")
      BY <1>7, <2>2 DEF Follows, Grown
    <2> QED
      BY <2>3, <2>4, <2>5, <2>6
  <1>13. c \in Writer
    BY <1>11, FollowsWriter
  <1> HIDE DEF c
  <1>14. /\ UNCHANGED <<attached, verdict>>
         /\ \/ c.ok /\ dpc' = "list" /\ Grown(w, w') /\ Grown(c, w')
            \/ ~c.ok /\ dpc' = "failed" /\ w' = NewFile
    BY <1>3, <1>11, ThenOutcome DEF s
  <1>15. ASSUME dpc' = "list" PROVE w'.position > 0 /\ Has(w', "dir")
    <2>1. Grown(c, w') /\ c.position > 0 /\ Has(c, "dir")
      BY <1>12, <1>14, <1>15
    <2>2. c.position \in Nat /\ w'.position \in Nat
      BY <1>13, <2>1 DEF Grown, Writer
    <2> QED
      BY <2>1, <2>2 DEF Grown
  <1> QED
    BY <1>2, <1>14, <1>15 DEF Wrote

\* The list of the threads is allocated.
LEMMA ThreadListWritten ==
    ASSUME DumpTypes, ThreadList
    PROVE  /\ UNCHANGED <<attached, verdict, cctx, tids, created, blocks, context, dir>>
           /\ dpc = "list" /\ k' = 1 /\ Wrote("threads")
           /\ dpc' = "threads" => Has(w', "threads")
  <1> DEFINE A(d) == AllocateList(Start(d), "threads", 4, Len(tids), ThreadSize)
  <1>1. PICK d \in Disk : Then(A(d), "threads")
    BY DEF ThreadList
  <1>2. dpc = "list" /\ k' = 1 /\ UNCHANGED <<cctx, tids, created, blocks, context, dir>>
    BY DEF ThreadList
  <1> DEFINE s == Start(d)
             a == AllocateList(s, "threads", 4, Len(tids), ThreadSize)
  <1>3. Then(a, "threads") /\ w \in Writer
    BY <1>1 DEF DumpTypes
  <1>4. s \in Writer
    BY <1>3, StartGrown
  <1> HIDE DEF A, s
  <1>5. Follows(s, a) /\ (a.ok => Has(a, "threads"))
    <2>1. "threads" \in Kinds /\ ThreadSize \in Nat /\ Len(tids) \in Nat /\ 4 \in Nat
      BY Sizes DEF Kinds, DumpTypes
    <2>2. Allocated(s, a, "threads", 4, Len(tids))
      BY <1>4, <2>1, AllocateListFollows, Zenon
    <2> HIDE DEF a
    <2> QED
      BY <2>1, <2>2 DEF Allocated
  <1> HIDE DEF a
  <1>6. /\ UNCHANGED <<attached, verdict>>
        /\ \/ a.ok /\ dpc' = "threads" /\ Grown(w, w') /\ Grown(a, w')
           \/ ~a.ok /\ dpc' = "failed" /\ w' = NewFile
    BY <1>3, <1>5, ThenOutcome DEF s
  <1>7. dpc' = "threads" => Has(w', "threads")
    BY <1>5, <1>6 DEF Grown
  <1> QED
    BY <1>2, <1>6, <1>7 DEF Wrote

\* One thread of the list.
LEMMA ThreadWritten ==
    ASSUME DumpTypes, FileShape, NEW ok, WriteThread(ok)
    PROVE  /\ UNCHANGED <<attached, verdict, cctx, tids, created, dir>>
           /\ dpc = "threads" /\ k' = k + 1 /\ blocks' \in Nat /\ context' \in Nat
           /\ Wrote("threads")
  <1> DEFINE S(d) == IF cctx[1] = tids[k] THEN Start(d) ELSE GetThreadInfoByIndex(Start(d), ok)
             A(d, st) == FillThreadStack(S(d), st)
             B(d, st, m) == IF cctx[1] = tids[k] /\ m THEN WriteBlock(A(d, st), "ip", 0, IpLen)
                            ELSE A(d, st)
             C(d, st, m) == WriteObject(B(d, st, m), "cpu", k, CpuSize)
             V(d, st, m) == CopyIndex(C(d, st, m), "threads", 4, k, k, ThreadSize)
  <1>1. PICK d \in Disk, st \in BOOLEAN, m \in BOOLEAN :
          /\ Then(V(d, st, m), "threads")
          /\ blocks' = blocks + (IF st THEN 1 ELSE 0) + (IF cctx[1] = tids[k] /\ m THEN 1 ELSE 0)
          /\ context' = IF cctx[1] = tids[k] THEN B(d, st, m).position ELSE context
    BY DEF WriteThread
  <1>2. dpc = "threads" /\ k' = k + 1 /\ UNCHANGED <<cctx, tids, created, dir>>
    BY DEF WriteThread
  <1>3. w \in Writer /\ k \in Nat \ {0} /\ k \in Nat /\ Has(w, "threads")
    BY <1>2 DEF DumpTypes, FileShape, Reading
  <1>4. blocks' \in Nat
    BY <1>1 DEF DumpTypes
  <1> DEFINE z == Start(d)
             s == S(d)
             a == A(d, st)
             b == B(d, st, m)
             c == C(d, st, m)
             v == V(d, st, m)
  <1>k. /\ "stack" \in Kinds /\ "ip" \in Kinds /\ "cpu" \in Kinds /\ StackLen \in Nat /\ IpLen \in Nat
        /\ CpuSize \in Nat /\ ThreadSize \in Nat /\ 0 \in Nat /\ 4 \in Nat
    BY Sizes DEF Kinds
  <1>5. z \in Writer /\ Grown(w, z)
    BY <1>3, StartGrown
  <1>6. Follows(z, s)
    <2> HIDE DEF z
    <2>1. s = z \/ s = [z EXCEPT !.ok = FALSE]
      BY DEF GetThreadInfoByIndex, z
    <2>2. Follows(z, z)
      BY <1>5, FollowsSelf
    <2>3. Follows(z, [z EXCEPT !.ok = FALSE])
      BY <2>2, SetOkFollows
    <2> HIDE DEF s
    <2> QED
      BY <2>1, <2>2, <2>3
  <1> HIDE DEF z, S
  <1>7. s \in Writer
    BY <1>6, FollowsWriter
  <1>8. Follows(s, a)
    <2>1. Follows(s, WriteBlock(s, "stack", k, StackLen)) /\ Follows(s, s)
      BY <1>3, <1>7, <1>k, WriteBlockFollows, FollowsSelf, Zenon
    <2>2. a = WriteBlock(s, "stack", k, StackLen) \/ a = s
      BY DEF FillThreadStack
    <2> QED
      BY <2>1, <2>2
  <1>9. a \in Writer /\ Follows(z, a)
    BY <1>5, <1>6, <1>8, FollowsWriter, FollowsTransitive
  <1> HIDE DEF A, s
  <1>10. Follows(a, b)
    <2>1. Follows(a, WriteBlock(a, "ip", 0, IpLen)) /\ Follows(a, a)
      BY <1>9, <1>k, WriteBlockFollows, FollowsSelf, Zenon
    <2>2. b = WriteBlock(a, "ip", 0, IpLen) \/ b = a
      OBVIOUS
    <2> QED
      BY <2>1, <2>2
  <1>11. b \in Writer /\ Follows(z, b)
    BY <1>5, <1>9, <1>10, FollowsWriter, FollowsTransitive
  <1> HIDE DEF B, a
  <1>12. Follows(b, c)
    BY <1>3, <1>11, <1>k, WriteObjectFollows, Zenon
  <1>13. c \in Writer /\ Follows(z, c)
    BY <1>5, <1>11, <1>12, FollowsWriter, FollowsTransitive
  <1> HIDE DEF C
  <1>14. Has(c, "threads")
    BY <1>3, <1>5, <1>13 DEF Follows, Grown
  <1>15. Follows(c, v)
    <2>1. c.ok /\ k <= k => Has(c, "threads")
      BY <1>14
    <2>2. Written(c, v)
      BY <1>3, <1>13, <1>k, <2>1, CopyIndexFollows, Zenon
    <2> QED
      BY <2>2 DEF Written
  <1>16. Follows(z, v)
    BY <1>5, <1>13, <1>15, FollowsTransitive
  <1> HIDE DEF V, c
  <1>17. /\ UNCHANGED <<attached, verdict>>
         /\ \/ v.ok /\ dpc' = "threads" /\ Grown(w, w') /\ Grown(v, w')
            \/ ~v.ok /\ dpc' = "failed" /\ w' = NewFile
    BY <1>1, <1>3, <1>16, ThenOutcome DEF z
  <1>18. context' \in Nat
    <2>1. b.position \in Nat /\ context \in Nat
      BY <1>11 DEF Writer, DumpTypes
    <2>2. context' = b.position \/ context' = context
      BY <1>1
    <2> QED
      BY <2>1, <2>2
  <1> QED
    BY <1>2, <1>4, <1>17, <1>18 DEF Wrote

\* A list that is flushed and entered in the directory.
LEMMA ListEntered ==
    ASSUME DumpTypes, NEW kd, Has(w, kd), Has(w, "dir"), NEW d \in Disk, NEW pos,
           pos = PositionOf(w, kd), w' = End(Entered(Flush(Start(d), kd, pos, 4)))
    PROVE  pos \in Nat /\ Grown(w, w')
  <1>1. w \in Writer /\ dir \in Seq(Entries) /\ 4 \in Nat
    BY DEF DumpTypes
  <1>2. pos \in Nat
    BY <1>1, PositionFound
  <1> DEFINE z == Start(d)
             a == Flush(z, kd, pos, 4)
             e == Entered(a)
  <1>3. z \in Writer /\ Grown(w, z)
    BY <1>1, StartGrown
  <1> HIDE DEF z
  <1>4. Follows(z, a)
    BY <1>1, <1>2, <1>3, FlushFollows DEF Written
  <1>5. a \in Writer /\ Grown(w, a)
    BY <1>1, <1>3, <1>4, GrownTransitive DEF Follows, Grown
  <1> HIDE DEF a
  <1>6. Has(a, "dir")
    BY <1>5 DEF Grown
  <1>7. Written(a, e)
    BY <1>1, <1>5, <1>6, EnteredFollows
  <1>8. e \in Writer /\ Grown(a, e)
    BY <1>7 DEF Written, Follows, Grown
  <1> HIDE DEF e
  <1>9. Grown(e, End(e))
    BY <1>8, EndGrown
  <1>10. Grown(w, e)
    BY <1>1, <1>5, <1>8, GrownTransitive
  <1>11. Grown(w, End(e))
    BY <1>1, <1>9, <1>10, GrownTransitive
  <1> QED
    BY <1>2, <1>11 DEF e, a, z

\* An entry of the directory.
LEMMA EntryType ==
    ASSUME NEW kd \in Kinds, NEW pos \in Nat
    PROVE  Entry(kd, pos) \in Entries /\ NullEntry \in Entries
  BY DEF Entry, NullEntry, Entries

\* The list of the threads is complete.
LEMMA ThreadListFinished ==
    ASSUME DumpTypes, FileShape, ThreadListDone
    PROVE  /\ UNCHANGED <<cctx, tids, k, attached, created, blocks, context, verdict>>
           /\ dpc = "threads" /\ dpc' = "modlist" /\ Grown(w, w')
           /\ \E x \in Entries : dir' = Append(dir, x)
  <1>1. PICK d \in Disk :
          /\ w' = End(Entered(Flush(Start(d), "threads", PositionOf(w, "threads"), 4)))
          /\ dir' = Append(dir, Entry("threads", PositionOf(w, "threads")))
    BY DEF ThreadListDone
  <1>2. /\ dpc = "threads" /\ dpc' = "modlist"
        /\ UNCHANGED <<cctx, tids, k, attached, created, blocks, context, verdict>>
    BY DEF ThreadListDone
  <1>3. Has(w, "threads") /\ Has(w, "dir")
    BY <1>2 DEF FileShape, Reading
  <1> DEFINE p == PositionOf(w, "threads")
  <1>4. p = PositionOf(w, "threads") /\ w' = End(Entered(Flush(Start(d), "threads", p, 4)))
    BY <1>1
  <1> HIDE DEF p
  <1>5. p \in Nat /\ Grown(w, w')
    BY <1>3, <1>4, ListEntered
  <1>6. Entry("threads", p) \in Entries
    BY <1>5, EntryType DEF Kinds
  <1> QED
    BY <1>1, <1>2, <1>4, <1>5, <1>6

\* The list of the modules is allocated.
LEMMA ModuleListWritten ==
    ASSUME DumpTypes, ModuleList
    PROVE  /\ UNCHANGED <<attached, verdict, cctx, tids, created, blocks, context, dir>>
           /\ dpc = "modlist" /\ k' = 1 /\ Wrote("modules")
           /\ dpc' = "modules" => Has(w', "modules")
  <1> DEFINE A(d) == AllocateList(Start(d), "modules", 4, Modules, ModuleSize)
  <1>1. PICK d \in Disk : Then(A(d), "modules")
    BY DEF ModuleList
  <1>2. dpc = "modlist" /\ k' = 1 /\ UNCHANGED <<cctx, tids, created, blocks, context, dir>>
    BY DEF ModuleList
  <1> DEFINE s == Start(d)
             a == AllocateList(s, "modules", 4, Modules, ModuleSize)
  <1>3. Then(a, "modules") /\ w \in Writer
    BY <1>1 DEF DumpTypes
  <1>4. s \in Writer
    BY <1>3, StartGrown
  <1> HIDE DEF A, s
  <1>5. Follows(s, a) /\ (a.ok => Has(a, "modules"))
    <2>1. "modules" \in Kinds /\ ModuleSize \in Nat /\ Modules \in Nat /\ 4 \in Nat
      BY Sizes, BudgetAssumption DEF Kinds
    <2>2. Allocated(s, a, "modules", 4, Modules)
      BY <1>4, <2>1, AllocateListFollows, Zenon
    <2> HIDE DEF a
    <2> QED
      BY <2>1, <2>2 DEF Allocated
  <1> HIDE DEF a
  <1>6. /\ UNCHANGED <<attached, verdict>>
        /\ \/ a.ok /\ dpc' = "modules" /\ Grown(w, w') /\ Grown(a, w')
           \/ ~a.ok /\ dpc' = "failed" /\ w' = NewFile
    BY <1>3, <1>5, ThenOutcome DEF s
  <1>7. dpc' = "modules" => Has(w', "modules")
    BY <1>5, <1>6 DEF Grown
  <1> QED
    BY <1>2, <1>6, <1>7 DEF Wrote

\* One module of the list.
LEMMA ModuleWritten ==
    ASSUME DumpTypes, FileShape, WriteModule
    PROVE  /\ UNCHANGED <<attached, verdict, cctx, tids, created, blocks, context, dir>>
           /\ dpc = "modules" /\ k' = k + 1 /\ Wrote("modules")
  <1> DEFINE A(d, id) == IF id THEN WriteBlock(Start(d), "cv", k, CvLen) ELSE Start(d)
             B(d, id, vl) == FillRawModule(Start(d), id, vl)
             C(d, id, vl) == CopyIndex(B(d, id, vl), "modules", 4, k, k, ModuleSize)
  <1>1. PICK d \in Disk, id \in BOOLEAN, vl \in BOOLEAN : Then(C(d, id, vl), "modules")
    BY DEF WriteModule
  <1>2. dpc = "modules" /\ k' = k + 1 /\ UNCHANGED <<cctx, tids, created, blocks, context, dir>>
    BY DEF WriteModule
  <1>3. w \in Writer /\ k \in Nat \ {0} /\ k \in Nat /\ Has(w, "modules")
    BY <1>2 DEF DumpTypes, FileShape, Reading
  <1>k. /\ "cv" \in Kinds /\ "module_name" \in Kinds /\ CvLen \in Nat /\ NameLen \in Nat
        /\ ModuleSize \in Nat /\ 4 \in Nat
    BY Sizes DEF Kinds
  <1> DEFINE z == Start(d)
             a == A(d, id)
             b == B(d, id, vl)
             c == C(d, id, vl)
  <1>4. z \in Writer /\ Grown(w, z)
    BY <1>3, StartGrown
  <1>5. Follows(z, a)
    <2>1. a = WriteBlock(z, "cv", k, CvLen) \/ a = z
      OBVIOUS
    <2> HIDE DEF z, a
    <2>2. Follows(z, WriteBlock(z, "cv", k, CvLen)) /\ Follows(z, z)
      BY <1>3, <1>4, <1>k, WriteBlockFollows, FollowsSelf, Zenon
    <2> QED
      BY <2>1, <2>2
  <1>6. b = WriteString(a, "module_name", NameLen, vl)
    BY DEF FillRawModule
  <1> HIDE DEF z, A
  <1>7. a \in Writer
    BY <1>5, FollowsWriter
  <1> HIDE DEF B, a
  <1>8. Follows(a, b)
    BY <1>1, <1>6, <1>7, <1>k, WriteStringFollows
  <1>9. Follows(z, b) /\ b \in Writer
    BY <1>4, <1>5, <1>8, FollowsTransitive, FollowsWriter
  <1>10. Has(b, "modules")
    BY <1>3, <1>4, <1>9 DEF Follows, Grown
  <1>11. Follows(b, c)
    <2>1. b.ok /\ k <= k => Has(b, "modules")
      BY <1>10
    <2>2. Written(b, c)
      BY <1>3, <1>9, <1>k, <2>1, CopyIndexFollows, Zenon
    <2> QED
      BY <2>2 DEF Written
  <1>12. Follows(z, c)
    BY <1>4, <1>9, <1>11, FollowsTransitive
  <1> HIDE DEF C, b
  <1>13. /\ UNCHANGED <<attached, verdict>>
         /\ \/ c.ok /\ dpc' = "modules" /\ Grown(w, w') /\ Grown(c, w')
            \/ ~c.ok /\ dpc' = "failed" /\ w' = NewFile
    BY <1>1, <1>3, <1>12, ThenOutcome DEF z
  <1> QED
    BY <1>2, <1>13 DEF Wrote

\* The list of the modules is complete.
LEMMA ModuleListFinished ==
    ASSUME DumpTypes, FileShape, ModuleListDone
    PROVE  /\ UNCHANGED <<cctx, tids, k, attached, created, blocks, context, verdict>>
           /\ dpc = "modules" /\ dpc' = "memory" /\ Grown(w, w')
           /\ \E x \in Entries : dir' = Append(dir, x)
  <1>1. PICK d \in Disk :
          /\ w' = End(Entered(Flush(Start(d), "modules", PositionOf(w, "modules"), 4)))
          /\ dir' = Append(dir, Entry("modules", PositionOf(w, "modules")))
    BY DEF ModuleListDone
  <1>2. /\ dpc = "modules" /\ dpc' = "memory"
        /\ UNCHANGED <<cctx, tids, k, attached, created, blocks, context, verdict>>
    BY DEF ModuleListDone
  <1>3. Has(w, "modules") /\ Has(w, "dir")
    BY <1>2 DEF FileShape, Reading
  <1> DEFINE p == PositionOf(w, "modules")
  <1>4. p = PositionOf(w, "modules") /\ w' = End(Entered(Flush(Start(d), "modules", p, 4)))
    BY <1>1
  <1> HIDE DEF p
  <1>5. p \in Nat /\ Grown(w, w')
    BY <1>3, <1>4, ListEntered
  <1>6. Entry("modules", p) \in Entries
    BY <1>5, EntryType DEF Kinds
  <1> QED
    BY <1>1, <1>2, <1>4, <1>5, <1>6

\* A stream of one stage, entered in the directory unless it failed.
StreamWritten(next) ==
    /\ Wrote(next)
    /\ dpc' = next => \E x \in Entries : dir' = Append(dir, x)
    /\ dpc' = "failed" => dir' = dir

\* The end of such a stage.
LEMMA StreamOutcome ==
    ASSUME DumpTypes, NEW d \in Disk, NEW v, Follows(Start(d), v), NEW next, next # "failed",
           Then(v, next), NEW kd \in Kinds, dir' = IF v.ok THEN Append(dir, Entry(kd, w.position)) ELSE dir
    PROVE  UNCHANGED <<attached, verdict>> /\ StreamWritten(next)
  <1>1. w \in Writer /\ w.position \in Nat
    BY DEF DumpTypes, Writer
  <1>2. /\ UNCHANGED <<attached, verdict>>
        /\ \/ v.ok /\ dpc' = next /\ Grown(w, w') /\ Grown(v, w')
           \/ ~v.ok /\ dpc' = "failed" /\ w' = NewFile
    BY <1>1, ThenOutcome
  <1>3. Entry(kd, w.position) \in Entries
    BY <1>1, EntryType
  <1> QED
    BY <1>2, <1>3 DEF StreamWritten, Wrote

\* The list of the memory blocks.
LEMMA MemoryWritten ==
    ASSUME DumpTypes, FileShape, WriteMemoryListStream
    PROVE  /\ UNCHANGED <<attached, verdict, cctx, tids, k, created, blocks, context>>
           /\ dpc = "memory" /\ StreamWritten("exception")
  <1> DEFINE A(d) == AllocateList(Start(d), "memory", 4, blocks, DescriptorSize)
             B(d) == CopyIndex(A(d), "memory", 4, 1, blocks, DescriptorSize)
             C(d) == IF A(d).ok THEN Entered(Flush(B(d), "memory", w.position, 4)) ELSE A(d)
  <1>1. PICK d \in Disk :
          /\ Then(C(d), "exception")
          /\ dir' = IF C(d).ok THEN Append(dir, Entry("memory", w.position)) ELSE dir
    BY DEF WriteMemoryListStream
  <1>2. dpc = "memory" /\ UNCHANGED <<cctx, tids, k, created, blocks, context>>
    BY DEF WriteMemoryListStream
  <1>3. w \in Writer /\ w.position \in Nat /\ dir \in Seq(Entries) /\ Has(w, "dir")
    BY <1>2 DEF DumpTypes, FileShape, Reading, Writer
  <1>k. /\ "memory" \in Kinds /\ DescriptorSize \in Nat /\ blocks \in Nat /\ 1 \in Nat \ {0}
        /\ 4 \in Nat /\ 4 > 0
    BY Sizes DEF Kinds, DumpTypes
  <1> DEFINE z == Start(d)
             a == A(d)
             b == B(d)
             f == Flush(b, "memory", w.position, 4)
             c == C(d)
  <1>4. z \in Writer /\ Grown(w, z)
    BY <1>3, StartGrown
  <1>5. Allocated(z, a, "memory", 4, blocks)
    <2> HIDE DEF z
    <2>1. Allocated(z, AllocateList(z, "memory", 4, blocks, DescriptorSize), "memory", 4, blocks)
      BY <1>4, <1>k, AllocateListFollows, Zenon
    <2> QED
      BY <2>1 DEF z
  <1> HIDE DEF z, A
  <1>6. Follows(z, a) /\ a \in Writer /\ (a.ok => Has(a, "memory"))
    <2>1. Follows(z, a) /\ (a.ok => Has(a, "memory"))
      BY <1>5, <1>k DEF Allocated
    <2> QED
      BY <2>1, FollowsWriter
  <1>7. Written(a, b)
    <2>1. a.ok /\ 1 <= blocks => Has(a, "memory")
      BY <1>6
    <2> QED
      BY <1>6, <1>k, <2>1, CopyIndexFollows, Zenon
  <1> HIDE DEF B, a
  <1>8. Follows(z, b) /\ b \in Writer
    BY <1>4, <1>6, <1>7, FollowsTransitive, FollowsWriter DEF Written
  <1>9. Written(b, f)
    BY <1>3, <1>8, <1>k, FlushFollows
  <1> HIDE DEF b
  <1>10. Follows(z, f) /\ f \in Writer
    BY <1>4, <1>8, <1>9, FollowsTransitive, FollowsWriter DEF Written
  <1>11. c = IF a.ok THEN Entered(f) ELSE a
    BY DEF a, b
  <1> HIDE DEF f, C
  <1>12. Has(f, "dir")
    BY <1>3, <1>4, <1>10 DEF Follows, Grown
  <1>13. Follows(f, Entered(f))
    BY <1>3, <1>10, <1>12, EnteredFollows DEF Written
  <1>14. Follows(z, c)
    <2>1. Follows(z, Entered(f))
      BY <1>4, <1>10, <1>13, FollowsTransitive
    <2> QED
      BY <1>6, <1>11, <2>1
  <1>15. "exception" # "failed"
    OBVIOUS
  <1>16. UNCHANGED <<attached, verdict>> /\ StreamWritten("exception")
    BY <1>1, <1>14, <1>15, <1>k, StreamOutcome DEF z
  <1> QED
    BY <1>2, <1>16

\* The exception.
LEMMA ExceptionWritten ==
    ASSUME DumpTypes, FileShape, WriteExceptionStream
    PROVE  /\ UNCHANGED <<attached, verdict, cctx, tids, k, created, blocks, context>>
           /\ dpc = "exception" /\ StreamWritten("system")
  <1> DEFINE A(d) == WriteObject(Start(d), "exception", 0, ExceptionSize)
             C(d) == IF A(d).ok THEN Entered(A(d)) ELSE A(d)
  <1>1. PICK d \in Disk :
          /\ Then(C(d), "system")
          /\ dir' = IF C(d).ok THEN Append(dir, Entry("exception", w.position)) ELSE dir
    BY DEF WriteExceptionStream
  <1>2. dpc = "exception" /\ UNCHANGED <<cctx, tids, k, created, blocks, context>>
    BY DEF WriteExceptionStream
  <1>3. w \in Writer /\ dir \in Seq(Entries) /\ Has(w, "dir")
    BY <1>2 DEF DumpTypes, FileShape, Reading
  <1>k. "exception" \in Kinds /\ ExceptionSize \in Nat /\ 0 \in Nat
    BY Sizes DEF Kinds
  <1> DEFINE z == Start(d)
             a == A(d)
             c == C(d)
  <1>4. z \in Writer /\ Grown(w, z)
    BY <1>3, StartGrown
  <1>5. Follows(z, a)
    <2> HIDE DEF z
    <2>1. Follows(z, WriteObject(z, "exception", 0, ExceptionSize))
      BY <1>4, <1>k, WriteObjectFollows, Zenon
    <2> QED
      BY <2>1 DEF z
  <1> HIDE DEF z, A
  <1>6. a \in Writer
    BY <1>5, FollowsWriter
  <1>7. Has(a, "dir")
    BY <1>3, <1>4, <1>5 DEF Follows, Grown
  <1>8. Follows(a, Entered(a))
    BY <1>3, <1>6, <1>7, EnteredFollows DEF Written
  <1>9. Follows(z, c)
    <2>1. Follows(z, Entered(a))
      BY <1>4, <1>5, <1>8, FollowsTransitive
    <2> QED
      BY <1>5, <2>1
  <1>10. "system" # "failed"
    OBVIOUS
  <1> HIDE DEF C
  <1>11. UNCHANGED <<attached, verdict>> /\ StreamWritten("system")
    BY <1>1, <1>9, <1>10, <1>k, StreamOutcome DEF z
  <1> QED
    BY <1>2, <1>11

\* The description of the system.
LEMMA SystemWritten ==
    ASSUME DumpTypes, FileShape, WriteSystemInfoStream
    PROVE  /\ UNCHANGED <<attached, verdict, cctx, tids, created, blocks, context>>
           /\ dpc = "system" /\ k' = 1 /\ StreamWritten("files")
  <1> DEFINE A(d) == AllocateList(Start(d), "system", SystemSize, 0, 0)
             B(d) == WriteOSInformation(A(d))
             C(d) == IF A(d).ok THEN Flush([B(d) EXCEPT !.ok = TRUE], "system", w.position, SystemSize)
                     ELSE A(d)
             E(d) == IF A(d).ok THEN Entered(C(d)) ELSE C(d)
  <1>1. PICK d \in Disk :
          /\ Then(E(d), "files")
          /\ dir' = IF E(d).ok THEN Append(dir, Entry("system", w.position)) ELSE dir
    BY DEF WriteSystemInfoStream
  <1>2. dpc = "system" /\ k' = 1 /\ UNCHANGED <<cctx, tids, created, blocks, context>>
    BY DEF WriteSystemInfoStream
  <1>3. w \in Writer /\ w.position \in Nat /\ dir \in Seq(Entries) /\ Has(w, "dir")
    BY <1>2 DEF DumpTypes, FileShape, Reading, Writer
  <1>k. /\ "system" \in Kinds /\ "version" \in Kinds /\ SystemSize \in Nat /\ 0 \in Nat
        /\ NameLen \in Nat /\ TRUE \in BOOLEAN
    BY Sizes DEF Kinds
  <1> DEFINE z == Start(d)
             a == A(d)
             b == B(d)
             o == [b EXCEPT !.ok = TRUE]
             f == Flush(o, "system", w.position, SystemSize)
             e == E(d)
  <1>4. z \in Writer /\ Grown(w, z)
    BY <1>3, StartGrown
  <1>5. Follows(z, a)
    <2> HIDE DEF z
    <2>1. Allocated(z, AllocateList(z, "system", SystemSize, 0, 0), "system", SystemSize, 0)
      BY <1>4, <1>k, AllocateListFollows, Zenon
    <2>2. Follows(z, AllocateList(z, "system", SystemSize, 0, 0))
      BY <2>1 DEF Allocated
    <2> QED
      BY <2>2 DEF z
  <1>s. e = IF a.ok THEN Entered(f) ELSE a
    OBVIOUS
  <1> HIDE DEF z, A, E
  <1>6. a \in Writer
    BY <1>5, FollowsWriter
  <1>7. Follows(a, b)
    BY <1>6, <1>k, WriteStringFollows, Zenon DEF WriteOSInformation
  <1>8. ASSUME a.ok PROVE Follows(z, Entered(f))
    <2> HIDE DEF B, a
    <2>1. Follows(a, o)
      BY <1>7, <1>8, <1>k, SetOkFollows
    <2>2. Follows(z, o) /\ o \in Writer
      BY <1>4, <1>5, <2>1, FollowsTransitive, FollowsWriter
    <2> HIDE DEF o
    <2>3. Follows(o, f)
      BY <1>3, <1>k, <2>2, FlushFollows DEF Written
    <2>4. Follows(z, f) /\ f \in Writer
      BY <1>4, <2>2, <2>3, FollowsTransitive, FollowsWriter
    <2> HIDE DEF f
    <2>5. Has(f, "dir")
      BY <1>3, <1>4, <2>4 DEF Follows, Grown
    <2>6. Follows(f, Entered(f))
      BY <1>3, <2>4, <2>5, EnteredFollows DEF Written
    <2> QED
      BY <1>4, <2>4, <2>6, FollowsTransitive
  <1> HIDE DEF a, f
  <1>9. Follows(z, e)
    BY <1>5, <1>8, <1>s
  <1>10. "files" # "failed"
    OBVIOUS
  <1>11. UNCHANGED <<attached, verdict>> /\ StreamWritten("files")
    BY <1>1, <1>9, <1>10, <1>k, StreamOutcome DEF z
  <1> QED
    BY <1>2, <1>11

\* A flag set again.
LEMMA SetOkGrown ==
    ASSUME NEW v \in Writer, NEW b \in BOOLEAN
    PROVE  [v EXCEPT !.ok = b] \in Writer /\ Grown(v, [v EXCEPT !.ok = b])
  <1> DEFINE x == [v EXCEPT !.ok = b]
  <1>1. /\ x \in Writer /\ x.position = v.position /\ x.parts = v.parts /\ x.size = v.size
        /\ x.short = v.short
    BY DEF Writer
  <1> HIDE DEF x
  <1>2. x \in Writer /\ Grown(v, x)
    BY <1>1, FlagsGrown
  <1> QED
    BY <1>2 DEF x

\* The last steps of an optional stream: its entry, and the end of the stage.
LEMMA OptionalEntered ==
    ASSUME DumpTypes, Has(w, "dir"), NEW a, Grown(w, a),
           w' = End(Entered([a EXCEPT !.ok = TRUE]))
    PROVE  Grown(w, w')
  <1>1. w \in Writer /\ a \in Writer /\ dir \in Seq(Entries) /\ TRUE \in BOOLEAN
    BY DEF DumpTypes, Grown
  <1> DEFINE o == [a EXCEPT !.ok = TRUE]
             e == Entered(o)
  <1>2. o \in Writer /\ Grown(a, o)
    BY <1>1, SetOkGrown
  <1> HIDE DEF o
  <1>3. Grown(w, o)
    BY <1>1, <1>2, GrownTransitive
  <1>4. Has(o, "dir")
    BY <1>3 DEF Grown
  <1>5. Written(o, e)
    BY <1>1, <1>2, <1>4, EnteredFollows
  <1>6. e \in Writer /\ Grown(o, e)
    BY <1>5 DEF Written, Follows, Grown
  <1> HIDE DEF e
  <1>7. Grown(e, End(e))
    BY <1>6, EndGrown
  <1>8. Grown(w, e)
    BY <1>1, <1>3, <1>6, GrownTransitive
  <1>9. Grown(w, End(e))
    BY <1>1, <1>7, <1>8, GrownTransitive
  <1> QED
    BY <1>9 DEF e, o

\* One of the streams that are copies of files.
LEMMA FileWritten ==
    ASSUME DumpTypes, FileShape, NEW live, WriteFile(live)
    PROVE  /\ UNCHANGED <<dpc, cctx, tids, attached, created, blocks, context, verdict>>
           /\ dpc = "files" /\ k <= 7 /\ k' = k + 1 /\ Grown(w, w')
           /\ \E x \in Entries : dir' = Append(dir, x)
  <1>1. PICK d \in Disk, readable \in BOOLEAN :
          /\ w' = End(Entered([CopyFile(d, readable) EXCEPT !.ok = TRUE]))
          /\ dir' = Append(dir, IF CopyFile(d, readable).ok THEN Entry(Files[k], w.position)
                                ELSE NullEntry)
    BY DEF WriteFile
  <1>2. /\ dpc = "files" /\ k <= 7 /\ k' = k + 1
        /\ UNCHANGED <<dpc, cctx, tids, attached, created, blocks, context, verdict>>
    BY DEF WriteFile, Files
  <1>3. w \in Writer /\ w.position \in Nat /\ k \in 1..7 /\ Has(w, "dir")
    BY <1>2 DEF DumpTypes, FileShape, Reading, Writer
  <1> DEFINE kd == Files[k]
             z == Start(d)
             a == CopyFile(d, readable)
  <1>4. kd \in Kinds
    BY <1>3 DEF Files, Kinds
  <1>5. z \in Writer /\ Grown(w, z)
    BY <1>3, StartGrown
  <1>6. a = IF readable THEN WriteBlock(z, kd, 0, FileLen) ELSE [z EXCEPT !.ok = FALSE]
    BY DEF CopyFile
  <1>7. Entry(kd, w.position) \in Entries /\ NullEntry \in Entries
    BY <1>3, <1>4, EntryType
  <1> HIDE DEF kd, z
  <1>8. Grown(z, WriteBlock(z, kd, 0, FileLen)) /\ Grown(z, [z EXCEPT !.ok = FALSE])
    <2>1. FileLen \in Nat /\ 0 \in Nat /\ FALSE \in BOOLEAN
      BY Sizes
    <2>2. Follows(z, WriteBlock(z, kd, 0, FileLen))
      BY <1>4, <1>5, <2>1, WriteBlockFollows
    <2> QED
      BY <1>5, <2>1, <2>2, SetOkGrown DEF Follows
  <1> HIDE DEF a
  <1>9. Grown(z, a)
    BY <1>6, <1>8
  <1>10. Grown(w, a)
    BY <1>3, <1>5, <1>9, GrownTransitive
  <1>11. Grown(w, w')
    BY <1>1, <1>3, <1>10, OptionalEntered DEF a
  <1> QED
    BY <1>1, <1>2, <1>7, <1>11 DEF kd

\* The stream of the libraries.
LEMMA DebugWritten ==
    ASSUME DumpTypes, FileShape, NEW live, WriteDSODebugStream(live)
    PROVE  /\ UNCHANGED <<cctx, tids, k, attached, created, blocks, context, verdict>>
           /\ dpc = "dso" /\ dpc' = "resume" /\ Grown(w, w')
           /\ \E x \in Entries : dir' = Append(dir, x)
           /\ \E b : Fault(b)
  <1> DEFINE A(d, n) == Allocate(Start(d), "linkmap", 0, 0, n, LinkMapSize)
             B(d, n) == IF n = 0 THEN Start(d) ELSE WriteString(A(d, n), "dso_name", NameLen, TRUE)
             C(d, n) == CopyIndex(B(d, n), "linkmap", 0, 1, n, LinkMapSize)
             E(d, n) == AllocateList(C(d, n), "debug", DebugSize, 1, FileLen)
             G(d, n) == CopyIndex(E(d, n), "debug", DebugSize, 1, 1, FileLen)
             F(d, n) == IF E(d, n).ok THEN Flush(G(d, n), "debug", C(d, n).position, DebugSize)
                        ELSE E(d, n)
             V(d, dy, n) == IF dy THEN F(d, n) ELSE [Start(d) EXCEPT !.ok = FALSE]
  <1>1. PICK d \in Disk, dy \in BOOLEAN, n \in {0, 1} :
          /\ w' = End(Entered([V(d, dy, n) EXCEPT !.ok = TRUE]))
          /\ dir' = Append(dir, IF V(d, dy, n).ok THEN Entry("debug", C(d, n).position)
                                ELSE NullEntry)
          /\ \E b : Fault(b)
    <2>1. \E d \in Disk, dy \in BOOLEAN, n \in {0, 1} :
            /\ dpc = "dso"
            /\ dy => live
            /\ Fault((live /\ ~V(d, dy, n).ok) \/ Failed(Entered([V(d, dy, n) EXCEPT !.ok = TRUE]))
                     \/ n = 0)
            /\ w' = End(Entered([V(d, dy, n) EXCEPT !.ok = TRUE]))
            /\ dir' = Append(dir, IF V(d, dy, n).ok THEN Entry("debug", C(d, n).position)
                                  ELSE NullEntry)
            /\ dpc' = "resume"
            /\ UNCHANGED <<cctx, tids, k, attached, created, blocks, context, verdict>>
      BY Zenon DEF WriteDSODebugStream
    <2> HIDE DEF V, C
    <2> QED
      BY <2>1, Zenon
  <1>2. /\ dpc = "dso" /\ dpc' = "resume"
        /\ UNCHANGED <<cctx, tids, k, attached, created, blocks, context, verdict>>
    BY DEF WriteDSODebugStream
  <1>3. w \in Writer /\ Has(w, "dir")
    BY <1>2 DEF DumpTypes, FileShape, Reading
  <1>k. /\ "linkmap" \in Kinds /\ "dso_name" \in Kinds /\ "debug" \in Kinds
        /\ LinkMapSize \in Nat /\ NameLen \in Nat /\ DebugSize \in Nat /\ FileLen \in Nat
        /\ 0 \in Nat /\ 1 \in Nat /\ 1 \in Nat \ {0} /\ n \in Nat /\ TRUE \in BOOLEAN
        /\ FALSE \in BOOLEAN /\ DebugSize > 0
    BY Sizes DEF Kinds
  <1> DEFINE z == Start(d)
             a == A(d, n)
             b == B(d, n)
             c == C(d, n)
             e == E(d, n)
             g == G(d, n)
             f == F(d, n)
             v == V(d, dy, n)
  <1>4. z \in Writer /\ Grown(w, z)
    BY <1>3, StartGrown
  <1>b. b = IF n = 0 THEN z ELSE WriteString(a, "dso_name", NameLen, TRUE)
    OBVIOUS
  <1>v. v = IF dy THEN f ELSE [z EXCEPT !.ok = FALSE]
    OBVIOUS
  <1>5. Allocated(z, a, "linkmap", 0, n)
    <2> HIDE DEF z
    <2>1. Allocated(z, Allocate(z, "linkmap", 0, 0, n, LinkMapSize), "linkmap", 0, n)
      BY <1>4, <1>k, AllocateFollows, Zenon
    <2> QED
      BY <2>1 DEF z
  <1> HIDE DEF z, A, V
  <1>6. Follows(z, a) /\ a \in Writer /\ (a.ok /\ n > 0 => Has(a, "linkmap"))
    <2>1. Follows(z, a) /\ (a.ok /\ n > 0 => Has(a, "linkmap"))
      BY <1>5 DEF Allocated
    <2> QED
      BY <2>1, FollowsWriter
  <1> HIDE DEF a, B
  <1>7. Follows(a, WriteString(a, "dso_name", NameLen, TRUE))
    BY <1>6, <1>k, WriteStringFollows, Zenon
  <1>8. Follows(z, b) /\ b \in Writer
    <2>1. Follows(z, WriteString(a, "dso_name", NameLen, TRUE)) /\ Follows(z, z)
      BY <1>4, <1>6, <1>7, FollowsTransitive, FollowsSelf
    <2>2. Follows(z, b)
      BY <1>b, <2>1
    <2> QED
      BY <2>2, FollowsWriter
  <1>9. b.ok /\ 1 <= n => Has(b, "linkmap")
    <2> SUFFICES ASSUME b.ok, 1 <= n PROVE Has(b, "linkmap")
      OBVIOUS
    <2>1. n > 0 /\ n # 0
      BY <1>k
    <2>2. Follows(a, b)
      BY <1>7, <1>b, <2>1
    <2> QED
      BY <1>6, <2>1, <2>2 DEF Follows, Grown
  <1>10. Written(b, c)
    BY <1>8, <1>9, <1>k, CopyIndexFollows, Zenon
  <1> HIDE DEF b, C
  <1>11. Follows(z, c) /\ c \in Writer
    BY <1>4, <1>8, <1>10, FollowsTransitive, FollowsWriter DEF Written
  <1>12. c.position \in Nat
    BY <1>11 DEF Writer
  <1>13. Allocated(c, e, "debug", DebugSize, 1)
    BY <1>11, <1>k, AllocateListFollows, Zenon
  <1> HIDE DEF c, E
  <1>14. Follows(c, e) /\ (e.ok => Has(e, "debug"))
    BY <1>13, <1>k DEF Allocated
  <1>15. Follows(z, e) /\ e \in Writer
    BY <1>4, <1>11, <1>14, FollowsTransitive, FollowsWriter
  <1>16. Written(e, g)
    <2>1. e.ok /\ 1 <= 1 => Has(e, "debug")
      BY <1>14
    <2> QED
      BY <1>15, <1>k, <2>1, CopyIndexFollows, Zenon
  <1>f. f = IF e.ok THEN Flush(g, "debug", c.position, DebugSize) ELSE e
    BY DEF c
  <1> HIDE DEF e, G, F
  <1>17. Follows(z, g) /\ g \in Writer
    BY <1>4, <1>15, <1>16, FollowsTransitive, FollowsWriter DEF Written
  <1> HIDE DEF g
  <1>18. Follows(g, Flush(g, "debug", c.position, DebugSize))
    BY <1>12, <1>17, <1>k, FlushFollows DEF Written
  <1>19. Follows(z, Flush(g, "debug", c.position, DebugSize))
    BY <1>4, <1>17, <1>18, FollowsTransitive
  <1>20. Grown(z, f)
    BY <1>15, <1>19, <1>f DEF Follows
  <1>21. Grown(z, [z EXCEPT !.ok = FALSE])
    BY <1>4, <1>k, SetOkGrown
  <1> HIDE DEF f
  <1>22. Grown(z, v)
    BY <1>20, <1>21, <1>v
  <1> HIDE DEF v
  <1>23. Grown(w, v)
    BY <1>3, <1>4, <1>22, GrownTransitive
  <1>24. w' = End(Entered([v EXCEPT !.ok = TRUE]))
    BY <1>1 DEF v
  <1>25. Grown(w, w')
    BY <1>3, <1>23, <1>24, OptionalEntered
  <1>26. Entry("debug", c.position) \in Entries /\ NullEntry \in Entries
    BY <1>12, <1>k, EntryType
  <1>27. \E x \in Entries : dir' = Append(dir, x)
    BY <1>1, <1>26 DEF v, c
  <1> QED
    BY <1>1, <1>2, <1>25, <1>27

\* Closing cuts the file, at its position.
LEMMA CloseWriter ==
    ASSUME NEW v \in Writer
    PROVE  Close(v) \in Writer /\ Close(v).position = v.position
  <1> DEFINE S == {p \in v.parts : p.pos + p.len <= v.position}
  <1>1. S \in SUBSET Part
    BY DEF Writer
  <1>2. Close(v) = [v EXCEPT !.parts = S]
    BY DEF Close
  <1> HIDE DEF S
  <1> QED
    BY <1>1, <1>2 DEF Writer

\* The list without its i-th thread: the threads before it stay where they are.
LEMMA ThreadDropped ==
    ASSUME NEW S, NEW s \in Seq(S), NEW i \in 1..Len(s)
    PROVE  /\ RemoveAt(s, i) \in Seq(S)
           /\ Len(RemoveAt(s, i)) = Len(s) - 1
           /\ \A j \in 1..(i - 1) : RemoveAt(s, i)[j] = s[j]
  <1> DEFINE l == SubSeq(s, 1, i - 1)
             r == SubSeq(s, i + 1, Len(s))
  <1>1. l \in Seq(S) /\ Len(l) = i - 1 /\ \A j \in 1..(i - 1) : l[j] = s[j]
    OBVIOUS
  <1>2. r \in Seq(S) /\ Len(r) = Len(s) - i
    OBVIOUS
  <1>3. RemoveAt(s, i) = l \o r
    BY DEF RemoveAt
  <1> HIDE DEF l, r
  <1> QED
    BY <1>1, <1>2, <1>3

\* The budget of faults is kept.
LEMMA BudgetKept ==
    ASSUME faults \in 0..MaxFaults, NEW b, Fault(b)
    PROVE  faults' \in 0..MaxFaults
  <1>1. faults' = faults + 1 \/ faults' = faults
    BY DEF Fault
  <1>2. faults' <= MaxFaults
    BY DEF Fault
  <1> QED
    BY <1>1, <1>2, BudgetAssumption

-----------------------------------------------------------------------------
(* The shape of the dump process's state. *)

\* What a step of the crashed process does to that state: it starts the dump process, or
\* dies under it, or draws on the budget of faults.
AppEffect ==
    /\ UNCHANGED <<tids, k, w, created, blocks, context, dir>>
    /\ faults' \in 0..MaxFaults
    /\ attached' = attached \/ attached' = {}
    /\ \/ UNCHANGED <<dpc, cctx, verdict>>
       \/ dpc' = "entry" /\ cctx' = ctx /\ verdict' = "none"

\* The steps of the crashed process.
AppStep ==
    \/ \E t \in Threads : ThreadStep(t)
    \/ \E t \in Threads, s \in Signals, kd \in {"fault", "raise"} : Crashes(t, s, kd)
    \/ OpenNativeAirbag
    \/ Kill

\* The crashed process leaves the dump process's state alone.
LEMMA AppStepEffect ==
    ASSUME DumpTypes, AppStep
    PROVE  AppEffect
  <1>1. faults \in 0..MaxFaults
    BY DEF DumpTypes
  <1>2. UNCHANGED dumpVars => AppEffect
    BY <1>1 DEF dumpVars, AppEffect
  <1>3. KernelFails => AppEffect
    BY <1>1, BudgetKept DEF KernelFails, AppEffect
  <1>4. ASSUME NEW why, Gone(why), UNCHANGED faults \/ Fault(TRUE)
        PROVE  AppEffect
    <2>1. faults' \in 0..MaxFaults
      BY <1>1, <1>4, BudgetKept
    <2> QED
      BY <1>4, <2>1 DEF Gone, AppEffect
  <1>5. ASSUME NEW t \in Threads, ThreadStep(t)
        PROVE  AppEffect
    <2>1. CASE Deliver(t)
      BY <1>2, <2>1 DEF Deliver
    <2>2. CASE Die(t)
      BY <1>4, <2>2 DEF Die
    <2>3. CASE AirbagHandler(t)
      BY <1>2, <2>3 DEF AirbagHandler
    <2>4. CASE HandleSignal(t)
      BY <1>2, <2>4 DEF HandleSignal
    <2>5. CASE GenerateDump(t)
      <3>1. CASE \E made \in BOOLEAN :
                   /\ Fault(~made)
                   /\ dpc' = "entry" /\ cctx' = ctx /\ verdict' = "none"
                   /\ UNCHANGED <<tids, k, attached, w, created, blocks, context, dir>>
        <4>1. faults' \in 0..MaxFaults
          BY <1>1, <3>1, BudgetKept
        <4> QED
          BY <3>1, <4>1 DEF AppEffect
      <3>2. CASE KernelFails
        BY <1>3, <3>2
      <3> QED
        BY <2>5, <3>1, <3>2 DEF GenerateDump
    <2>6. CASE AllowPtrace(t)
      BY <1>2, <2>6 DEF AllowPtrace
    <2>7. CASE SendContinueSignalToChild(t)
      BY <1>2, <2>7 DEF SendContinueSignalToChild
    <2>8. CASE WaitChild(t)
      BY <1>2, <2>8 DEF WaitChild
    <2>9. CASE Restore(t)
      BY <1>2, <2>9 DEF Restore
    <2>10. CASE Retrigger(t)
      BY <1>2, <2>10 DEF Retrigger
    <2>11. CASE RetriggerFails(t)
      BY <1>4, <2>11 DEF RetriggerFails
    <2>12. CASE Construct \/ (\E s \in Signals : InstallHandler(s)) \/ Constructed
      BY <1>2, <2>12 DEF Construct, InstallHandler, Constructed
    <2>13. CASE InstallAirbag
      BY <1>2, <1>3, <2>13 DEF InstallAirbag
    <2> QED
      BY <1>5, <2>1, <2>2, <2>3, <2>4, <2>5, <2>6, <2>7, <2>8, <2>9, <2>10, <2>11, <2>12, <2>13
         DEF ThreadStep, SignalHandler
  <1>6. ASSUME NEW t \in Threads, NEW s \in Signals, NEW kd, Crashes(t, s, kd)
        PROVE  AppEffect
    BY <1>2, <1>6 DEF Crashes
  <1>7. OpenNativeAirbag => AppEffect
    BY <1>2 DEF OpenNativeAirbag
  <1>8. Kill => AppEffect
    BY <1>4 DEF Kill
  <1> QED
    BY <1>5, <1>6, <1>7, <1>8 DEF AppStep

\* The steps of the dump process keep the budget, too.
LEMMA WriterBudget ==
    ASSUME DumpTypes, FileShape,
           \/ WriterStep \/ WriteThread(alive) \/ WriteFile(alive)
           \/ WriteDSODebugStream(alive)
           \/ \E ok \in BOOLEAN : DumperInit(ok) /\ (ok => alive) /\ Fault(~ok /\ alive)
    PROVE  faults' \in 0..MaxFaults
  <1>1. faults \in 0..MaxFaults
    BY DEF DumpTypes
  <1>2. \A b : Fault(b) => faults' \in 0..MaxFaults
    BY <1>1, BudgetKept
  <1>3. Suspended \/ FilesDone \/ DumpDone \/ DumpFailed => faults' \in 0..MaxFaults
    BY <1>1 DEF Suspended, FilesDone, DumpDone, DumpFailed
  <1>4. OpenFile => faults' \in 0..MaxFaults
    BY <1>1, <1>2 DEF OpenFile
  <1>5. WriteHeader => faults' \in 0..MaxFaults
    BY <1>2, Zenon DEF WriteHeader
  <1>6. ThreadList => faults' \in 0..MaxFaults
    BY <1>2, Zenon DEF ThreadList
  <1>7. ThreadListDone => faults' \in 0..MaxFaults
    BY <1>2, Zenon DEF ThreadListDone
  <1>8. ModuleList => faults' \in 0..MaxFaults
    BY <1>2, Zenon DEF ModuleList
  <1>9. WriteModule => faults' \in 0..MaxFaults
    BY <1>2, Zenon DEF WriteModule
  <1>10. ModuleListDone => faults' \in 0..MaxFaults
    BY <1>2, Zenon DEF ModuleListDone
  <1>11. WriteMemoryListStream => faults' \in 0..MaxFaults
    BY <1>2, Zenon DEF WriteMemoryListStream
  <1>12. WriteExceptionStream => faults' \in 0..MaxFaults
    BY <1>2, Zenon DEF WriteExceptionStream
  <1>13. WriteSystemInfoStream => faults' \in 0..MaxFaults
    BY <1>2, Zenon DEF WriteSystemInfoStream
  <1>14. WriteThread(alive) => faults' \in 0..MaxFaults
    BY <1>2, Zenon DEF WriteThread
  <1>15. WriteFile(alive) => faults' \in 0..MaxFaults
    BY <1>2, Zenon DEF WriteFile
  <1>16. WriteDSODebugStream(alive) => faults' \in 0..MaxFaults
    BY <1>2, DebugWritten
  <1>17. ASSUME NEW ok, Fault(~ok /\ alive) PROVE faults' \in 0..MaxFaults
    BY <1>2, <1>17, Zenon
  <1> QED
    BY <1>3, <1>4, <1>5, <1>6, <1>7, <1>8, <1>9, <1>10, <1>11, <1>12, <1>13, <1>14, <1>15, <1>16,
       <1>17, Zenon DEF WriterStep

\* A stage that grows the file, or is given up, keeps the file's type.
LEMMA WroteWriter ==
    ASSUME NEW next, Wrote(next)
    PROVE  w' \in Writer
  BY NewFileWriter DEF Wrote, Grown

\* An entry more.
LEMMA EntryAppended ==
    ASSUME dir \in Seq(Entries), \E x \in Entries : dir' = Append(dir, x)
    PROVE  dir' \in Seq(Entries) /\ Len(dir') = Len(dir) + 1
  OBVIOUS

\* The steps of the dump process keep the types of its state.
LEMMA WriterTypes ==
    ASSUME DumpShape,
           \/ WriterStep \/ WriteThread(alive) \/ WriteFile(alive)
           \/ WriteDSODebugStream(alive)
           \/ \E ok \in BOOLEAN : DumperInit(ok) /\ (ok => alive) /\ Fault(~ok /\ alive)
    PROVE  DumpTypes'
  <1>0. DumpTypes /\ FileShape
    BY DEF DumpShape
  <1>f. faults' \in 0..MaxFaults
    BY <1>0, WriterBudget
  <1>s. {"list", "threads", "modlist", "modules", "memory", "exception", "system", "files", "dso",
         "resume", "failed", "off", "open", "header", "suspend"} \subseteq Stages
    BY DEF Stages
  <1>1. CASE Suspended
    BY <1>0, <1>1, <1>f, <1>s DEF Suspended, DumpTypes, Fail
  <1>2. CASE OpenFile
    <2>0. \/ w' = NewFile /\ blocks' = 0 /\ context' = 0 /\ dir' = <<>>
          \/ UNCHANGED <<w, blocks, context, dir>>
      BY <1>2, Zenon DEF OpenFile
    <2>a. <<>> \in Seq(Entries)
      OBVIOUS
    <2>b. w' \in Writer
      BY <1>0, <2>0, NewFileWriter DEF DumpTypes
    <2>c. dir' \in Seq(Entries)
      BY <1>0, <2>0, <2>a DEF DumpTypes
    <2>1. w' \in Writer /\ dir' \in Seq(Entries) /\ blocks' \in Nat /\ context' \in Nat
      BY <1>0, <2>0, <2>b, <2>c DEF DumpTypes
    <2>2. created' \in BOOLEAN
      BY <1>0, <1>2, Zenon DEF OpenFile, DumpTypes
    <2>3. dpc' \in Stages /\ UNCHANGED <<cctx, tids, k, attached, verdict>>
      BY <1>2, <1>s DEF OpenFile, Fail
    <2> QED
      BY <1>0, <1>f, <2>1, <2>2, <2>3 DEF DumpTypes
  <1>3. CASE WriteHeader
    <2>1. Wrote("list") /\ UNCHANGED <<attached, verdict, cctx, tids, k, created, blocks, context, dir>>
      BY <1>0, <1>3, HeaderWritten DEF DumpTypes
    <2>2. w' \in Writer /\ dpc' \in Stages
      BY <1>s, <2>1, WroteWriter DEF Wrote
    <2> QED
      BY <1>0, <1>f, <2>1, <2>2 DEF DumpTypes
  <1>4. CASE ThreadList
    <2>1. /\ Wrote("threads") /\ k' = 1
          /\ UNCHANGED <<attached, verdict, cctx, tids, created, blocks, context, dir>>
      BY <1>0, <1>4, ThreadListWritten
    <2>2. w' \in Writer /\ dpc' \in Stages
      BY <1>s, <2>1, WroteWriter DEF Wrote
    <2> QED
      BY <1>0, <1>f, <2>1, <2>2 DEF DumpTypes
  <1>5. CASE WriteThread(alive)
    <2>1. /\ Wrote("threads") /\ k' = k + 1 /\ blocks' \in Nat /\ context' \in Nat
          /\ UNCHANGED <<attached, verdict, cctx, tids, created, dir>>
      BY <1>0, <1>5, ThreadWritten
    <2>2. w' \in Writer /\ dpc' \in Stages
      BY <1>s, <2>1, WroteWriter DEF Wrote
    <2> QED
      BY <1>0, <1>f, <2>1, <2>2 DEF DumpTypes
  <1>6. CASE ThreadListDone
    <2>1. /\ UNCHANGED <<cctx, tids, k, attached, created, blocks, context, verdict>>
          /\ dpc' = "modlist" /\ Grown(w, w') /\ \E x \in Entries : dir' = Append(dir, x)
      BY <1>0, <1>6, ThreadListFinished
    <2>2. w' \in Writer /\ dpc' \in Stages /\ dir' \in Seq(Entries)
      BY <1>0, <1>s, <2>1, EntryAppended DEF Grown, DumpTypes
    <2> QED
      BY <1>0, <1>f, <2>1, <2>2 DEF DumpTypes
  <1>7. CASE ModuleList
    <2>1. /\ Wrote("modules") /\ k' = 1
          /\ UNCHANGED <<attached, verdict, cctx, tids, created, blocks, context, dir>>
      BY <1>0, <1>7, ModuleListWritten
    <2>2. w' \in Writer /\ dpc' \in Stages
      BY <1>s, <2>1, WroteWriter DEF Wrote
    <2> QED
      BY <1>0, <1>f, <2>1, <2>2 DEF DumpTypes
  <1>8. CASE WriteModule
    <2>1. /\ Wrote("modules") /\ k' = k + 1
          /\ UNCHANGED <<attached, verdict, cctx, tids, created, blocks, context, dir>>
      BY <1>0, <1>8, ModuleWritten
    <2>2. w' \in Writer /\ dpc' \in Stages
      BY <1>s, <2>1, WroteWriter DEF Wrote
    <2> QED
      BY <1>0, <1>f, <2>1, <2>2 DEF DumpTypes
  <1>9. CASE ModuleListDone
    <2>1. /\ UNCHANGED <<cctx, tids, k, attached, created, blocks, context, verdict>>
          /\ dpc' = "memory" /\ Grown(w, w') /\ \E x \in Entries : dir' = Append(dir, x)
      BY <1>0, <1>9, ModuleListFinished
    <2>2. w' \in Writer /\ dpc' \in Stages /\ dir' \in Seq(Entries)
      BY <1>0, <1>s, <2>1, EntryAppended DEF Grown, DumpTypes
    <2> QED
      BY <1>0, <1>f, <2>1, <2>2 DEF DumpTypes
  <1>10. ASSUME NEW next \in {"exception", "system", "files"}, StreamWritten(next), k' \in Nat,
                UNCHANGED <<attached, verdict, cctx, tids, created, blocks, context>>
         PROVE  DumpTypes'
    <2>1. w' \in Writer /\ dpc' \in Stages
      BY <1>10, <1>s, WroteWriter DEF StreamWritten, Wrote
    <2>2. dir' \in Seq(Entries)
      BY <1>0, <1>10, EntryAppended DEF StreamWritten, Wrote, DumpTypes
    <2> QED
      BY <1>0, <1>10, <1>f, <2>1, <2>2 DEF DumpTypes
  <1>11. CASE WriteMemoryListStream
    BY <1>0, <1>10, <1>11, MemoryWritten DEF DumpTypes
  <1>12. CASE WriteExceptionStream
    BY <1>0, <1>10, <1>12, ExceptionWritten DEF DumpTypes
  <1>13. CASE WriteSystemInfoStream
    BY <1>0, <1>10, <1>13, SystemWritten
  <1>14. CASE WriteFile(alive)
    <2>1. /\ UNCHANGED <<dpc, cctx, tids, attached, created, blocks, context, verdict>>
          /\ k' = k + 1 /\ Grown(w, w') /\ \E x \in Entries : dir' = Append(dir, x)
      BY <1>0, <1>14, FileWritten
    <2>2. w' \in Writer /\ dir' \in Seq(Entries)
      BY <1>0, <2>1, EntryAppended DEF Grown, DumpTypes
    <2> QED
      BY <1>0, <1>f, <2>1, <2>2 DEF DumpTypes
  <1>15. CASE FilesDone
    BY <1>0, <1>15, <1>f, <1>s DEF FilesDone, DumpTypes
  <1>16. CASE WriteDSODebugStream(alive)
    <2>1. /\ UNCHANGED <<cctx, tids, k, attached, created, blocks, context, verdict>>
          /\ dpc' = "resume" /\ Grown(w, w') /\ \E x \in Entries : dir' = Append(dir, x)
      BY <1>0, <1>16, DebugWritten
    <2>2. w' \in Writer /\ dpc' \in Stages /\ dir' \in Seq(Entries)
      BY <1>0, <1>s, <2>1, EntryAppended DEF Grown, DumpTypes
    <2> QED
      BY <1>0, <1>f, <2>1, <2>2 DEF DumpTypes
  <1>17. CASE DumpDone
    <2>1. w' \in Writer
      BY <1>0, <1>17, CloseWriter DEF DumpDone, DumpTypes
    <2> QED
      BY <1>0, <1>17, <1>f, <1>s, <2>1 DEF DumpDone, DumpTypes
  <1>18. CASE DumpFailed
    <2>1. dir' \in Seq(Entries) /\ tids' \in Seq(Threads) /\ context' \in Nat
      BY <1>0, <1>18 DEF DumpFailed, DumpTypes
    <2> QED
      BY <1>0, <1>18, <1>f, <1>s, <2>1 DEF DumpFailed, DumpTypes
  <1>19. ASSUME NEW ok, DumperInit(ok) PROVE DumpTypes'
    <2>1. Tids \in Seq(Threads)
      BY TidsAssumption DEF Threads
    <2>2. tids' \in Seq(Threads) /\ k' \in Nat /\ dpc' \in Stages
      BY <1>0, <1>19, <1>s, <2>1 DEF DumperInit, DumpTypes, Fail
    <2> QED
      BY <1>0, <1>19, <1>f, <2>2 DEF DumperInit, DumpTypes
  <1> QED
    BY <1>1, <1>2, <1>3, <1>4, <1>5, <1>6, <1>7, <1>8, <1>9, <1>11, <1>12, <1>13, <1>14, <1>15,
       <1>16, <1>17, <1>18, <1>19 DEF WriterStep

\* The file that has grown is there, and what it had.
LEMMA GrownHas ==
    ASSUME w \in Writer, Grown(w, w')
    PROVE  /\ w.position > 0 => w'.position > 0
           /\ Has(w, "dir") => Has(w', "dir")
           /\ Has(w, "threads") => Has(w', "threads")
           /\ Has(w, "modules") => Has(w', "modules")
  <1>1. w.position \in Nat /\ w'.position \in Nat
    BY DEF Grown, Writer
  <1> QED
    BY <1>1 DEF Grown

\* The steps of the dump process keep the file and its directory in shape.
LEMMA WriterShape ==
    ASSUME DumpShape,
           \/ WriterStep \/ WriteThread(alive) \/ WriteFile(alive)
           \/ WriteDSODebugStream(alive)
           \/ \E ok \in BOOLEAN : DumperInit(ok) /\ (ok => alive) /\ Fault(~ok /\ alive)
    PROVE  FileShape' /\ DirShape'
  <1>0. DumpTypes /\ FileShape /\ DirShape /\ w \in Writer /\ k \in Nat /\ Len(dir) \in Nat
    BY DEF DumpShape, DumpTypes
  <1>n. kNumWriters = 13
    BY DEF kNumWriters
  <1>g. Grown(w, w') => /\ w.position > 0 => w'.position > 0
                        /\ Has(w, "dir") => Has(w', "dir")
                        /\ Has(w, "threads") => Has(w', "threads")
                        /\ Has(w, "modules") => Has(w', "modules")
    BY <1>0, GrownHas
  <1>e. (\E x \in Entries : dir' = Append(dir, x)) => Len(dir') = Len(dir) + 1
    BY <1>0, EntryAppended DEF DumpTypes
  <1>x. ASSUME dpc' \in {"failed", "off"}, dir' = dir \/ dir' = <<>> PROVE FileShape' /\ DirShape'
    BY <1>0, <1>n, <1>x DEF FileShape, DirShape, Reading
  <1>1. CASE Suspended
    BY <1>0, <1>1 DEF Suspended, FileShape, DirShape, Reading, Fail
  <1>2. CASE OpenFile
    <2>1. CASE dpc' = "failed" /\ dir' = dir
      BY <1>x, <2>1
    <2>2. CASE dpc' = "header" /\ created' = TRUE /\ dir' = <<>> /\ k' = k /\ dpc = "open"
      BY <1>0, <1>n, <2>2 DEF FileShape, DirShape, Reading
    <2> QED
      BY <1>2, <2>1, <2>2 DEF OpenFile, Fail
  <1>3. CASE WriteHeader
    <2>1. /\ Wrote("list") /\ dpc = "header" /\ UNCHANGED <<k, created, dir>>
          /\ dpc' = "list" => w'.position > 0 /\ Has(w', "dir")
      BY <1>0, <1>3, HeaderWritten
    <2>2. CASE dpc' = "list"
      BY <1>0, <1>n, <2>1, <2>2 DEF FileShape, DirShape, Reading
    <2> QED
      BY <1>x, <2>1, <2>2 DEF Wrote
  <1>4. CASE ThreadList
    <2>1. /\ Wrote("threads") /\ dpc = "list" /\ k' = 1 /\ UNCHANGED <<created, dir>>
          /\ dpc' = "threads" => Has(w', "threads")
      BY <1>0, <1>4, ThreadListWritten
    <2>2. CASE dpc' = "threads" /\ Grown(w, w')
      BY <1>0, <1>g, <1>n, <2>1, <2>2 DEF FileShape, DirShape, Reading
    <2> QED
      BY <1>x, <2>1, <2>2 DEF Wrote
  <1>5. CASE WriteThread(alive)
    <2>1. Wrote("threads") /\ dpc = "threads" /\ k' = k + 1 /\ UNCHANGED <<created, dir>>
      BY <1>0, <1>5, ThreadWritten
    <2>2. CASE dpc' = "threads" /\ Grown(w, w')
      BY <1>0, <1>g, <1>n, <2>1, <2>2 DEF FileShape, DirShape, Reading
    <2> QED
      BY <1>x, <2>1, <2>2 DEF Wrote
  <1>6. CASE ThreadListDone
    <2>1. /\ dpc = "threads" /\ dpc' = "modlist" /\ Grown(w, w') /\ UNCHANGED <<k, created>>
          /\ \E x \in Entries : dir' = Append(dir, x)
      BY <1>0, <1>6, ThreadListFinished
    <2>2. Len(dir') = Len(dir) + 1
      BY <1>e, <2>1
    <2>8. FileShape'
      BY <1>0, <1>g, <1>n, <2>1, <2>2 DEF FileShape, Reading
    <2>9. DirShape'
      BY <1>0, <1>n, <2>1, <2>2 DEF DirShape
    <2> QED
      BY <2>8, <2>9
  <1>7. CASE ModuleList
    <2>1. /\ Wrote("modules") /\ dpc = "modlist" /\ k' = 1 /\ UNCHANGED <<created, dir>>
          /\ dpc' = "modules" => Has(w', "modules")
      BY <1>0, <1>7, ModuleListWritten
    <2>2. CASE dpc' = "modules" /\ Grown(w, w')
      BY <1>0, <1>g, <1>n, <2>1, <2>2 DEF FileShape, DirShape, Reading
    <2> QED
      BY <1>x, <2>1, <2>2 DEF Wrote
  <1>8. CASE WriteModule
    <2>1. Wrote("modules") /\ dpc = "modules" /\ k' = k + 1 /\ UNCHANGED <<created, dir>>
      BY <1>0, <1>8, ModuleWritten
    <2>2. CASE dpc' = "modules" /\ Grown(w, w')
      BY <1>0, <1>g, <1>n, <2>1, <2>2 DEF FileShape, DirShape, Reading
    <2> QED
      BY <1>x, <2>1, <2>2 DEF Wrote
  <1>9. CASE ModuleListDone
    <2>1. /\ dpc = "modules" /\ dpc' = "memory" /\ Grown(w, w') /\ UNCHANGED <<k, created>>
          /\ \E x \in Entries : dir' = Append(dir, x)
      BY <1>0, <1>9, ModuleListFinished
    <2>2. Len(dir') = Len(dir) + 1
      BY <1>e, <2>1
    <2>8. FileShape'
      BY <1>0, <1>g, <1>n, <2>1, <2>2 DEF FileShape, Reading
    <2>5. dpc = "modules" /\ dpc' = "memory"
      BY <2>1, <2>2
    <2>6. Len(dir) = 1
      BY <1>0, <2>5 DEF DirShape
    <2>7. Len(dir') = 2 /\ dpc' = "memory"
      BY <2>2, <2>5, <2>6
    <2>9. DirShape'
      BY <1>n, <2>7 DEF DirShape
    <2> QED
      BY <2>8, <2>9
  <1>10. CASE WriteMemoryListStream
    <2>1. StreamWritten("exception") /\ dpc = "memory" /\ UNCHANGED <<k, created>>
      BY <1>0, <1>10, MemoryWritten
    <2>2. CASE dpc' = "exception" /\ Grown(w, w')
      <3>1. Len(dir') = Len(dir) + 1
        BY <1>e, <2>1, <2>2 DEF StreamWritten
      <3>8. FileShape'
        BY <1>0, <1>g, <1>n, <2>1, <2>2, <3>1 DEF FileShape, Reading
      <3>5. dpc = "memory" /\ dpc' = "exception"
        BY <2>1, <2>2
      <3>6. Len(dir) = 2
        BY <1>0, <3>5 DEF DirShape
      <3>7. Len(dir') = 3 /\ dpc' = "exception"
        BY <3>1, <3>5, <3>6
      <3>9. DirShape'
        BY <1>n, <3>7 DEF DirShape
      <3> QED
        BY <3>8, <3>9
    <2> QED
      BY <1>x, <2>1, <2>2 DEF StreamWritten, Wrote
  <1>11. CASE WriteExceptionStream
    <2>1. StreamWritten("system") /\ dpc = "exception" /\ UNCHANGED <<k, created>>
      BY <1>0, <1>11, ExceptionWritten
    <2>2. CASE dpc' = "system" /\ Grown(w, w')
      <3>1. Len(dir') = Len(dir) + 1
        BY <1>e, <2>1, <2>2 DEF StreamWritten
      <3>8. FileShape'
        BY <1>0, <1>g, <1>n, <2>1, <2>2, <3>1 DEF FileShape, Reading
      <3>5. dpc = "exception" /\ dpc' = "system"
        BY <2>1, <2>2
      <3>6. Len(dir) = 3
        BY <1>0, <3>5 DEF DirShape
      <3>7. Len(dir') = 4 /\ dpc' = "system"
        BY <3>1, <3>5, <3>6
      <3>9. DirShape'
        BY <1>n, <3>7 DEF DirShape
      <3> QED
        BY <3>8, <3>9
    <2> QED
      BY <1>x, <2>1, <2>2 DEF StreamWritten, Wrote
  <1>12. CASE WriteSystemInfoStream
    <2>1. StreamWritten("files") /\ dpc = "system" /\ k' = 1 /\ UNCHANGED created
      BY <1>0, <1>12, SystemWritten
    <2>2. CASE dpc' = "files" /\ Grown(w, w')
      <3>1. Len(dir') = Len(dir) + 1
        BY <1>e, <2>1, <2>2 DEF StreamWritten
      <3>8. FileShape'
        BY <1>0, <1>g, <1>n, <2>1, <2>2, <3>1 DEF FileShape, Reading
      <3>5. dpc = "system" /\ dpc' = "files"
        BY <2>1, <2>2
      <3>6. Len(dir) = 4
        BY <1>0, <3>5 DEF DirShape
      <3>7. Len(dir') = 5 /\ dpc' = "files"
        BY <3>1, <3>5, <3>6
      <3>9. DirShape'
        BY <1>n, <2>1, <3>7 DEF DirShape
      <3> QED
        BY <3>8, <3>9
    <2> QED
      BY <1>x, <2>1, <2>2 DEF StreamWritten, Wrote
  <1>13. CASE WriteFile(alive)
    <2>1. /\ dpc = "files" /\ k <= 7 /\ k' = k + 1 /\ Grown(w, w') /\ UNCHANGED <<dpc, created>>
          /\ \E x \in Entries : dir' = Append(dir, x)
      BY <1>0, <1>13, FileWritten
    <2>2. Len(dir') = Len(dir) + 1
      BY <1>e, <2>1
    <2>8. FileShape'
      BY <1>0, <1>g, <1>n, <2>1, <2>2 DEF FileShape, Reading
    <2>9. DirShape'
      BY <1>0, <1>n, <2>1, <2>2 DEF DirShape
    <2> QED
      BY <2>8, <2>9
  <1>14. CASE FilesDone
    <2>1. dpc = "files" /\ dpc' = "dso" /\ k > 7 /\ UNCHANGED <<k, w, created, dir>>
      BY <1>14 DEF FilesDone, Files
    <2>8. FileShape'
      BY <1>0, <1>n, <2>1 DEF FileShape, Reading
    <2>9. DirShape'
      BY <1>0, <1>n, <2>1 DEF DirShape
    <2> QED
      BY <2>8, <2>9
  <1>15. CASE WriteDSODebugStream(alive)
    <2>1. /\ dpc = "dso" /\ dpc' = "resume" /\ Grown(w, w') /\ UNCHANGED <<k, created>>
          /\ \E x \in Entries : dir' = Append(dir, x)
      BY <1>0, <1>15, DebugWritten
    <2>2. Len(dir') = Len(dir) + 1
      BY <1>e, <2>1
    <2>8. FileShape'
      BY <1>0, <1>g, <1>n, <2>1, <2>2 DEF FileShape, Reading
    <2>5. dpc = "dso" /\ dpc' = "resume"
      BY <2>1, <2>2
    <2>6. Len(dir) = 12
      BY <1>0, <2>5 DEF DirShape
    <2>7. Len(dir') = 13 /\ dpc' = "resume"
      BY <2>2, <2>5, <2>6
    <2>9. DirShape'
      BY <1>n, <2>7 DEF DirShape
    <2> QED
      BY <2>8, <2>9
  <1>16. CASE DumpDone
    BY <1>16, <1>x DEF DumpDone
  <1>17. CASE DumpFailed
    BY <1>17, <1>x DEF DumpFailed
  <1>18. ASSUME NEW ok, DumperInit(ok) PROVE FileShape' /\ DirShape'
    BY <1>0, <1>18, <1>x DEF DumperInit, FileShape, DirShape, Reading, Fail
  <1> QED
    BY <1>1, <1>2, <1>3, <1>4, <1>5, <1>6, <1>7, <1>8, <1>9, <1>10, <1>11, <1>12, <1>13, <1>14,
       <1>15, <1>16, <1>17, <1>18 DEF WriterStep

\* One thread more is stopped, or dropped from the list.
LEMMA SuspendOutcome ==
    ASSUME DumpTypes, dpc = "suspend" => k >= 1, Suspend
    PROVE  /\ dpc = "suspend" /\ k \in 1..Len(tids)
           /\ UNCHANGED <<dpc, cctx, w, created, blocks, context, dir, verdict>>
           /\ faults' \in 0..MaxFaults
           /\ \/ alive /\ ptracer /\ attached' = attached \cup {tids[k]} /\ k' = k + 1 /\ tids' = tids
              \/ tids' = RemoveAt(tids, k) /\ attached' = attached /\ k' = k
  <1>1. PICK ok \in BOOLEAN : ThreadsSuspend(ok) /\ (ok => MayAttach) /\ Fault(~ok /\ MayAttach)
    BY DEF Suspend
  <1>2. dpc = "suspend" /\ k \in Nat /\ tids \in Seq(Threads) /\ faults \in 0..MaxFaults
    BY <1>1 DEF ThreadsSuspend, DumpTypes
  <1>3. k \in 1..Len(tids)
    BY <1>1, <1>2 DEF ThreadsSuspend
  <1>4. faults' \in 0..MaxFaults
    BY <1>1, <1>2, BudgetKept
  <1> QED
    BY <1>1, <1>2, <1>3, <1>4 DEF ThreadsSuspend, MayAttach

\* The steps of the dump process.
ChildStep == DumpProcess \/ ChildKilled

\* The dump process keeps its state in shape.
LEMMA ChildShape ==
    ASSUME DumpShape, ChildStep
    PROVE  DumpShape'
  <1>0. DumpTypes /\ FileShape /\ DirShape
    BY DEF DumpShape
  <1>1. CASE ThreadEntry
    <2>1. DumpTypes'
      BY <1>0, <1>1 DEF ThreadEntry, DumpTypes, Stages
    <2>2. FileShape' /\ DirShape'
      BY <1>0, <1>1 DEF ThreadEntry, FileShape, DirShape, Reading
    <2> QED
      BY <2>1, <2>2 DEF DumpShape
  <1>2. CASE WaitForContinueSignal
    <2>1. DumpTypes'
      BY <1>0, <1>2 DEF WaitForContinueSignal, DumpTypes, Stages
    <2>2. FileShape' /\ DirShape'
      BY <1>0, <1>2 DEF WaitForContinueSignal, FileShape, DirShape, Reading
    <2> QED
      BY <2>1, <2>2 DEF DumpShape
  <1>3. CASE Suspend
    <2>1. dpc = "suspend" => k >= 1
      BY <1>0 DEF FileShape
    <2>2. /\ dpc = "suspend" /\ k \in 1..Len(tids)
          /\ UNCHANGED <<dpc, cctx, w, created, blocks, context, dir, verdict>>
          /\ faults' \in 0..MaxFaults
          /\ \/ alive /\ ptracer /\ attached' = attached \cup {tids[k]} /\ k' = k + 1 /\ tids' = tids
             \/ tids' = RemoveAt(tids, k) /\ attached' = attached /\ k' = k
      BY <1>0, <1>3, <2>1, SuspendOutcome
    <2>3. tids \in Seq(Threads) /\ k \in Nat /\ attached \in SUBSET Threads
      BY <1>0 DEF DumpTypes
    <2>4. RemoveAt(tids, k) \in Seq(Threads)
      BY <2>2, <2>3, ThreadDropped
    <2>5. tids[k] \in Threads
      BY <2>2, <2>3
    <2>6. tids' \in Seq(Threads) /\ k' \in Nat /\ attached' \in SUBSET Threads /\ k' >= 1
      BY <2>2, <2>3, <2>4, <2>5
    <2>7. DumpTypes'
      BY <1>0, <2>2, <2>6 DEF DumpTypes
    <2>8. FileShape'
      BY <2>2, <2>6 DEF FileShape, Reading
    <2>9. DirShape'
      BY <1>0, <2>2 DEF DirShape
    <2> QED
      BY <2>7, <2>8, <2>9 DEF DumpShape
  <1>4. CASE Writes
    <2>1. DumpTypes' /\ FileShape' /\ DirShape'
      BY <1>4, WriterTypes, WriterShape DEF Writes
    <2> QED
      BY <2>1 DEF DumpShape
  <1>5. CASE ChildKilled
    <2>1. /\ dpc' = "off" /\ verdict' = "fail" /\ attached' = {} /\ tids' = <<>> /\ k' = 0
          /\ blocks' = 0 /\ UNCHANGED <<cctx, created>>
      BY <1>5 DEF ChildKilled
    <2>2. w' = NewFile \/ w' = w
      BY <1>5 DEF ChildKilled
    <2>3. dir' = <<>> \/ dir' = dir
      BY <1>5 DEF ChildKilled
    <2>4. context' = 0 \/ context' = context
      BY <1>5 DEF ChildKilled
    <2>5. faults' \in 0..MaxFaults
      BY <1>0, <1>5, BudgetKept DEF ChildKilled, DumpTypes
    <2>6. w' \in Writer
      BY <1>0, <2>2, NewFileWriter DEF DumpTypes
    <2>7. dir' \in Seq(Entries) /\ Len(dir') <= kNumWriters
      <3>1. <<>> \in Seq(Entries) /\ Len(<<>>) = 0 /\ 0 <= kNumWriters
        BY DEF kNumWriters
      <3>2. dir \in Seq(Entries) /\ Len(dir) <= kNumWriters
        BY <1>0 DEF DumpTypes, DirShape
      <3> QED
        BY <2>3, <3>1, <3>2, Zenon
    <2>8. <<>> \in Seq(Threads) /\ context' \in Nat /\ 0 \in Nat /\ "off" \in Stages /\ {} \in SUBSET Threads
      BY <1>0, <2>4 DEF DumpTypes, Stages
    <2>9. DumpTypes'
      BY <1>0, <2>1, <2>5, <2>6, <2>7, <2>8 DEF DumpTypes
    <2>10. FileShape' /\ DirShape'
      BY <2>1, <2>7 DEF FileShape, DirShape, Reading
    <2> QED
      BY <2>9, <2>10 DEF DumpShape
  <1> QED
    BY <1>1, <1>2, <1>3, <1>4, <1>5 DEF ChildStep, DumpProcess

\* So does every step.
LEMMA ShapeKept ==
    ASSUME DumpShape, ctx \in Crash \cup {NoCrash}, [Next]_vars
    PROVE  DumpShape'
  <1>0. DumpTypes /\ FileShape /\ DirShape
    BY DEF DumpShape
  <1>1. CASE AppStep
    <2>1. AppEffect
      BY <1>0, <1>1, AppStepEffect
    <2>2. dpc' \in Stages /\ cctx' \in Crash \cup {NoCrash} /\ verdict' \in {"none", "ok", "fail"}
      BY <1>0, <2>1 DEF AppEffect, DumpTypes, Stages
    <2>3. DumpTypes'
      BY <1>0, <2>1, <2>2 DEF AppEffect, DumpTypes
    <2>4. UNCHANGED <<k, w, created, dir>> /\ (dpc' = dpc \/ dpc' = "entry")
      BY <2>1 DEF AppEffect
    <2>5. FileShape' /\ DirShape'
      BY <1>0, <2>4 DEF FileShape, DirShape, Reading
    <2> QED
      BY <2>3, <2>5 DEF DumpShape
  <1>2. CASE ChildStep
    BY <1>2, ChildShape
  <1>3. CASE UNCHANGED vars
    BY <1>0, <1>3 DEF vars, dumpVars, DumpShape, DumpTypes, FileShape, DirShape
  <1> QED
    BY <1>1, <1>2, <1>3 DEF Next, AppStep, ChildStep, Over

-----------------------------------------------------------------------------
(* The crashed process: the invariants of its handlers. *)

\* Where a thread can be.
Places == {"ctor", "install", "run", "open", "signal", "airbag", "gone"} \cup HandlerStages

\* The state of the process is of its types (what NativeTypeOK says of it).
ProcTypes ==
    /\ cause \in {"none", "signal", "kill", "exit"}
    /\ frozen \in BOOLEAN /\ tombstone \in BOOLEAN
    /\ disp \in [Signals -> Dispositions] /\ old_handlers \in [Signals -> Dispositions]
    /\ handlers_installed \in BOOLEAN
    /\ mutex \in Threads \cup {"nobody"}
    /\ pc \in [Threads -> Places]
    /\ sig \in [Threads -> Signals \cup {NoSignal}]
    /\ kind \in [Threads -> {"fault", "raise"}]
    /\ ctx \in Crash \cup {NoCrash}
    /\ pipe \in [made: BOOLEAN, byte: BOOLEAN, childW: BOOLEAN] /\ ptracer \in BOOLEAN
    /\ config \in Signals \cup {NoSignal} /\ old \in Dispositions /\ opens \in 0..Len(Airbags)
    /\ first \in Crash \cup {NoCrash} /\ reported \in Crash \cup {NoCrash}
    /\ tampered \in BOOLEAN

\* The mutex and the places of its holder.
MutexHeld == \A t \in Threads : pc[t] \in Locked <=> mutex = t

\* A thread about to take a signal has one; the airbag being opened has its signal.
SignalKnown ==
    /\ \A t \in Threads : pc[t] \in {"signal", "airbag"} \cup HandlerStages => sig[t] \in Signals
    /\ pc[Main] = "open" => config \in Signals

\* A signal is stolen from a stopped thread that is about to take it.
StolenStopped ==
    /\ stolen \subseteq attached
    /\ \A t \in stolen : pc[t] = "signal"

\* While the process lives, the thread that started the dump process waits for it.
Dumping == {"allow", "continue", "wait"}
DumpOwned == alive /\ dpc # "off" => mutex \in Threads /\ pc[mutex] \in Dumping

\* The byte is sent by a process that has given its permission.
Handshake ==
    /\ pipe.byte => ptracer
    /\ \A t \in Threads : pc[t] \in {"continue", "wait"} => ptracer

\* The threads before the loop's counter are stopped.
HeldSoFar ==
    alive =>
        /\ dpc = "suspend" => \A i \in 1..Len(tids) : i < k => tids[i] \in attached
        /\ dpc \in {"open"} \cup Reading => \A i \in 1..Len(tids) : tids[i] \in attached

\* A dump that was reported is complete.
ReportedDone ==
    reported # NoCrash =>
        created /\ dpc \notin Reading \cup {"resume"} /\ w.position > 0

\* Breakpad's callback never claims the signal, so nobody asks for the default action.
NoDefault ==
    /\ \A s \in Signals : disp[s] # "default" /\ old_handlers[s] = "system"
    /\ old # "default"
    /\ \A t \in Threads : pc[t] # "default"

\* Until the constructor is through.
Starting ==
    /\ pc[Main] \in {"ctor", "install"} =>
           /\ \A s \in Signals : disp[s] \in {"system", "breakpad"}
           /\ \A t \in Threads : pc[t] # "airbag"
           /\ first = NoCrash /\ ~handlers_installed /\ old = "system"
    /\ pc[Main] = "ctor" =>
           /\ \A s \in Signals : disp[s] = "system"
           /\ \A t \in Threads : pc[t] \notin HandlerStages
    /\ alive /\ first = NoCrash /\ pc[Main] \notin {"ctor", "install"} => handlers_installed

\* While the handlers are installed.
Installed ==
    handlers_installed =>
        /\ \A s \in Signals : disp[s] \in {"breakpad", "airbag"}
        /\ old = "system" =>
               (\A s \in Signals : disp[s] = "breakpad") /\ \A t \in Threads : pc[t] # "airbag"
        /\ first # NoCrash => mutex \in Threads /\ first = <<mutex, sig[mutex]>>

\* Once they are restored.
Handling == {"generate", "allow", "continue", "wait", "restore"}
RestoredOnce ==
    alive /\ first # NoCrash /\ ~handlers_installed /\ ~tampered =>
        /\ \A s \in Signals : disp[s] = "system"
        /\ \A t \in Threads : pc[t] \in Handling \cup {"lock"} => <<t, sig[t]>> # first

\* What the handler works on.
Contexts ==
    /\ \A t \in Threads : pc[t] \in Handling => first # NoCrash /\ ctx = <<t, sig[t]>>
    /\ alive /\ dpc # "off" => cctx = ctx

\* What a step of the writer may do, as far as the process and the report are concerned.
WriterEffect ==
    /\ dpc \notin {"off", "entry", "read"} /\ UNCHANGED cctx
    /\ dpc' # "off" => UNCHANGED attached
    /\ dpc' \in {"open"} \cup Reading =>
           /\ UNCHANGED tids
           /\ dpc \in {"open"} \cup Reading \/ (dpc = "suspend" /\ k > Len(tids))
    /\ dpc' = "suspend" => k' = 1
    /\ dpc = "resume" => w' = Close(w) /\ UNCHANGED created /\ dpc' = "off"
    /\ dpc \notin Reading \cup {"resume"} /\ created /\ w # NewFile =>
           UNCHANGED <<w, dir, created>> /\ dpc' \notin Reading \cup {"resume"}
    /\ dpc # "resume" => verdict' = "fail" \/ verdict' = verdict

\* The steps of the writer do no more than that.
LEMMA WriterStepEffect ==
    ASSUME DumpTypes, FileShape,
           \/ WriterStep \/ WriteThread(alive) \/ WriteFile(alive)
           \/ WriteDSODebugStream(alive)
           \/ \E ok \in BOOLEAN : DumperInit(ok) /\ (ok => alive) /\ Fault(~ok /\ alive)
    PROVE  WriterEffect
  <1>0. w \in Writer
    BY DEF DumpTypes
  <1>r. ASSUME dpc \in Reading, UNCHANGED <<cctx, attached, tids, verdict>>, dpc' # "suspend"
        PROVE  WriterEffect
    BY <1>r DEF WriterEffect, Reading
  <1>1. CASE Suspended
    BY <1>1 DEF Suspended, WriterEffect, Reading, Fail
  <1>2. CASE OpenFile
    BY <1>2 DEF OpenFile, WriterEffect, Reading, Fail
  <1>3. CASE WriteHeader
    BY <1>0, <1>3, <1>r, HeaderWritten DEF Reading, Wrote
  <1>4. CASE ThreadList
    BY <1>4, <1>r, ThreadListWritten DEF Reading, Wrote
  <1>5. CASE WriteThread(alive)
    BY <1>5, <1>r, ThreadWritten DEF Reading, Wrote
  <1>6. CASE ThreadListDone
    BY <1>6, <1>r, ThreadListFinished DEF Reading
  <1>7. CASE ModuleList
    BY <1>7, <1>r, ModuleListWritten DEF Reading, Wrote
  <1>8. CASE WriteModule
    BY <1>8, <1>r, ModuleWritten DEF Reading, Wrote
  <1>9. CASE ModuleListDone
    BY <1>9, <1>r, ModuleListFinished DEF Reading
  <1>10. CASE WriteMemoryListStream
    BY <1>10, <1>r, MemoryWritten DEF Reading, StreamWritten, Wrote
  <1>11. CASE WriteExceptionStream
    BY <1>11, <1>r, ExceptionWritten DEF Reading, StreamWritten, Wrote
  <1>12. CASE WriteSystemInfoStream
    BY <1>12, <1>r, SystemWritten DEF Reading, StreamWritten, Wrote
  <1>13. CASE WriteFile(alive)
    BY <1>13, <1>r, FileWritten DEF Reading
  <1>14. CASE FilesDone
    BY <1>14, <1>r DEF FilesDone, Reading
  <1>15. CASE WriteDSODebugStream(alive)
    BY <1>15, <1>r, DebugWritten DEF Reading
  <1>16. CASE DumpDone
    BY <1>16 DEF DumpDone, WriterEffect, Reading
  <1>17. CASE DumpFailed
    BY <1>17 DEF DumpFailed, WriterEffect, Reading
  <1>18. ASSUME NEW ok, DumperInit(ok) PROVE WriterEffect
    BY <1>18 DEF DumperInit, WriterEffect, Reading, Fail
  <1> QED
    BY <1>1, <1>2, <1>3, <1>4, <1>5, <1>6, <1>7, <1>8, <1>9, <1>10, <1>11, <1>12, <1>13, <1>14,
       <1>15, <1>16, <1>17, <1>18 DEF WriterStep

\* What a step of the dump process may do to the crashed process: let its threads go.
ChildEffect ==
    /\ UNCHANGED <<cause, tombstone, disp, old_handlers, handlers_installed, mutex, sig, kind, ctx,
                   ptracer, config, old, opens, first, tampered, cctx>>
    /\ dpc # "off"
    /\ pipe' \in [made: BOOLEAN, byte: BOOLEAN, childW: BOOLEAN]
    /\ pipe'.made = pipe.made /\ pipe'.byte = pipe.byte
    /\ frozen' \in BOOLEAN
    /\ reported' = reported \/ reported' = cctx
    /\ pc' \in [Threads -> Places]
    /\ \A t \in Threads : pc'[t] = pc[t] \/ (pc[t] = "signal" /\ pc'[t] = "run")
    /\ StolenStopped'

\* LetGo wakes threads whose signal was stolen.
LEMMA ThreadsLetGo ==
    ASSUME ProcTypes, StolenStopped, NEW lost, LetGo(lost)
    PROVE  /\ frozen' \in BOOLEAN
           /\ pc' \in [Threads -> Places]
           /\ \A t \in Threads : pc'[t] = pc[t] \/ (pc[t] = "signal" /\ pc'[t] = "run")
           /\ StolenStopped'
  <1>1. frozen' \in BOOLEAN
    BY Zenon DEF LetGo
  <1>2. pc' = [t \in Threads |-> IF lost /\ t \in stolen /\ kind[t] = "raise" THEN "run" ELSE pc[t]]
    BY DEF LetGo
  <1>3. pc \in [Threads -> Places] /\ "run" \in Places
    BY DEF ProcTypes, Places
  <1>4. ASSUME NEW t \in Threads PROVE pc'[t] = pc[t] \/ (pc[t] = "signal" /\ pc'[t] = "run")
    BY <1>2, <1>4 DEF StolenStopped
  <1>5. pc' \in [Threads -> Places]
    BY <1>2, <1>3
  <1>6. StolenStopped'
    BY DEF LetGo, StolenStopped
  <1> QED
    BY <1>1, <1>4, <1>5, <1>6

\* The dump process does no more than that.
LEMMA ChildStepEffect ==
    ASSUME DumpShape, ProcTypes, StolenStopped, ChildStep
    PROVE  ChildEffect
  <1>0. DumpTypes /\ FileShape /\ pipe \in [made: BOOLEAN, byte: BOOLEAN, childW: BOOLEAN]
    BY DEF DumpShape, ProcTypes
  <1>s. UNCHANGED <<pc, stolen, attached>> => StolenStopped'
    BY DEF StolenStopped
  <1>t. pc \in [Threads -> Places] /\ frozen \in BOOLEAN
    BY DEF ProcTypes
  <1>1. CASE ThreadEntry
    <2>1. pipe' = [pipe EXCEPT !.childW = FALSE] /\ UNCHANGED <<pc, stolen, attached, frozen, reported, cctx>>
      BY <1>1 DEF ThreadEntry
    <2>2. pipe' \in [made: BOOLEAN, byte: BOOLEAN, childW: BOOLEAN]
      BY <1>0, <2>1
    <2>3. pipe'.made = pipe.made /\ pipe'.byte = pipe.byte
      BY <1>0, <2>1
    <2>4. /\ dpc # "off"
          /\ UNCHANGED <<cause, tombstone, disp, old_handlers, handlers_installed, mutex, sig, kind, ctx,
                         ptracer, config, old, opens, first, tampered, cctx>>
      BY <1>1 DEF ThreadEntry, appVars, handlerVars, airbagVars
    <2> QED
      BY <1>s, <1>t, <2>1, <2>2, <2>3, <2>4 DEF ChildEffect
  <1>2. CASE WaitForContinueSignal
    <2>1. dpc # "off" /\ UNCHANGED <<pipe, pc, stolen, attached, frozen, reported, cctx>>
      BY <1>2 DEF WaitForContinueSignal
    <2>2. UNCHANGED <<cause, tombstone, disp, old_handlers, handlers_installed, mutex, sig, kind, ctx,
                      ptracer, config, old, opens, first, tampered>>
      BY <1>2 DEF WaitForContinueSignal, appVars, handlerVars, airbagVars
    <2> QED
      BY <1>0, <1>s, <1>t, <2>1, <2>2 DEF ChildEffect
  <1>3. CASE Suspend
    <2>0. PICK ok \in BOOLEAN, own \in BOOLEAN :
            /\ ThreadsSuspend(ok)
            /\ own => ok /\ pc[tids[k]] = "signal"
            /\ stolen' = IF own THEN stolen \cup {tids[k]} ELSE stolen
            /\ UNCHANGED <<appVars, pc, frozen, reported, pipe>>
      BY <1>3 DEF Suspend
    <2>1. dpc # "off" /\ UNCHANGED <<pipe, pc, frozen, reported, cctx>>
      BY <2>0 DEF ThreadsSuspend
    <2>2. UNCHANGED <<cause, tombstone, disp, old_handlers, handlers_installed, mutex, sig, kind, ctx,
                      ptracer, config, old, opens, first, tampered>>
      BY <2>0 DEF appVars, handlerVars, airbagVars
    <2>3. StolenStopped'
      BY <2>0 DEF ThreadsSuspend, StolenStopped
    <2> QED
      BY <1>0, <1>t, <2>1, <2>2, <2>3 DEF ChildEffect
  <1>4. CASE Writes
    <2>0. WriterEffect
      BY <1>0, <1>4, WriterStepEffect DEF Writes
    <2>1. /\ UNCHANGED pipe
          /\ UNCHANGED <<cause, tombstone, disp, old_handlers, handlers_installed, mutex, sig, kind, ctx,
                         ptracer, config, old, opens, first, tampered>>
      BY <1>4 DEF Writes, appVars, handlerVars, airbagVars
    <2>2. dpc # "off" /\ cctx' = cctx
      BY <2>0 DEF WriterEffect
    <2>3. reported' = reported \/ reported' = cctx
      BY <1>4, Zenon DEF Writes
    <2>4. CASE dpc' = "off"
      <3>1. LetGo(TRUE)
        BY <1>4, <2>4 DEF Writes
      <3> QED
        BY <1>0, <2>1, <2>2, <2>3, <3>1, ThreadsLetGo DEF ChildEffect
    <2>5. CASE dpc' # "off"
      <3>1. UNCHANGED <<frozen, pc, stolen>> /\ UNCHANGED attached
        BY <1>4, <2>0, <2>5 DEF Writes, WriterEffect
      <3> QED
        BY <1>0, <1>s, <1>t, <2>1, <2>2, <2>3, <3>1 DEF ChildEffect
    <2> QED
      BY <2>4, <2>5
  <1>5. CASE ChildKilled
    <2>1. LetGo(FALSE) /\ dpc # "off" /\ UNCHANGED <<pipe, cctx, reported>>
      BY <1>5 DEF ChildKilled
    <2>2. UNCHANGED <<cause, tombstone, disp, old_handlers, handlers_installed, mutex, sig, kind, ctx,
                      ptracer, config, old, opens, first, tampered>>
      BY <1>5 DEF ChildKilled, appVars, handlerVars, airbagVars
    <2> QED
      BY <1>0, <2>1, <2>2, ThreadsLetGo DEF ChildEffect
  <1> QED
    BY <1>1, <1>2, <1>3, <1>4, <1>5 DEF ChildStep, DumpProcess

\* A thread goes from one place to another.
Moves(t, p) ==
    /\ pc' \in [Threads -> Places]
    /\ pc'[t] = p
    /\ \A u \in Threads : u # t => pc'[u] = pc[u]

\* Goto moves one thread.
LEMMA GotoMoves ==
    ASSUME ProcTypes, NEW t \in Threads, NEW p \in Places, Goto(t, p)
    PROVE  Moves(t, p)
  BY DEF ProcTypes, Goto, Moves

\* Nothing of the process is left when it is gone.
LEMMA GoneOutcome ==
    ASSUME NEW why, Gone(why)
    PROVE  /\ cause' = why /\ mutex' = "nobody" /\ handlers_installed' = FALSE
           /\ frozen' = FALSE /\ attached' = {} /\ stolen' = {} /\ old' = "system"
           /\ \A s \in Signals : disp'[s] = "system" /\ old_handlers'[s] = "system"
           /\ \A t \in Threads : pc'[t] = "gone" /\ sig'[t] = NoSignal
           /\ UNCHANGED <<dpc, cctx, tids, k, w, created, dir, pipe, ptracer, first, reported, tampered>>
           /\ config' = NoSignal /\ opens' = 0 /\ ctx' = NoCrash
           /\ disp' \in [Signals -> Dispositions] /\ old_handlers' \in [Signals -> Dispositions]
           /\ pc' \in [Threads -> Places] /\ sig' \in [Threads -> Signals \cup {NoSignal}]
           /\ kind' \in [Threads -> {"fault", "raise"}]
  BY DEF Gone, pipeVars, histVars, Dispositions, Places

\* The types of the process's state when it is gone.
LEMMA GoneTypes ==
    ASSUME ProcTypes, NEW why \in {"signal", "kill", "exit"}, Gone(why), tombstone' \in BOOLEAN
    PROVE  ProcTypes'
  <1>1. 0 \in 0..Len(Airbags) /\ "system" \in Dispositions
    BY AirbagsAssumption DEF Dispositions
  <1> QED
    BY <1>1, GoneOutcome DEF ProcTypes

\* The crashed process keeps the types of its state.
LEMMA AppTypes ==
    ASSUME ProcTypes, SignalKnown, AppStep
    PROVE  ProcTypes'
  <1>p. {"install", "run", "open", "signal", "airbag", "lock", "generate", "allow", "continue",
         "wait", "restore", "default", "retrigger"} \subseteq Places
    BY DEF Places, HandlerStages
  <1>m. \A t \in Threads, p \in Places : Goto(t, p) => pc' \in [Threads -> Places]
    BY DEF Goto, ProcTypes
  <1>1. ASSUME NEW t \in Threads, ThreadStep(t)
        PROVE  ProcTypes'
    <2>1. CASE Deliver(t)
      <3>1. pc' \in [Threads -> Places]
        BY <1>m, <1>p, <2>1 DEF Deliver
      <3> QED
        BY <2>1, <3>1 DEF Deliver, ProcTypes, procVars, handlerVars, pipeVars, airbagVars, histVars
    <2>2. CASE Die(t)
      <3>1. tombstone' \in BOOLEAN
        BY <2>2, Zenon DEF Die
      <3> QED
        BY <2>2, <3>1, GoneTypes DEF Die
    <2>3. CASE AirbagHandler(t)
      <3>1. pc' \in [Threads -> Places]
        BY <1>m, <1>p, <2>3 DEF AirbagHandler
      <3>2. tampered' \in BOOLEAN
        BY <2>3, Zenon DEF AirbagHandler, ProcTypes
      <3>3. disp' \in [Signals -> Dispositions] /\ kind' \in [Threads -> {"fault", "raise"}]
        BY <2>3 DEF AirbagHandler, ProcTypes
      <3> QED
        BY <2>3, <3>1, <3>2, <3>3 DEF AirbagHandler, ProcTypes, procVars, pipeVars, airbagVars
    <2>4. CASE HandleSignal(t)
      <3>1. pc' \in [Threads -> Places]
        BY <1>m, <1>p, <2>4 DEF HandleSignal
      <3>2. sig[t] \in Signals
        BY <2>4 DEF HandleSignal, At, SignalKnown, HandlerStages
      <3>3. <<t, sig[t]>> \in Crash
        BY <3>2 DEF Crash
      <3>4. ctx' \in Crash /\ first' \in Crash \cup {NoCrash}
        BY <2>4, <3>3 DEF HandleSignal, ProcTypes
      <3> QED
        BY <2>4, <3>1, <3>4 DEF HandleSignal, ProcTypes, procVars, pipeVars, airbagVars
    <2>5. CASE GenerateDump(t)
      <3>1. pc' \in [Threads -> Places]
        BY <1>m, <1>p, <2>5 DEF GenerateDump
      <3>2. pipe' \in [made: BOOLEAN, byte: BOOLEAN, childW: BOOLEAN]
        <4>1. \/ \E made \in BOOLEAN : pipe' = [made |-> made, byte |-> FALSE, childW |-> made]
              \/ pipe' = pipe
          BY <2>5, Zenon DEF GenerateDump, pipeVars
        <4>2. CASE \E made \in BOOLEAN : pipe' = [made |-> made, byte |-> FALSE, childW |-> made]
          <5>1. PICK made \in BOOLEAN : pipe' = [made |-> made, byte |-> FALSE, childW |-> made]
            BY <4>2
          <5> QED
            BY <5>1
        <4> QED
          BY <4>1, <4>2 DEF ProcTypes
      <3>3. ptracer' \in BOOLEAN
        BY <2>5, Zenon DEF GenerateDump, pipeVars, ProcTypes
      <3> QED
        BY <2>5, <3>1, <3>2, <3>3
           DEF GenerateDump, ProcTypes, procVars, handlerVars, airbagVars, histVars
    <2>6. CASE AllowPtrace(t)
      <3>1. pc' \in [Threads -> Places]
        BY <1>m, <1>p, <2>6 DEF AllowPtrace
      <3> QED
        BY <2>6, <3>1 DEF AllowPtrace, ProcTypes, procVars, handlerVars, airbagVars, histVars
    <2>7. CASE SendContinueSignalToChild(t)
      <3>1. pc' \in [Threads -> Places]
        BY <1>m, <1>p, <2>7 DEF SendContinueSignalToChild
      <3>2. pipe' \in [made: BOOLEAN, byte: BOOLEAN, childW: BOOLEAN]
        BY <2>7 DEF SendContinueSignalToChild, ProcTypes
      <3> QED
        BY <2>7, <3>1, <3>2
           DEF SendContinueSignalToChild, ProcTypes, procVars, handlerVars, airbagVars, histVars
    <2>8. CASE WaitChild(t)
      <3>1. pc' \in [Threads -> Places]
        BY <1>m, <1>p, <2>8 DEF WaitChild
      <3> QED
        BY <2>8, <3>1 DEF WaitChild, ProcTypes, procVars, handlerVars, pipeVars, airbagVars, histVars
    <2>9. CASE Restore(t)
      <3>1. pc' \in [Threads -> Places]
        BY <1>m, <1>p, <2>9 DEF Restore
      <3>2. handlers_installed' \in BOOLEAN
        BY <2>9, Zenon DEF Restore
      <3>3. disp' \in [Signals -> Dispositions]
        BY <2>9 DEF Restore, Restored, InstallDefaultHandler, ProcTypes, Dispositions
      <3> QED
        BY <2>9, <3>1, <3>2, <3>3 DEF Restore, ProcTypes, procVars, pipeVars, airbagVars, histVars
    <2>10. CASE Retrigger(t)
      <3>1. pc' \in [Threads -> Places]
        BY <1>m, <1>p, <2>10 DEF Retrigger
      <3> QED
        BY <2>10, <3>1 DEF Retrigger, ProcTypes, procVars, handlerVars, pipeVars, airbagVars, histVars
    <2>11. CASE RetriggerFails(t)
      BY <2>11, GoneTypes DEF RetriggerFails, ProcTypes
    <2>12. CASE Construct
      <3>1. pc' \in [Threads -> Places]
        BY <1>m, <1>p, <2>12, MainAssumption DEF Construct
      <3> QED
        BY <2>12, <3>1, MainAssumption
           DEF Construct, ProcTypes, procVars, pipeVars, airbagVars, histVars
    <2>13. ASSUME NEW s \in Signals, InstallHandler(s) PROVE ProcTypes'
      <3>1. disp' \in [Signals -> Dispositions]
        BY <2>13 DEF InstallHandler, ProcTypes, Dispositions
      <3> QED
        BY <2>13, <3>1
           DEF InstallHandler, ProcTypes, procVars, threadVars, pipeVars, airbagVars, histVars
    <2>14. CASE Constructed
      <3>1. pc' \in [Threads -> Places]
        BY <1>m, <1>p, <2>14, MainAssumption DEF Constructed
      <3> QED
        BY <2>14, <3>1 DEF Constructed, ProcTypes, procVars, pipeVars, airbagVars, histVars
    <2>15. CASE InstallAirbag
      <3>1. pc' \in [Threads -> Places]
        BY <1>m, <1>p, <2>15, MainAssumption DEF InstallAirbag
      <3>2. tampered' \in BOOLEAN
        BY <2>15, Zenon DEF InstallAirbag, ProcTypes
      <3>3. config \in Signals
        BY <2>15 DEF InstallAirbag, At, SignalKnown
      <3>4. disp' \in [Signals -> Dispositions] /\ old' \in Dispositions
        BY <2>15, <3>3 DEF InstallAirbag, ProcTypes, Dispositions
      <3> QED
        BY <2>15, <3>1, <3>2, <3>4 DEF InstallAirbag, ProcTypes, procVars, pipeVars
    <2> QED
      BY <1>1, <2>1, <2>2, <2>3, <2>4, <2>5, <2>6, <2>7, <2>8, <2>9, <2>10, <2>11, <2>12, <2>13,
         <2>14, <2>15 DEF ThreadStep, SignalHandler
  <1>2. ASSUME NEW t \in Threads, NEW s \in Signals, NEW kd \in {"fault", "raise"}, Crashes(t, s, kd)
        PROVE  ProcTypes'
    <2>1. pc' \in [Threads -> Places]
      BY <1>2, <1>m, <1>p DEF Crashes
    <2>2. sig' \in [Threads -> Signals \cup {NoSignal}] /\ kind' \in [Threads -> {"fault", "raise"}]
      BY <1>2 DEF Crashes, ProcTypes
    <2> QED
      BY <1>2, <2>1, <2>2 DEF Crashes, ProcTypes, procVars, handlerVars, pipeVars, airbagVars, histVars
  <1>3. CASE OpenNativeAirbag
    <2>1. pc' \in [Threads -> Places]
      BY <1>3, <1>m, <1>p, MainAssumption DEF OpenNativeAirbag
    <2>2. opens \in 0..Len(Airbags)
      BY DEF ProcTypes
    <2>3. opens' \in 0..Len(Airbags) /\ opens' \in 1..Len(Airbags)
      BY <1>3, <2>2, AirbagsAssumption DEF OpenNativeAirbag
    <2>4. config' \in Signals
      BY <1>3, <2>3, AirbagsAssumption DEF OpenNativeAirbag
    <2> QED
      BY <1>3, <2>1, <2>3, <2>4
         DEF OpenNativeAirbag, ProcTypes, procVars, handlerVars, pipeVars, histVars
  <1>4. CASE Kill
    BY <1>4, GoneTypes DEF Kill, ProcTypes
  <1> QED
    BY <1>1, <1>2, <1>3, <1>4 DEF AppStep

\* What holds of the threads, whatever the dump process does.
ThreadInv == ProcTypes /\ MutexHeld /\ SignalKnown /\ StolenStopped

\* A step that moves one thread, which is not stopped, keeps the mutex and the signals in order.
LEMMA OneThreadMoves ==
    ASSUME ThreadInv, attached \subseteq Threads, NEW t \in Threads, NEW p, Moves(t, p),
           t \notin attached, UNCHANGED <<attached, stolen>>,
           \A u \in Threads : u # t => (mutex' = u <=> mutex = u) /\ sig'[u] = sig[u],
           p \in Locked <=> mutex' = t,
           p \in {"signal", "airbag"} \cup HandlerStages => sig'[t] \in Signals,
           pc'[Main] = "open" => config' \in Signals
    PROVE  MutexHeld' /\ SignalKnown' /\ StolenStopped'
  <1>1. MutexHeld'
    BY DEF ThreadInv, MutexHeld, Moves
  <1>2. SignalKnown'
    BY DEF ThreadInv, SignalKnown, Moves
  <1>3. StolenStopped'
    <2>1. stolen \subseteq attached /\ t \notin stolen /\ stolen \subseteq Threads
      BY DEF ThreadInv, StolenStopped
    <2>2. ASSUME NEW u \in stolen PROVE pc'[u] = "signal"
      BY <2>1, <2>2 DEF ThreadInv, StolenStopped, Moves
    <2> QED
      BY <2>1, <2>2 DEF StolenStopped
  <1> QED
    BY <1>1, <1>2, <1>3

\* The same when the process is gone.
LEMMA GoneThreads ==
    ASSUME NEW why, Gone(why)
    PROVE  MutexHeld' /\ SignalKnown' /\ StolenStopped'
  <1>1. /\ mutex' = "nobody" /\ stolen' = {} /\ attached' = {}
        /\ \A t \in Threads : pc'[t] = "gone"
    BY GoneOutcome
  <1>2. "nobody" \notin Threads /\ Main \in Threads
    BY MainAssumption
  <1> QED
    BY <1>1, <1>2 DEF MutexHeld, SignalKnown, StolenStopped, Locked, HandlerStages

\* The crashed process keeps the mutex and the signals in order.
LEMMA AppThreads ==
    ASSUME ThreadInv, attached \subseteq Threads, AppStep
    PROVE  MutexHeld' /\ SignalKnown' /\ StolenStopped'
  <1>0. ProcTypes /\ MutexHeld /\ SignalKnown /\ "nobody" \notin Threads /\ Main \in Threads
    BY MainAssumption DEF ThreadInv
  <1>p. {"install", "run", "open", "signal", "airbag", "lock", "generate", "allow", "continue",
         "wait", "restore", "default", "retrigger"} \subseteq Places
    BY DEF Places, HandlerStages
  <1>d. UNCHANGED dumpVars => UNCHANGED attached
    BY DEF dumpVars
  <1>m. \A t \in Threads, p \in Places : Goto(t, p) => Moves(t, p)
    BY <1>0, GotoMoves
  \* A step within the handler, or outside it.
  <1>w. ASSUME NEW t \in Threads, NEW q, NEW p \in Places, At(t, q), Goto(t, p),
               UNCHANGED <<attached, stolen, mutex, sig>>,
               q \in Locked <=> p \in Locked,
               q \in {"signal", "airbag"} \cup HandlerStages,
               p # "open", config' = config
        PROVE  MutexHeld' /\ SignalKnown' /\ StolenStopped'
    <2>1. Moves(t, p) /\ pc[t] = q /\ t \notin attached
      BY <1>m, <1>w DEF At, Runs
    <2>2. (p \in Locked <=> mutex' = t) /\ sig'[t] \in Signals
      BY <1>0, <1>w, <2>1 DEF MutexHeld, SignalKnown
    <2>3. pc'[Main] = "open" => config' \in Signals
      BY <1>0, <1>w, <2>1 DEF SignalKnown, Moves
    <2> QED
      BY <1>w, <2>1, <2>2, <2>3, OneThreadMoves
  <1>1. ASSUME NEW t \in Threads, ThreadStep(t)
        PROVE  MutexHeld' /\ SignalKnown' /\ StolenStopped'
    <2>1. CASE Deliver(t)
      <3>1. PICK p \in {"lock", "airbag"} : Goto(t, p)
        BY <2>1 DEF Deliver
      <3> QED
        BY <1>d, <1>p, <1>w, <2>1, <3>1 DEF Deliver, handlerVars, airbagVars, Locked
    <2>2. CASE Die(t)
      BY <2>2, GoneThreads DEF Die
    <2>3. CASE AirbagHandler(t)
      <3>1. PICK p \in {"run", "signal"} : Goto(t, p)
        BY <2>3 DEF AirbagHandler
      <3> QED
        BY <1>d, <1>p, <1>w, <2>3, <3>1 DEF AirbagHandler, airbagVars, Locked
    <2>4. CASE HandleSignal(t)
      <3>1. Moves(t, "generate") /\ pc[t] = "lock" /\ t \notin attached
        BY <1>m, <1>p, <2>4 DEF HandleSignal, At, Runs
      <3>2. mutex = "nobody" /\ mutex' = t /\ UNCHANGED <<sig, attached, stolen, config>>
        BY <1>d, <2>4 DEF HandleSignal, airbagVars
      <3>3. sig'[t] \in Signals /\ "generate" \in Locked
        BY <1>0, <3>1, <3>2 DEF SignalKnown, HandlerStages, Locked
      <3>4. pc'[Main] = "open" => config' \in Signals
        BY <1>0, <3>1, <3>2 DEF SignalKnown, Moves
      <3>5. \A u \in Threads : u # t => (mutex' = u <=> mutex = u) /\ sig'[u] = sig[u]
        BY <1>0, <3>2
      <3> QED
        BY <3>1, <3>2, <3>3, <3>4, <3>5, OneThreadMoves
    <2>5. CASE GenerateDump(t)
      <3>1. PICK p \in {"allow", "restore"} : Goto(t, p)
        BY <2>5 DEF GenerateDump
      <3>2. UNCHANGED attached
        BY <2>5 DEF GenerateDump, KernelFails
      <3> QED
        BY <1>p, <1>w, <2>5, <3>1, <3>2 DEF GenerateDump, handlerVars, airbagVars, Locked, HandlerStages
    <2>6. CASE AllowPtrace(t)
      BY <1>d, <1>p, <1>w, <2>6 DEF AllowPtrace, handlerVars, airbagVars, Locked, HandlerStages
    <2>7. CASE SendContinueSignalToChild(t)
      BY <1>d, <1>p, <1>w, <2>7
         DEF SendContinueSignalToChild, handlerVars, airbagVars, Locked, HandlerStages
    <2>8. CASE WaitChild(t)
      <3>1. PICK p \in {"default", "restore"} : Goto(t, p)
        BY <2>8 DEF WaitChild
      <3> QED
        BY <1>d, <1>p, <1>w, <2>8, <3>1 DEF WaitChild, handlerVars, airbagVars, Locked, HandlerStages
    <2>9. CASE Restore(t)
      <3>1. Moves(t, "retrigger") /\ pc[t] \in {"restore", "default"} /\ t \notin attached
        BY <1>m, <1>p, <2>9 DEF Restore, Runs
      <3>2. mutex' = "nobody" /\ UNCHANGED <<sig, attached, stolen, config>>
        BY <1>d, <2>9 DEF Restore, airbagVars
      <3>3. mutex = t /\ sig'[t] \in Signals /\ "retrigger" \notin Locked
        BY <1>0, <3>1, <3>2 DEF MutexHeld, SignalKnown, HandlerStages, Locked
      <3>4. pc'[Main] = "open" => config' \in Signals
        BY <1>0, <3>1, <3>2 DEF SignalKnown, Moves
      <3>5. \A u \in Threads : u # t => (mutex' = u <=> mutex = u) /\ sig'[u] = sig[u]
        BY <1>0, <3>2, <3>3
      <3> QED
        BY <1>0, <3>1, <3>2, <3>3, <3>4, <3>5, OneThreadMoves
    <2>10. CASE Retrigger(t)
      BY <1>d, <1>p, <1>w, <2>10 DEF Retrigger, handlerVars, airbagVars, Locked, HandlerStages
    <2>11. CASE RetriggerFails(t)
      BY <2>11, GoneThreads DEF RetriggerFails
    <2>12. CASE Construct
      <3>1. Moves(Main, "install") /\ Main \notin attached
        BY <1>0, <1>m, <1>p, <2>12 DEF Construct, At, Runs
      <3>2. mutex = "nobody" /\ mutex' = Main /\ UNCHANGED <<sig, attached, stolen>>
        BY <1>d, <2>12 DEF Construct
      <3>3. pc'[Main] # "open" /\ "install" \in Locked
        BY <3>1 DEF Moves, Locked
      <3>4. \A u \in Threads : u # Main => (mutex' = u <=> mutex = u) /\ sig'[u] = sig[u]
        BY <1>0, <3>2
      <3>5. "install" \notin {"signal", "airbag"} \cup HandlerStages
        BY DEF HandlerStages
      <3> QED
        BY <1>0, <3>1, <3>2, <3>3, <3>4, <3>5, OneThreadMoves
    <2>13. ASSUME NEW s \in Signals, InstallHandler(s)
           PROVE  MutexHeld' /\ SignalKnown' /\ StolenStopped'
      BY <1>0, <1>d, <2>13
         DEF InstallHandler, threadVars, airbagVars, ThreadInv, MutexHeld, SignalKnown, StolenStopped
    <2>14. CASE Constructed
      <3>1. Moves(Main, "run") /\ Main \notin attached /\ pc[Main] = "install"
        BY <1>0, <1>m, <1>p, <2>14 DEF Constructed, At, Runs
      <3>2. mutex' = "nobody" /\ UNCHANGED <<sig, attached, stolen>>
        BY <1>d, <2>14 DEF Constructed
      <3>3. pc'[Main] # "open" /\ "run" \notin Locked /\ mutex = Main
        BY <1>0, <3>1 DEF Moves, MutexHeld, Locked
      <3>4. \A u \in Threads : u # Main => (mutex' = u <=> mutex = u) /\ sig'[u] = sig[u]
        BY <1>0, <3>2, <3>3
      <3>5. "run" \notin {"signal", "airbag"} \cup HandlerStages
        BY DEF HandlerStages
      <3> QED
        BY <1>0, <3>1, <3>2, <3>3, <3>4, <3>5, OneThreadMoves
    <2>15. CASE InstallAirbag
      <3>1. Moves(Main, "run") /\ Main \notin attached /\ pc[Main] = "open"
        BY <1>0, <1>m, <1>p, <2>15 DEF InstallAirbag, At, Runs
      <3>2. UNCHANGED <<sig, mutex, stolen>>
        BY <2>15 DEF InstallAirbag
      <3>3. UNCHANGED attached
        BY <1>d, <2>15 DEF InstallAirbag, KernelFails
      <3>4. pc'[Main] # "open" /\ "run" \notin Locked /\ mutex # Main
        BY <1>0, <3>1 DEF Moves, MutexHeld, Locked
      <3>5. "run" \notin {"signal", "airbag"} \cup HandlerStages
        BY DEF HandlerStages
      <3> QED
        BY <1>0, <3>1, <3>2, <3>3, <3>4, <3>5, OneThreadMoves
    <2> QED
      BY <1>1, <2>1, <2>2, <2>3, <2>4, <2>5, <2>6, <2>7, <2>8, <2>9, <2>10, <2>11, <2>12, <2>13,
         <2>14, <2>15 DEF ThreadStep, SignalHandler
  <1>2. ASSUME NEW t \in Threads, NEW s \in Signals, NEW kd \in {"fault", "raise"}, Crashes(t, s, kd)
        PROVE  MutexHeld' /\ SignalKnown' /\ StolenStopped'
    <2>1. Moves(t, "signal") /\ t \notin attached /\ pc[t] = "run"
      BY <1>m, <1>p, <1>2 DEF Crashes, At, Runs
    <2>2. sig' = [sig EXCEPT ![t] = s] /\ UNCHANGED <<mutex, attached, stolen, config>>
      BY <1>2, <1>d DEF Crashes, handlerVars, airbagVars
    <2>3. sig'[t] = s /\ \A u \in Threads : u # t => sig'[u] = sig[u]
      BY <1>0, <2>2 DEF ProcTypes
    <2>4. "signal" \notin Locked /\ mutex # t
      BY <1>0, <2>1 DEF MutexHeld, Locked
    <2>5. pc'[Main] = "open" => config' \in Signals
      BY <1>0, <2>1, <2>2 DEF SignalKnown, Moves
    <2> QED
      BY <2>1, <2>2, <2>3, <2>4, <2>5, OneThreadMoves
  <1>3. CASE OpenNativeAirbag
    <2>1. Moves(Main, "open") /\ Main \notin attached /\ pc[Main] = "run"
      BY <1>0, <1>m, <1>p, <1>3 DEF OpenNativeAirbag, At, Runs
    <2>2. UNCHANGED <<sig, mutex, attached, stolen>>
      BY <1>3, <1>d DEF OpenNativeAirbag, handlerVars
    <2>3. opens \in 0..Len(Airbags) /\ opens < Len(Airbags) /\ opens' = opens + 1
      BY <1>0, <1>3 DEF OpenNativeAirbag, ProcTypes
    <2>4. config' \in Signals
      BY <1>3, <2>3, AirbagsAssumption DEF OpenNativeAirbag
    <2>5. "open" \notin Locked /\ mutex # Main
      BY <1>0, <2>1 DEF MutexHeld, Locked
    <2>6. "open" \notin {"signal", "airbag"} \cup HandlerStages
      BY DEF HandlerStages
    <2> QED
      BY <1>0, <2>1, <2>2, <2>4, <2>5, <2>6, OneThreadMoves
  <1>4. CASE Kill
    BY <1>4, GoneThreads DEF Kill
  <1> QED
    BY <1>1, <1>2, <1>3, <1>4 DEF AppStep

\* The core of the invariant.
CoreInv == DumpShape /\ ThreadInv

\* It holds at the start.
LEMMA CoreInit ==
    ASSUME Init
    PROVE  CoreInv
  <1>1. DumpTypes
    <2>1. <<>> \in Seq(Threads) /\ <<>> \in Seq(Entries) /\ 0 \in 0..MaxFaults /\ "off" \in Stages
      BY BudgetAssumption DEF Stages
    <2> QED
      BY <2>1, NewFileWriter DEF Init, DumpInit, DumpTypes
  <1>2. FileShape /\ DirShape
    BY DEF Init, DumpInit, FileShape, DirShape, Reading, kNumWriters
  <1>3. ProcTypes
    <2>1. 0 \in 0..Len(Airbags)
      BY AirbagsAssumption
    <2>2. pc \in [Threads -> Places]
      BY DEF Init, Places
    <2>3. disp \in [Signals -> Dispositions] /\ old_handlers \in [Signals -> Dispositions]
      BY DEF Init, Dispositions
    <2>4. sig \in [Threads -> Signals \cup {NoSignal}] /\ kind \in [Threads -> {"fault", "raise"}]
      BY DEF Init
    <2>5. pipe \in [made: BOOLEAN, byte: BOOLEAN, childW: BOOLEAN]
      BY DEF Init
    <2>6. old \in Dispositions
      BY DEF Init, Dispositions
    <2> QED
      BY <2>1, <2>2, <2>3, <2>4, <2>5, <2>6 DEF Init, ProcTypes
  <1>4. MutexHeld /\ SignalKnown /\ StolenStopped
    BY MainAssumption DEF Init, DumpInit, MutexHeld, SignalKnown, StolenStopped, Locked, HandlerStages
  <1> QED
    BY <1>1, <1>2, <1>3, <1>4 DEF CoreInv, DumpShape, ThreadInv

\* The dump process keeps the threads' part of it.
LEMMA ChildThreads ==
    ASSUME CoreInv, ChildStep
    PROVE  ThreadInv'
  <1>0. DumpShape /\ DumpTypes /\ ProcTypes /\ MutexHeld /\ SignalKnown /\ StolenStopped
    BY DEF CoreInv, ThreadInv, DumpShape
  <1>1. ChildEffect
    BY <1>0, ChildStepEffect
  <1>2. reported' \in Crash \cup {NoCrash}
    BY <1>0, <1>1 DEF ChildEffect, ProcTypes, DumpTypes
  <1>3. ProcTypes'
    BY <1>0, <1>1, <1>2 DEF ChildEffect, ProcTypes
  <1>4. ASSUME NEW t \in Threads PROVE pc'[t] \in Locked <=> pc[t] \in Locked
    BY <1>1 DEF ChildEffect, Locked
  <1>5. MutexHeld'
    BY <1>0, <1>1, <1>4 DEF ChildEffect, MutexHeld
  <1>6. SignalKnown'
    <2>1. \A t \in Threads : pc'[t] \in {"signal", "airbag"} \cup HandlerStages =>
                                 pc[t] \in {"signal", "airbag"} \cup HandlerStages
      BY <1>1 DEF ChildEffect, HandlerStages
    <2>2. UNCHANGED <<sig, config>>
      BY <1>1 DEF ChildEffect
    <2>3. pc'[Main] = "open" => pc[Main] = "open"
      BY <1>1, MainAssumption DEF ChildEffect
    <2> QED
      BY <1>0, <2>1, <2>2, <2>3 DEF SignalKnown
  <1> QED
    BY <1>1, <1>3, <1>5, <1>6 DEF ThreadInv, ChildEffect

\* Every step keeps the core.
LEMMA CoreStep ==
    ASSUME CoreInv, [Next]_vars
    PROVE  CoreInv'
  <1>0. DumpShape /\ ThreadInv /\ ProcTypes /\ attached \subseteq Threads
    BY DEF CoreInv, ThreadInv, DumpShape, DumpTypes
  <1>1. DumpShape'
    BY <1>0, ShapeKept DEF ProcTypes
  <1>2. CASE AppStep
    BY <1>0, <1>1, <1>2, AppTypes, AppThreads DEF CoreInv, ThreadInv
  <1>3. CASE ChildStep
    BY <1>1, <1>3, ChildThreads DEF CoreInv
  <1>4. CASE UNCHANGED vars
    <2>1. ThreadInv'
      BY <1>0, <1>4 DEF vars, dumpVars, procVars, handlerVars, threadVars, pipeVars, airbagVars, histVars,
                        ThreadInv, ProcTypes, MutexHeld, SignalKnown, StolenStopped
    <2> QED
      BY <1>1, <2>1 DEF CoreInv
  <1> QED
    BY <1>2, <1>3, <1>4 DEF Next, AppStep, ChildStep, Over

\* The core implies the type invariant.
LEMMA CoreTypes ==
    ASSUME CoreInv
    PROVE  NativeTypeOK
  <1>1. DumpTypes /\ DirShape
    BY DEF CoreInv, DumpShape
  <1>2. DumpTypeOK
    <2>1. w.position \in Nat /\ w.size \in Nat /\ w.offset \in Nat /\ w.parts \subseteq Part
      BY <1>1 DEF DumpTypes, Writer
    <2>2. \A p \in w.parts : p.pos \in Nat /\ p.len \in Nat /\ p.st \in {"hole", "good", "bad"}
      BY <2>1 DEF Part
    <2>3. Len(dir) <= kNumWriters
      BY <1>1 DEF DirShape
    <2> QED
      BY <1>1, <2>1, <2>2, <2>3 DEF DumpTypes, DumpTypeOK
  <1>3. ProcTypes /\ MutexHeld /\ stolen \subseteq attached
    BY DEF CoreInv, ThreadInv, StolenStopped
  <1> QED
    BY <1>2, <1>3 DEF NativeTypeOK, ProcTypes, MutexHeld, Places

\* The types, for any threads and signals: at most one thread holds the mutex of the handler
\* stack, and it is the one inside the handler; the directory has no more entries than the
\* header has room for; a stolen signal belongs to a stopped thread.
THEOREM TypeCorrect == Spec => []NativeTypeOK
  <1>1. Init => CoreInv
    BY CoreInit
  <1>2. CoreInv /\ [Next]_vars => CoreInv'
    BY CoreStep
  <1>3. CoreInv => NativeTypeOK
    BY CoreTypes
  <1> QED
    BY <1>1, <1>2, <1>3, PTL DEF Spec

-----------------------------------------------------------------------------
(* The handshake, the stopped threads and the report. *)

\* Only a living process takes steps, and while it lives the stopped threads stay stopped.
LEMMA AppAlive ==
    ASSUME AppStep
    PROVE  alive /\ UNCHANGED reported /\ (alive' => UNCHANGED attached)
  <1>d. UNCHANGED dumpVars => UNCHANGED attached
    BY DEF dumpVars
  <1>g. ASSUME NEW why \in {"signal", "kill", "exit"}, Gone(why) PROVE UNCHANGED reported /\ ~alive'
    BY <1>g DEF Gone, alive, histVars
  <1>1. ASSUME NEW t \in Threads, ThreadStep(t)
        PROVE  alive /\ UNCHANGED reported /\ (alive' => UNCHANGED attached)
    <2>1. CASE Deliver(t)
      BY <1>d, <2>1 DEF Deliver, At, Runs, histVars
    <2>2. CASE Die(t)
      BY <1>g, <2>2 DEF Die, At, Runs
    <2>3. CASE AirbagHandler(t)
      BY <1>d, <2>3 DEF AirbagHandler, At, Runs
    <2>4. CASE HandleSignal(t)
      BY <1>d, <2>4 DEF HandleSignal, At, Runs
    <2>5. CASE GenerateDump(t)
      BY <2>5 DEF GenerateDump, KernelFails, At, Runs, histVars
    <2>6. CASE AllowPtrace(t)
      BY <1>d, <2>6 DEF AllowPtrace, At, Runs, histVars
    <2>7. CASE SendContinueSignalToChild(t)
      BY <1>d, <2>7 DEF SendContinueSignalToChild, At, Runs, histVars
    <2>8. CASE WaitChild(t)
      BY <1>d, <2>8 DEF WaitChild, At, Runs, histVars
    <2>9. CASE Restore(t)
      BY <1>d, <2>9 DEF Restore, At, Runs, histVars
    <2>10. CASE Retrigger(t)
      BY <1>d, <2>10 DEF Retrigger, At, Runs, histVars
    <2>11. CASE RetriggerFails(t)
      BY <1>g, <2>11 DEF RetriggerFails, At, Runs
    <2>12. CASE Construct \/ (\E s \in Signals : InstallHandler(s)) \/ Constructed
      BY <1>d, <2>12 DEF Construct, InstallHandler, Constructed, At, Runs, histVars
    <2>13. CASE InstallAirbag
      BY <1>d, <2>13 DEF InstallAirbag, KernelFails, At, Runs
    <2> QED
      BY <1>1, <2>1, <2>2, <2>3, <2>4, <2>5, <2>6, <2>7, <2>8, <2>9, <2>10, <2>11, <2>12, <2>13
         DEF ThreadStep, SignalHandler
  <1>2. ASSUME NEW t \in Threads, NEW s \in Signals, NEW kd, Crashes(t, s, kd)
        PROVE  alive /\ UNCHANGED reported /\ (alive' => UNCHANGED attached)
    BY <1>2, <1>d DEF Crashes, At, Runs, histVars
  <1>3. CASE OpenNativeAirbag
    BY <1>3, <1>d DEF OpenNativeAirbag, At, Runs, histVars
  <1>4. CASE Kill
    BY <1>4, <1>g DEF Kill
  <1> QED
    BY <1>1, <1>2, <1>3, <1>4 DEF AppStep

\* The list of the threads: those before the counter stay stopped.
LEMMA HeldKept ==
    ASSUME CoreInv, HeldSoFar, [Next]_vars
    PROVE  HeldSoFar'
  <1>0. DumpShape /\ DumpTypes /\ FileShape /\ ProcTypes /\ StolenStopped
    BY DEF CoreInv, ThreadInv, DumpShape
  <1>t. tids \in Seq(Threads) /\ k \in Nat
    BY <1>0 DEF DumpTypes
  <1>1. CASE AppStep
    <2>1. /\ UNCHANGED <<tids, k>> /\ (dpc' = dpc \/ dpc' = "entry")
          /\ alive /\ (alive' => UNCHANGED attached)
      BY <1>0, <1>1, AppStepEffect, AppAlive DEF AppEffect
    <2> QED
      BY <2>1 DEF HeldSoFar, Reading
  <1>2. CASE ChildStep
    <2>0. ChildEffect
      BY <1>0, <1>2, ChildStepEffect
    <2>a. alive' <=> alive
      BY <2>0 DEF ChildEffect, alive
    <2>1. CASE ThreadEntry \/ WaitForContinueSignal \/ ChildKilled
      <3>1. dpc' \in {"read", "init", "off"}
        BY <2>1 DEF ThreadEntry, WaitForContinueSignal, ChildKilled
      <3> QED
        BY <3>1 DEF HeldSoFar, Reading
    <2>2. CASE Suspend
      <3>1. /\ dpc = "suspend" /\ k \in 1..Len(tids) /\ dpc' = dpc
            /\ \/ alive /\ attached' = attached \cup {tids[k]} /\ k' = k + 1 /\ tids' = tids
               \/ tids' = RemoveAt(tids, k) /\ attached' = attached /\ k' = k
        BY <1>0, <2>2, SuspendOutcome DEF FileShape
      <3>2. /\ Len(RemoveAt(tids, k)) = Len(tids) - 1
            /\ \A j \in 1..(k - 1) : RemoveAt(tids, k)[j] = tids[j]
        BY <1>t, <3>1, ThreadDropped
      <3>3. SUFFICES ASSUME alive, NEW i \in 1..Len(tids'), i < k' PROVE tids'[i] \in attached'
        BY <2>a, <3>1 DEF HeldSoFar, Reading
      <3>4. \A j \in 1..Len(tids) : j < k => tids[j] \in attached
        BY <3>1, <3>3 DEF HeldSoFar
      <3>5. CASE attached' = attached \cup {tids[k]} /\ k' = k + 1 /\ tids' = tids
        BY <1>t, <3>1, <3>3, <3>4, <3>5
      <3>6. CASE tids' = RemoveAt(tids, k) /\ attached' = attached /\ k' = k
        <4>1. i \in 1..(k - 1) /\ i \in 1..Len(tids)
          BY <1>t, <3>1, <3>2, <3>3, <3>6
        <4>2. tids'[i] = tids[i] /\ i < k
          BY <3>2, <3>3, <3>6, <4>1
        <4> QED
          BY <3>4, <3>6, <4>1, <4>2
      <3> QED
        BY <3>1, <3>5, <3>6
    <2>3. CASE Writes
      <3>1. WriterEffect
        BY <1>0, <2>3, WriterStepEffect DEF Writes
      <3>2. CASE dpc' = "suspend"
        <4>1. k' = 1
          BY <3>1, <3>2 DEF WriterEffect
        <4> QED
          BY <3>2, <4>1 DEF HeldSoFar, Reading
      <3>3. CASE dpc' \in {"open"} \cup Reading
        <4>1. UNCHANGED <<tids, attached>> /\ (dpc \in {"open"} \cup Reading \/ (dpc = "suspend" /\ k > Len(tids)))
          BY <3>1, <3>3 DEF WriterEffect, Reading
        <4>2. ASSUME alive, NEW i \in 1..Len(tids) PROVE tids[i] \in attached
          BY <1>t, <4>1, <4>2 DEF HeldSoFar
        <4>3. dpc' # "suspend"
          BY <3>3 DEF Reading
        <4> QED
          BY <2>a, <4>1, <4>2, <4>3 DEF HeldSoFar
      <3>4. CASE dpc' \notin {"open", "suspend"} \cup Reading
        BY <3>4 DEF HeldSoFar
      <3> QED
        BY <3>2, <3>3, <3>4
    <2> QED
      BY <1>2, <2>1, <2>2, <2>3 DEF ChildStep, DumpProcess
  <1>3. CASE UNCHANGED vars
    BY <1>3 DEF vars, dumpVars, procVars, HeldSoFar, alive
  <1> QED
    BY <1>1, <1>2, <1>3 DEF Next, AppStep, ChildStep, Over

\* While a living process is read, every thread in the dump is stopped: ThreadsSuspend takes
\* the counter back when it drops a thread, so that none is passed over.
THEOREM SnapshotIsStill == Spec => []ThreadsHeldStill
  <1>1. Init => CoreInv /\ HeldSoFar
    <2>1. Init => HeldSoFar
      BY DEF Init, DumpInit, HeldSoFar, Reading
    <2> QED
      BY <2>1, CoreInit
  <1>2. CoreInv /\ HeldSoFar /\ [Next]_vars => CoreInv' /\ HeldSoFar'
    BY CoreStep, HeldKept
  <1>3. CoreInv /\ HeldSoFar => ThreadsHeldStill
    BY DEF HeldSoFar, ThreadsHeldStill
  <1> QED
    BY <1>1, <1>2, <1>3, PTL DEF Spec

\* Once a dump is reported, it is complete and nothing touches it.
LEMMA ReportKept ==
    ASSUME CoreInv, ReportedDone, [Next]_vars
    PROVE  ReportedDone' /\ (reported # NoCrash => UNCHANGED <<w, dir, created, reported>>)
  <1>0. DumpShape /\ DumpTypes /\ FileShape /\ ProcTypes /\ StolenStopped
    BY DEF CoreInv, ThreadInv, DumpShape
  <1>w. w \in Writer /\ w.position \in Nat
    BY <1>0 DEF DumpTypes, Writer
  \* Nothing happens to the file, and the stage is not one that writes it.
  <1>q. ASSUME UNCHANGED <<w, dir, created, reported>>, dpc' = dpc \/ dpc' \notin Reading \cup {"resume"}
        PROVE  ReportedDone' /\ (reported # NoCrash => UNCHANGED <<w, dir, created, reported>>)
    BY <1>q DEF ReportedDone
  <1>1. CASE AppStep
    <2>1. UNCHANGED <<w, dir, created, reported>> /\ (dpc' = dpc \/ dpc' = "entry")
      BY <1>0, <1>1, AppStepEffect, AppAlive DEF AppEffect
    <2> QED
      BY <1>q, <2>1 DEF Reading
  <1>2. CASE ThreadEntry \/ WaitForContinueSignal
    BY <1>2, <1>q DEF ThreadEntry, WaitForContinueSignal, Reading
  <1>3. CASE Suspend
    <2>1. UNCHANGED <<dpc, w, created, dir>>
      BY <1>0, <1>3, SuspendOutcome DEF FileShape
    <2>2. UNCHANGED reported
      BY <1>3 DEF Suspend
    <2> QED
      BY <1>q, <2>1, <2>2
  <1>4. CASE Writes
    <2>0. WriterEffect
      BY <1>0, <1>4, WriterStepEffect DEF Writes
    <2>r. reported' = IF verdict' = "ok" /\ verdict # "ok" THEN cctx ELSE reported
      BY <1>4 DEF Writes
    <2>1. CASE reported # NoCrash
      <3>1. created /\ dpc \notin Reading \cup {"resume"} /\ w.position > 0
        BY <2>1 DEF ReportedDone
      <3>2. w # NewFile
        BY <3>1 DEF NewFile
      <3>3. UNCHANGED <<w, dir, created>> /\ dpc' \notin Reading \cup {"resume"}
        BY <2>0, <3>1, <3>2 DEF WriterEffect
      <3>4. verdict' = "fail" \/ verdict' = verdict
        BY <2>0, <3>1 DEF WriterEffect
      <3>5. reported' = reported
        BY <2>r, <3>4
      <3> QED
        BY <1>q, <3>3, <3>5
    <2>2. CASE reported = NoCrash
      <3>1. SUFFICES ASSUME reported' # NoCrash
                     PROVE  created' /\ dpc' \notin Reading \cup {"resume"} /\ w'.position > 0
        BY <2>2 DEF ReportedDone
      <3>2. verdict' = "ok" /\ verdict # "ok"
        BY <2>2, <2>r, <3>1
      <3>3. dpc = "resume"
        BY <2>0, <3>2 DEF WriterEffect
      <3>4. w' = Close(w) /\ created' = created /\ dpc' = "off"
        BY <2>0, <3>3 DEF WriterEffect
      <3>5. created /\ w.position > 0
        BY <1>0, <3>3 DEF FileShape
      <3>6. w'.position = w.position
        BY <1>w, <3>4, CloseWriter
      <3> QED
        BY <3>4, <3>5, <3>6 DEF Reading
    <2> QED
      BY <2>1, <2>2
  <1>5. CASE ChildKilled
    <2>1. dpc' = "off" /\ UNCHANGED <<created, reported>>
      BY <1>5 DEF ChildKilled
    <2>2. dpc \notin Reading => UNCHANGED <<w, dir>>
      BY <1>5 DEF ChildKilled
    <2>3. CASE reported # NoCrash
      <3>1. dpc \notin Reading
        BY <2>3 DEF ReportedDone
      <3> QED
        BY <1>q, <2>1, <2>2, <3>1 DEF Reading
    <2>4. CASE reported = NoCrash
      BY <2>1, <2>4 DEF ReportedDone
    <2> QED
      BY <2>3, <2>4
  <1>6. CASE UNCHANGED vars
    BY <1>6, <1>q DEF vars, dumpVars, histVars
  <1> QED
    BY <1>1, <1>2, <1>3, <1>4, <1>5, <1>6 DEF Next, AppStep, DumpProcess, Over

\* A dump that was reported as written is never written again: a second crash, whose handler
\* was waiting for the mutex, starts a dump process that finds the file and fails.
THEOREM ReportsAreFinal == Spec => ReportIsFinal
  <1>1. Init => CoreInv /\ ReportedDone
    <2>1. Init => ReportedDone
      BY DEF Init, ReportedDone
    <2> QED
      BY <2>1, CoreInit
  <1>2. CoreInv /\ ReportedDone /\ [Next]_vars => CoreInv' /\ ReportedDone'
    BY CoreStep, ReportKept
  <1>3. CoreInv /\ ReportedDone /\ [Next]_vars =>
            [reported # NoCrash => UNCHANGED <<w, dir, created, reported>>]_vars
    BY ReportKept
  <1> QED
    BY <1>1, <1>2, <1>3, PTL DEF Spec, ReportIsFinal

\* The handshake, with the thread that started the dump process.
HandInv == DumpOwned /\ Handshake /\ AttachAllowed

\* A step of a thread outside the dump leaves the handshake alone.
LEMMA HandUnmoved ==
    ASSUME ThreadInv, HandInv, NEW t \in Threads, NEW p, Moves(t, p), pc[t] \notin Dumping,
           p \notin {"continue", "wait"}, UNCHANGED <<dpc, pipe, ptracer, cause>>,
           mutex' = mutex \/ dpc = "off"
    PROVE  HandInv'
  <1>1. DumpOwned'
    BY DEF HandInv, DumpOwned, Moves, alive
  <1>2. Handshake'
    BY DEF HandInv, Handshake, Moves, Dumping
  <1>3. AttachAllowed'
    BY DEF HandInv, AttachAllowed, alive
  <1> QED
    BY <1>1, <1>2, <1>3 DEF HandInv

\* The crashed process keeps the handshake.
LEMMA AppHand ==
    ASSUME CoreInv, HandInv, AppStep
    PROVE  HandInv'
  <1>0. ThreadInv /\ ProcTypes /\ MutexHeld /\ DumpOwned /\ Handshake /\ AttachAllowed
    BY DEF CoreInv, ThreadInv, HandInv
  <1>n. "nobody" \notin Threads /\ Main \in Threads
    BY MainAssumption
  <1>p. {"install", "run", "open", "signal", "airbag", "lock", "generate", "allow", "continue",
         "wait", "restore", "default", "retrigger"} \subseteq Places
    BY DEF Places, HandlerStages
  <1>m. \A t \in Threads, p \in Places : Goto(t, p) => Moves(t, p)
    BY <1>0, GotoMoves
  <1>d. UNCHANGED dumpVars => UNCHANGED dpc
    BY DEF dumpVars
  <1>g. ASSUME NEW why \in {"signal", "kill", "exit"}, Gone(why) PROVE HandInv'
    <2>1. UNCHANGED <<pipe, ptracer>> /\ ~alive' /\ \A t \in Threads : pc'[t] = "gone"
      BY <1>g, GoneOutcome DEF alive
    <2> QED
      BY <1>0, <2>1 DEF HandInv, DumpOwned, Handshake, AttachAllowed
  \* A thread inside the handler, but not waiting for the dump process, means there is none.
  <1>o. ASSUME NEW t \in Threads, alive, pc[t] \in Locked \ Dumping PROVE dpc = "off"
    <2>1. mutex = t
      BY <1>0, <1>o DEF MutexHeld
    <2> QED
      BY <1>0, <1>o, <2>1 DEF DumpOwned
  <1>1. ASSUME NEW t \in Threads, ThreadStep(t)
        PROVE  HandInv'
    <2>1. CASE Deliver(t)
      <3>1. PICK p \in {"lock", "airbag"} : Moves(t, p)
        BY <1>m, <1>p, <2>1 DEF Deliver
      <3>2. pc[t] \notin Dumping /\ UNCHANGED <<dpc, pipe, ptracer, cause, mutex>>
        BY <1>d, <2>1 DEF Deliver, At, Dumping, pipeVars, procVars, handlerVars
      <3> QED
        BY <1>0, <3>1, <3>2, HandUnmoved
    <2>2. CASE Die(t)
      BY <1>g, <2>2 DEF Die
    <2>3. CASE AirbagHandler(t)
      <3>1. PICK p \in {"run", "signal"} : Moves(t, p)
        BY <1>m, <1>p, <2>3 DEF AirbagHandler
      <3>2. pc[t] \notin Dumping /\ UNCHANGED <<dpc, pipe, ptracer, cause, mutex>>
        BY <1>d, <2>3 DEF AirbagHandler, At, Dumping, pipeVars, procVars
      <3> QED
        BY <1>0, <3>1, <3>2, HandUnmoved
    <2>4. CASE HandleSignal(t)
      <3>1. Moves(t, "generate") /\ pc[t] \notin Dumping /\ UNCHANGED <<dpc, pipe, ptracer, cause>>
        BY <1>d, <1>m, <1>p, <2>4 DEF HandleSignal, At, Dumping, pipeVars, procVars
      <3>2. mutex = "nobody" /\ alive
        BY <2>4 DEF HandleSignal, At, Runs
      <3>3. dpc = "off"
        BY <1>0, <1>n, <3>2 DEF DumpOwned
      <3> QED
        BY <1>0, <3>1, <3>3, HandUnmoved
    <2>5. CASE GenerateDump(t)
      <3>1. pc[t] = "generate" /\ alive /\ UNCHANGED <<cause, mutex>>
        BY <2>5 DEF GenerateDump, At, Runs, procVars, handlerVars
      <3>2. dpc = "off" /\ mutex = t
        BY <1>0, <1>o, <3>1 DEF Locked, Dumping, MutexHeld
      <3>3. CASE \E made \in BOOLEAN :
                   /\ pipe' = [made |-> made, byte |-> FALSE, childW |-> made]
                   /\ ptracer' = FALSE /\ dpc' = "entry" /\ Goto(t, "allow")
        <4>1. Moves(t, "allow") /\ pipe'.byte = FALSE /\ dpc' = "entry"
          BY <1>m, <1>p, <3>3
        <4>2. ASSUME NEW u \in Threads PROVE pc'[u] \notin {"continue", "wait"}
          <5>1. u # t => pc[u] \notin Locked
            BY <1>0, <3>2 DEF MutexHeld
          <5> QED
            BY <4>1, <5>1 DEF Moves, Locked
        <4>3. DumpOwned'
          BY <3>1, <3>2, <4>1 DEF DumpOwned, Moves, Dumping
        <4>4. Handshake' /\ AttachAllowed'
          BY <4>1, <4>2 DEF Handshake, AttachAllowed
        <4> QED
          BY <4>3, <4>4 DEF HandInv
      <3>4. CASE KernelFails /\ Goto(t, "restore") /\ UNCHANGED pipeVars
        <4>1. Moves(t, "restore") /\ pc[t] \notin Dumping /\ UNCHANGED <<dpc, pipe, ptracer>>
          BY <1>m, <1>p, <3>1, <3>4 DEF Dumping, pipeVars, KernelFails
        <4> QED
          BY <1>0, <3>1, <4>1, HandUnmoved
      <3> QED
        BY <2>5, <3>3, <3>4 DEF GenerateDump
    <2>6. CASE AllowPtrace(t)
      <3>1. /\ Moves(t, "continue") /\ pc[t] = "allow" /\ alive /\ ptracer' = TRUE
            /\ UNCHANGED <<dpc, pipe, cause, mutex>>
        BY <1>d, <1>m, <1>p, <2>6 DEF AllowPtrace, At, Runs, procVars, handlerVars
      <3>2. mutex = t
        BY <1>0, <3>1 DEF MutexHeld, Locked
      <3> QED
        BY <3>1, <3>2 DEF HandInv, DumpOwned, Handshake, AttachAllowed, Moves, Dumping
    <2>7. CASE SendContinueSignalToChild(t)
      <3>1. /\ Moves(t, "wait") /\ pc[t] = "continue" /\ alive
            /\ pipe' = [pipe EXCEPT !.byte = pipe.made]
            /\ UNCHANGED <<dpc, ptracer, cause, mutex>>
        BY <1>d, <1>m, <1>p, <2>7 DEF SendContinueSignalToChild, At, Runs, procVars, handlerVars
      <3>2. mutex = t
        BY <1>0, <3>1 DEF MutexHeld, Locked
      <3>3. ptracer
        BY <1>0, <3>1 DEF Handshake
      <3> QED
        BY <3>1, <3>2, <3>3 DEF HandInv, DumpOwned, Handshake, AttachAllowed, Moves, Dumping
    <2>8. CASE WaitChild(t)
      <3>1. PICK p \in {"default", "restore"} : Moves(t, p)
        BY <1>m, <1>p, <2>8 DEF WaitChild
      <3>2. dpc = "off" /\ UNCHANGED <<dpc, pipe, ptracer, cause>>
        BY <1>d, <2>8 DEF WaitChild, pipeVars, procVars
      <3> QED
        BY <1>0, <3>1, <3>2 DEF HandInv, DumpOwned, Handshake, AttachAllowed, Moves
    <2>9. CASE Restore(t)
      <3>1. /\ Moves(t, "retrigger") /\ pc[t] \in {"restore", "default"} /\ alive
            /\ UNCHANGED <<dpc, pipe, ptracer, cause>>
        BY <1>d, <1>m, <1>p, <2>9 DEF Restore, Runs, pipeVars, procVars
      <3>2. dpc = "off" /\ pc[t] \notin Dumping
        BY <1>o, <3>1 DEF Locked, Dumping
      <3> QED
        BY <1>0, <3>1, <3>2, HandUnmoved
    <2>10. CASE Retrigger(t)
      <3>1. Moves(t, "signal") /\ pc[t] \notin Dumping /\ UNCHANGED <<dpc, pipe, ptracer, cause, mutex>>
        BY <1>d, <1>m, <1>p, <2>10 DEF Retrigger, At, Dumping, pipeVars, procVars, handlerVars
      <3> QED
        BY <1>0, <3>1, HandUnmoved
    <2>11. CASE RetriggerFails(t)
      BY <1>g, <2>11 DEF RetriggerFails
    <2>12. CASE Construct
      <3>1. Moves(Main, "install") /\ pc[Main] \notin Dumping /\ UNCHANGED <<dpc, pipe, ptracer, cause>>
        BY <1>d, <1>m, <1>n, <1>p, <2>12 DEF Construct, At, Dumping, pipeVars, procVars
      <3>2. mutex = "nobody" /\ alive
        BY <2>12 DEF Construct, At, Runs
      <3>3. dpc = "off"
        BY <1>0, <1>n, <3>2 DEF DumpOwned
      <3> QED
        BY <1>0, <1>n, <3>1, <3>3, HandUnmoved
    <2>13. ASSUME NEW s \in Signals, InstallHandler(s) PROVE HandInv'
      <3>1. UNCHANGED <<dpc, pipe, ptracer, cause, mutex, pc>>
        BY <1>d, <2>13 DEF InstallHandler, pipeVars, procVars, threadVars
      <3> QED
        BY <3>1 DEF HandInv, DumpOwned, Handshake, AttachAllowed, alive
    <2>14. CASE Constructed
      <3>1. Moves(Main, "run") /\ pc[Main] = "install" /\ alive /\ UNCHANGED <<dpc, pipe, ptracer, cause>>
        BY <1>d, <1>m, <1>n, <1>p, <2>14 DEF Constructed, At, Runs, pipeVars, procVars
      <3>2. dpc = "off" /\ pc[Main] \notin Dumping
        BY <1>n, <1>o, <3>1 DEF Locked, Dumping
      <3> QED
        BY <1>0, <1>n, <3>1, <3>2, HandUnmoved
    <2>15. CASE InstallAirbag
      <3>1. Moves(Main, "run") /\ pc[Main] \notin Dumping /\ UNCHANGED <<pipe, ptracer, cause, mutex>>
        BY <1>m, <1>n, <1>p, <2>15 DEF InstallAirbag, At, Dumping, pipeVars, procVars
      <3>2. UNCHANGED dpc
        BY <1>d, <2>15 DEF InstallAirbag, KernelFails
      <3> QED
        BY <1>0, <1>n, <3>1, <3>2, HandUnmoved
    <2> QED
      BY <1>1, <2>1, <2>2, <2>3, <2>4, <2>5, <2>6, <2>7, <2>8, <2>9, <2>10, <2>11, <2>12, <2>13,
         <2>14, <2>15 DEF ThreadStep, SignalHandler
  <1>2. ASSUME NEW t \in Threads, NEW s \in Signals, NEW kd \in {"fault", "raise"}, Crashes(t, s, kd)
        PROVE  HandInv'
    <2>1. Moves(t, "signal") /\ pc[t] \notin Dumping /\ UNCHANGED <<dpc, pipe, ptracer, cause, mutex>>
      BY <1>2, <1>d, <1>m, <1>p DEF Crashes, At, Dumping, pipeVars, procVars, handlerVars
    <2> QED
      BY <1>0, <2>1, HandUnmoved
  <1>3. CASE OpenNativeAirbag
    <2>1. Moves(Main, "open") /\ pc[Main] \notin Dumping /\ UNCHANGED <<dpc, pipe, ptracer, cause, mutex>>
      BY <1>3, <1>d, <1>m, <1>n, <1>p DEF OpenNativeAirbag, At, Dumping, pipeVars, procVars, handlerVars
    <2> QED
      BY <1>0, <1>n, <2>1, HandUnmoved
  <1>4. CASE Kill
    BY <1>4, <1>g DEF Kill
  <1> QED
    BY <1>1, <1>2, <1>3, <1>4 DEF AppStep

\* So does every step.
LEMMA HandKept ==
    ASSUME CoreInv, HandInv, [Next]_vars
    PROVE  HandInv'
  <1>0. DumpShape /\ DumpTypes /\ FileShape /\ ProcTypes /\ StolenStopped
    BY DEF CoreInv, ThreadInv, DumpShape
  <1>1. CASE AppStep
    BY <1>1, AppHand
  <1>2. CASE ChildStep
    <2>0. ChildEffect
      BY <1>0, <1>2, ChildStepEffect
    <2>1. DumpOwned'
      BY <2>0 DEF ChildEffect, HandInv, DumpOwned, Dumping, alive
    <2>2. Handshake'
      BY <2>0 DEF ChildEffect, HandInv, Handshake
    <2>3. UNCHANGED <<ptracer, cause>> /\ pipe'.made = pipe.made
      BY <2>0 DEF ChildEffect
    <2>4. dpc \notin {"off", "entry", "read"} => AttachAllowed'
      <3>1. SUFFICES ASSUME dpc \notin {"off", "entry", "read"}, pipe'.made, cause' = "none"
                     PROVE  ptracer'
        BY DEF AttachAllowed, alive
      <3>2. pipe.made /\ cause = "none" /\ ptracer' = ptracer
        BY <2>3, <3>1
      <3> QED
        BY <3>1, <3>2 DEF HandInv, AttachAllowed, alive
    <2>9. AttachAllowed'
      <3>1. CASE ThreadEntry \/ ChildKilled
        BY <3>1 DEF ThreadEntry, ChildKilled, AttachAllowed
      <3>2. CASE WaitForContinueSignal
        <4>1. pipe.byte \/ ~pipe.made \/ ~alive
          BY <3>2 DEF WaitForContinueSignal, Released
        <4> QED
          BY <2>3, <4>1 DEF HandInv, Handshake, AttachAllowed, alive
      <3>3. CASE Suspend
        BY <2>4, <3>3 DEF Suspend, ThreadsSuspend
      <3>4. CASE Writes
        BY <1>0, <2>4, <3>4, WriterStepEffect DEF Writes, WriterEffect
      <3> QED
        BY <1>2, <3>1, <3>2, <3>3, <3>4 DEF ChildStep, DumpProcess
    <2> QED
      BY <2>1, <2>2, <2>9 DEF HandInv
  <1>3. CASE UNCHANGED vars
    BY <1>3 DEF vars, dumpVars, procVars, handlerVars, threadVars, pipeVars, HandInv, DumpOwned, Handshake,
                AttachAllowed, alive
  <1> QED
    BY <1>1, <1>2, <1>3 DEF Next, AppStep, ChildStep, Over

\* A dump process with a pipe touches a living process only after PR_SET_PTRACER: the byte is
\* sent by a thread that has already given the permission, and no other dump process is
\* started while that thread waits.
THEOREM AttachIsAllowed == Spec => []AttachAllowed
  <1>1. Init => CoreInv /\ HandInv
    <2>1. Init => HandInv
      BY DEF Init, DumpInit, HandInv, DumpOwned, Handshake, AttachAllowed
    <2> QED
      BY <2>1, CoreInit
  <1>2. CoreInv /\ HandInv /\ [Next]_vars => CoreInv' /\ HandInv'
    BY CoreStep, HandKept
  <1>3. HandInv => AttachAllowed
    BY DEF HandInv
  <1> QED
    BY <1>1, <1>2, <1>3, PTL DEF Spec

-----------------------------------------------------------------------------
(* How the process dies. *)

\* The handlers, from the constructor to the restoring, and the death of the process.
OrderInv == NoDefault /\ Starting /\ Installed /\ RestoredOnce /\ Contexts /\ DeathIsOrderly

\* Who handles a signal holds the mutex.
LEMMA HandlingLocked == Handling \subseteq Locked /\ Dumping \subseteq Handling
  BY DEF Handling, Locked, Dumping

\* A pair is not the empty sequence.
LEMMA PairNotEmpty == \A x, y : <<x, y>> # NoCrash
  BY DEF NoCrash

\* A step of one thread that leaves the handlers alone.
LEMMA OrderMoved ==
    ASSUME CoreInv, OrderInv, NEW t \in Threads, NEW p, Moves(t, p), alive, UNCHANGED cause,
           UNCHANGED <<disp, old_handlers, handlers_installed, old, first, tampered, mutex, ctx>>,
           UNCHANGED <<dpc, cctx>> \/ cctx' = ctx,
           \A u \in Threads : u # t => sig'[u] = sig[u],
           sig'[t] = sig[t] \/ (mutex # t /\ p \notin Handling \cup {"lock"}),
           pc[t] \notin {"ctor", "install"}, p \notin {"default", "ctor", "install"},
           p = "airbag" => pc[Main] \notin {"ctor", "install"} /\ (handlers_installed => old # "system"),
           p \in HandlerStages => pc[Main] # "ctor",
           p = "lock" => first = NoCrash \/ handlers_installed \/ tampered,
           p \in Handling => pc[t] \in Handling
    PROVE  OrderInv'
  <1>0. NoDefault /\ Starting /\ Installed /\ RestoredOnce /\ Contexts /\ MutexHeld
    BY DEF OrderInv, CoreInv, ThreadInv
  <1>m. pc'[t] = p /\ (\A u \in Threads : u # t => pc'[u] = pc[u]) /\ Main \in Threads
    BY MainAssumption DEF Moves
  <1>1. NoDefault'
    BY <1>0, <1>m DEF NoDefault
  <1>2. Starting'
    <2>1. pc'[Main] \in {"ctor", "install"} => pc'[Main] = pc[Main] /\ t # Main
      BY <1>m
    <2>2. pc[Main] \in {"ctor", "install"} => pc'[Main] = pc[Main] /\ t # Main
      BY <1>m
    <2>3. ASSUME pc'[Main] \in {"ctor", "install"}, NEW u \in Threads PROVE pc'[u] # "airbag"
      BY <1>0, <1>m, <2>1, <2>3 DEF Starting
    <2>4. ASSUME pc'[Main] = "ctor", NEW u \in Threads PROVE pc'[u] \notin HandlerStages
      BY <1>0, <1>m, <2>1, <2>4 DEF Starting
    <2> QED
      BY <1>0, <2>1, <2>2, <2>3, <2>4 DEF Starting, alive
  <1>3. Installed'
    <2>1. ASSUME handlers_installed, old = "system", NEW u \in Threads PROVE pc'[u] # "airbag"
      BY <1>0, <1>m, <2>1 DEF Installed
    <2>2. mutex \in Threads => sig'[mutex] = sig[mutex]
      OBVIOUS
    <2> QED
      BY <1>0, <2>1, <2>2 DEF Installed
  <1>4. RestoredOnce'
    <2> SUFFICES ASSUME first # NoCrash, ~handlers_installed, ~tampered
                 PROVE  /\ \A s \in Signals : disp[s] = "system"
                        /\ \A u \in Threads : pc'[u] \in Handling \cup {"lock"} => <<u, sig'[u]>> # first
      BY DEF RestoredOnce
    <2>1. ASSUME NEW u \in Threads, pc'[u] \in Handling \cup {"lock"} PROVE <<u, sig'[u]>> # first
      <3>1. CASE u # t
        BY <1>0, <1>m, <2>1, <3>1 DEF RestoredOnce
      <3>2. CASE u = t
        <4>1. pc[t] \in Handling /\ sig'[t] = sig[t]
          BY <1>m, <2>1, <3>2
        <4> QED
          BY <1>0, <3>2, <4>1 DEF RestoredOnce
      <3> QED
        BY <3>1, <3>2
    <2> QED
      BY <1>0, <2>1 DEF RestoredOnce
  <1>5. Contexts'
    <2>1. ASSUME NEW u \in Threads, pc'[u] \in Handling PROVE first # NoCrash /\ ctx = <<u, sig'[u]>>
      <3>1. pc[u] \in Handling /\ sig'[u] = sig[u]
        BY <1>m, <2>1
      <3> QED
        BY <1>0, <3>1 DEF Contexts
    <2>2. dpc' # "off" => cctx' = ctx
      BY <1>0 DEF Contexts
    <2> QED
      BY <2>1, <2>2 DEF Contexts
  <1>6. DeathIsOrderly'
    BY DEF DeathIsOrderly, alive
  <1> QED
    BY <1>1, <1>2, <1>3, <1>4, <1>5, <1>6 DEF OrderInv

\* The constructor.
LEMMA ConstructorOrder ==
    ASSUME CoreInv, HandInv, OrderInv,
           Construct \/ (\E s \in Signals : InstallHandler(s)) \/ Constructed
    PROVE  OrderInv'
  <1>0. NoDefault /\ Starting /\ Installed /\ RestoredOnce /\ Contexts /\ MutexHeld /\ ProcTypes
    BY DEF OrderInv, CoreInv, ThreadInv
  <1>m. Main \in Threads /\ "nobody" \notin Threads
    BY MainAssumption
  <1>d. UNCHANGED dumpVars => UNCHANGED <<dpc, cctx>>
    BY DEF dumpVars
  <1>s. ASSUME pc[Main] \in {"ctor", "install"}, NEW u \in Threads PROVE pc[u] \notin Handling
    BY <1>0, <1>s DEF Starting, Contexts
  <1>1. CASE Construct
    <2>1. /\ Moves(Main, "install") /\ pc[Main] = "ctor" /\ alive /\ old_handlers' = disp
          /\ UNCHANGED <<cause, disp, handlers_installed, sig, ctx, old, first, tampered, dpc, cctx>>
      BY <1>0, <1>1, <1>d, <1>m, GotoMoves
         DEF Construct, At, Runs, procVars, airbagVars, histVars, Places
    <2>2. /\ first = NoCrash /\ ~handlers_installed /\ old = "system"
          /\ (\A s \in Signals : disp[s] = "system") /\ \A u \in Threads : pc[u] # "airbag"
      BY <1>0, <2>1 DEF Starting
    <2>3. pc'[Main] = "install" /\ \A u \in Threads : u # Main => pc'[u] = pc[u]
      BY <2>1 DEF Moves
    <2>4. NoDefault'
      BY <1>0, <2>1, <2>2, <2>3 DEF NoDefault
    <2>5. Starting'
      BY <1>0, <2>1, <2>2, <2>3 DEF Starting
    <2>6. Installed' /\ RestoredOnce' /\ DeathIsOrderly'
      BY <2>1, <2>2 DEF Installed, RestoredOnce, DeathIsOrderly, alive
    <2>7. \A u \in Threads : pc'[u] \notin Handling
      BY <1>s, <2>1, <2>3 DEF Handling
    <2>8. Contexts'
      BY <1>0, <2>1, <2>7 DEF Contexts
    <2> QED
      BY <2>4, <2>5, <2>6, <2>8 DEF OrderInv
  <1>2. ASSUME NEW s \in Signals, InstallHandler(s) PROVE OrderInv'
    <2>1. /\ pc[Main] = "install" /\ alive /\ disp' = [disp EXCEPT ![s] = "breakpad"]
          /\ UNCHANGED <<cause, old_handlers, handlers_installed, pc, sig, ctx, old, first, tampered, dpc, cctx>>
      BY <1>2, <1>d DEF InstallHandler, At, Runs, procVars, threadVars, airbagVars, histVars
    <2>2. first = NoCrash /\ ~handlers_installed /\ \A u \in Signals : disp[u] \in {"system", "breakpad"}
      BY <1>0, <2>1 DEF Starting
    <2>3. \A u \in Signals : disp'[u] = disp[u] \/ disp'[u] = "breakpad"
      BY <1>0, <2>1 DEF ProcTypes
    <2>4. NoDefault'
      BY <1>0, <2>1, <2>3 DEF NoDefault
    <2>5. Starting'
      BY <1>0, <2>1, <2>2, <2>3 DEF Starting
    <2>6. Installed' /\ RestoredOnce' /\ DeathIsOrderly'
      BY <2>1, <2>2 DEF Installed, RestoredOnce, DeathIsOrderly, alive
    <2>7. Contexts'
      BY <1>0, <2>1 DEF Contexts
    <2> QED
      BY <2>4, <2>5, <2>6, <2>7 DEF OrderInv
  <1>3. CASE Constructed
    <2>1. /\ Moves(Main, "run") /\ pc[Main] = "install" /\ alive /\ handlers_installed' = TRUE
          /\ UNCHANGED <<cause, disp, old_handlers, sig, ctx, old, first, tampered, dpc, cctx>>
          /\ \A s \in Signals : disp[s] = "breakpad"
      BY <1>0, <1>3, <1>d, <1>m, GotoMoves
         DEF Constructed, At, Runs, procVars, airbagVars, histVars, Places
    <2>2. first = NoCrash /\ old = "system" /\ \A u \in Threads : pc[u] # "airbag"
      BY <1>0, <2>1 DEF Starting
    <2>3. pc'[Main] = "run" /\ \A u \in Threads : u # Main => pc'[u] = pc[u]
      BY <2>1 DEF Moves
    <2>4. NoDefault'
      BY <1>0, <2>1, <2>2, <2>3 DEF NoDefault
    <2>5. Starting'
      BY <2>1, <2>3 DEF Starting
    <2>6. Installed'
      BY <2>1, <2>2, <2>3 DEF Installed
    <2>7. RestoredOnce' /\ DeathIsOrderly'
      BY <2>1 DEF RestoredOnce, DeathIsOrderly, alive
    <2>8. \A u \in Threads : pc'[u] \notin Handling
      BY <1>s, <2>1, <2>3 DEF Handling
    <2>9. Contexts'
      BY <1>0, <2>1, <2>8 DEF Contexts
    <2> QED
      BY <2>4, <2>5, <2>6, <2>7, <2>9 DEF OrderInv
  <1> QED
    BY <1>1, <1>2, <1>3

\* A process that is gone has no handlers.
LEMMA GoneOrder ==
    ASSUME NEW why \in {"signal", "kill", "exit"}, Gone(why), DeathIsOrderly'
    PROVE  OrderInv'
  <1>1. /\ ~alive' /\ handlers_installed' = FALSE /\ old' = "system"
        /\ \A s \in Signals : disp'[s] = "system" /\ old_handlers'[s] = "system"
        /\ \A t \in Threads : pc'[t] = "gone"
    BY GoneOutcome DEF alive
  <1>2. NoDefault'
    BY <1>1 DEF NoDefault
  <1>3. Starting' /\ Installed' /\ RestoredOnce' /\ Contexts'
    BY <1>1, MainAssumption DEF Starting, Installed, RestoredOnce, Contexts, Handling
  <1> QED
    BY <1>2, <1>3 DEF OrderInv

\* A signal kills the process through the system's handler, and never under the dump of the
\* first crash: while that dump is written the handlers are still installed.
LEMMA DieOrder ==
    ASSUME CoreInv, HandInv, OrderInv, NEW t \in Threads, Die(t)
    PROVE  OrderInv'
  <1>0. /\ NoDefault /\ Installed /\ RestoredOnce /\ Contexts /\ MutexHeld /\ SignalKnown /\ DumpOwned
        /\ ProcTypes
    BY DEF OrderInv, CoreInv, ThreadInv, HandInv
  <1>1. /\ alive /\ pc[t] = "signal" /\ disp[sig[t]] \in {"system", "default"} /\ Gone("signal")
        /\ tombstone' = (disp[sig[t]] = "system")
    BY DEF Die, At, Runs
  <1>2. sig[t] \in Signals
    BY <1>0, <1>1 DEF SignalKnown
  <1>3. disp[sig[t]] = "system"
    BY <1>0, <1>1, <1>2 DEF NoDefault
  <1>4. UNCHANGED <<dpc, cctx, first, tampered>>
    BY <1>1, GoneOutcome
  <1>5. ASSUME cctx = first, first # NoCrash, ~tampered, dpc # "off" PROVE FALSE
    <2>1. mutex \in Threads /\ pc[mutex] \in Handling
      BY <1>0, <1>1, <1>5, HandlingLocked DEF DumpOwned
    <2>2. first = <<mutex, sig[mutex]>>
      BY <1>0, <1>1, <1>5, <2>1 DEF Contexts
    <2>3. handlers_installed
      BY <1>0, <1>1, <1>5, <2>1, <2>2 DEF RestoredOnce
    <2>4. disp[sig[t]] \in {"breakpad", "airbag"}
      BY <1>0, <1>2, <2>3 DEF Installed
    <2> QED
      BY <1>3, <2>4
  <1>6. tombstone'
    BY <1>1, <1>3
  <1>7. DeathIsOrderly'
    BY <1>4, <1>5, <1>6 DEF DeathIsOrderly
  <1> QED
    BY <1>1, <1>7, GoneOrder

\* The handler takes the mutex.
LEMMA HandleOrder ==
    ASSUME CoreInv, HandInv, OrderInv, NEW t \in Threads, HandleSignal(t)
    PROVE  OrderInv'
  <1>0. /\ NoDefault /\ Starting /\ Installed /\ RestoredOnce /\ Contexts /\ MutexHeld /\ DumpOwned
        /\ ProcTypes
    BY DEF OrderInv, CoreInv, ThreadInv, HandInv
  <1>n. Main \in Threads /\ "nobody" \notin Threads
    BY MainAssumption
  <1>1. /\ Moves(t, "generate") /\ pc[t] = "lock" /\ alive /\ mutex = "nobody" /\ mutex' = t
        /\ ctx' = <<t, sig[t]>> /\ first' = IF first = NoCrash THEN ctx' ELSE first
    BY <1>0, GotoMoves DEF HandleSignal, At, Runs, Places, HandlerStages
  <1>2. UNCHANGED <<cause, disp, old_handlers, handlers_installed, sig, old, tampered, dpc, cctx>>
    BY DEF HandleSignal, procVars, airbagVars, dumpVars
  <1>3. dpc = "off"
    BY <1>0, <1>1, <1>n DEF DumpOwned
  <1>4. pc[Main] \notin {"ctor", "install"}
    <2>1. pc[Main] # "ctor"
      BY <1>0, <1>1 DEF Starting, HandlerStages
    <2>2. pc[Main] # "install"
      BY <1>0, <1>1, <1>n DEF MutexHeld, Locked
    <2> QED
      BY <2>1, <2>2
  <1>5. first = NoCrash => handlers_installed
    BY <1>0, <1>1, <1>4 DEF Starting
  <1>6. handlers_installed => first = NoCrash
    BY <1>0, <1>1, <1>n DEF Installed
  <1>7. first' # NoCrash /\ (handlers_installed => first' = <<t, sig[t]>>) /\ (~handlers_installed => first' = first)
    BY <1>1, <1>5, <1>6, PairNotEmpty
  <1>8. pc'[t] = "generate" /\ \A u \in Threads : u # t => pc'[u] = pc[u]
    BY <1>1 DEF Moves
  <1>9. NoDefault'
    BY <1>0, <1>2, <1>8 DEF NoDefault
  <1>10. Starting'
    BY <1>4, <1>7, <1>8, <1>n DEF Starting
  <1>11. Installed'
    <2>1. ASSUME handlers_installed, old = "system", NEW u \in Threads PROVE pc'[u] # "airbag"
      BY <1>0, <1>8, <2>1 DEF Installed
    <2> QED
      BY <1>0, <1>1, <1>2, <1>7, <2>1 DEF Installed
  <1>12. RestoredOnce'
    <2> SUFFICES ASSUME ~handlers_installed, ~tampered
                 PROVE  /\ \A s \in Signals : disp[s] = "system"
                        /\ \A u \in Threads : pc'[u] \in Handling \cup {"lock"} => <<u, sig[u]>> # first
      BY <1>2, <1>7 DEF RestoredOnce
    <2>1. first # NoCrash
      BY <1>5
    <2> QED
      BY <1>0, <1>1, <1>8, <2>1 DEF RestoredOnce, Handling
  <1>13. Contexts'
    <2>1. ASSUME NEW u \in Threads, pc'[u] \in Handling PROVE u = t
      <3>1. u # t => pc[u] \in Locked
        BY <1>8, <2>1, HandlingLocked
      <3> QED
        BY <1>0, <1>1, <1>n, <3>1 DEF MutexHeld
    <2> QED
      BY <1>1, <1>2, <1>3, <1>7, <2>1 DEF Contexts
  <1>14. DeathIsOrderly'
    BY <1>1, <1>2 DEF DeathIsOrderly, alive
  <1> QED
    BY <1>9, <1>10, <1>11, <1>12, <1>13, <1>14 DEF OrderInv

\* The handlers are restored.
LEMMA RestoreOrder ==
    ASSUME CoreInv, HandInv, OrderInv, NEW t \in Threads, Restore(t)
    PROVE  OrderInv'
  <1>0. /\ NoDefault /\ Starting /\ Installed /\ RestoredOnce /\ Contexts /\ MutexHeld /\ DumpOwned
        /\ ProcTypes
    BY DEF OrderInv, CoreInv, ThreadInv, HandInv
  <1>n. Main \in Threads /\ "nobody" \notin Threads
    BY MainAssumption
  <1>1. pc[t] = "restore"
    BY <1>0 DEF Restore, NoDefault
  <1>2. /\ Moves(t, "retrigger") /\ alive /\ ~handlers_installed'
        /\ disp' = IF handlers_installed THEN old_handlers ELSE disp
    BY <1>0, <1>1, GotoMoves DEF Restore, Runs, Restored, Places, HandlerStages
  <1>3. UNCHANGED <<cause, old_handlers, sig, ctx, old, first, tampered, dpc, cctx>>
    BY DEF Restore, procVars, airbagVars, histVars, dumpVars
  <1>4. mutex = t /\ pc[t] \in Handling
    BY <1>0, <1>1 DEF MutexHeld, Locked, Handling
  <1>5. first # NoCrash /\ dpc = "off"
    BY <1>0, <1>1, <1>2, <1>4 DEF Contexts, DumpOwned, Dumping
  <1>6. pc'[t] = "retrigger" /\ \A u \in Threads : u # t => pc'[u] = pc[u]
    BY <1>2 DEF Moves
  <1>7. NoDefault'
    <2>1. \A s \in Signals : disp'[s] # "default"
      BY <1>0, <1>2 DEF NoDefault
    <2> QED
      BY <1>0, <1>3, <1>6, <2>1 DEF NoDefault
  <1>8. Starting'
    <2>1. pc[Main] \notin {"ctor", "install"}
      BY <1>0, <1>5 DEF Starting
    <2> QED
      BY <1>3, <1>5, <1>6, <1>n, <2>1 DEF Starting
  <1>9. Installed' /\ DeathIsOrderly'
    BY <1>2, <1>3 DEF Installed, DeathIsOrderly, alive
  <1>10. RestoredOnce'
    <2>1. CASE handlers_installed
      <3>1. first = <<t, sig[t]>>
        BY <1>0, <1>4, <1>5, <2>1 DEF Installed
      <3>2. \A s \in Signals : disp'[s] = "system"
        BY <1>0, <1>2, <2>1 DEF NoDefault
      <3>3. ASSUME NEW u \in Threads, pc'[u] \in Handling \cup {"lock"} PROVE <<u, sig[u]>> # first
        <4>1. u # t
          BY <1>6, <3>3 DEF Handling
        <4> QED
          BY <3>1, <4>1
      <3> QED
        BY <1>3, <3>2, <3>3 DEF RestoredOnce
    <2>2. CASE ~handlers_installed
      <3>1. ASSUME NEW u \in Threads, pc'[u] \in Handling \cup {"lock"} PROVE pc'[u] = pc[u]
        BY <1>6, <3>1 DEF Handling
      <3> QED
        BY <1>0, <1>2, <1>3, <1>5, <2>2, <3>1 DEF RestoredOnce
    <2> QED
      BY <2>1, <2>2
  <1>11. Contexts'
    <2>1. ASSUME NEW u \in Threads PROVE pc'[u] \notin Handling
      <3>1. u # t => pc[u] \notin Locked
        BY <1>0, <1>4 DEF MutexHeld
      <3>2. u = t => pc'[u] \notin Handling
        BY <1>6 DEF Handling
      <3> QED
        BY <1>6, <3>1, <3>2, HandlingLocked
    <2> QED
      BY <1>3, <1>5, <2>1 DEF Contexts
  <1> QED
    BY <1>7, <1>8, <1>9, <1>10, <1>11 DEF OrderInv

\* NativeAirbag sets a disposition; after the restoring, that is recorded.
LEMMA AirbagOrder ==
    ASSUME CoreInv, OrderInv, NEW t \in Threads, NEW p, Moves(t, p), p \in {"run", "signal"}, alive,
           pc[t] = "airbag" \/ (t = Main /\ pc[t] = "open"), NEW s \in Signals, NEW h \in Dispositions,
           disp' = [disp EXCEPT ![s] = h], h # "default",
           handlers_installed => h # "system" /\ old' # "system", old' # "default",
           tampered' = (tampered \/ (first # NoCrash /\ ~handlers_installed)),
           UNCHANGED <<cause, old_handlers, handlers_installed, mutex, sig, ctx, first, dpc, cctx>>
    PROVE  OrderInv'
  <1>0. NoDefault /\ Starting /\ Installed /\ RestoredOnce /\ Contexts /\ ProcTypes /\ Main \in Threads
    BY MainAssumption DEF OrderInv, CoreInv, ThreadInv
  <1>1. \A u \in Signals : disp'[u] = disp[u] \/ disp'[u] = h
    BY <1>0 DEF ProcTypes
  <1>2. pc'[t] = p /\ \A u \in Threads : u # t => pc'[u] = pc[u]
    BY DEF Moves
  <1>3. pc[Main] \notin {"ctor", "install"} /\ pc'[Main] \notin {"ctor", "install"}
    <2>1. pc[Main] \notin {"ctor", "install"}
      BY <1>0 DEF Starting
    <2> QED
      BY <1>0, <1>2, <2>1
  <1>4. NoDefault'
    BY <1>0, <1>1, <1>2 DEF NoDefault
  <1>5. Starting'
    BY <1>0, <1>3 DEF Starting, alive
  <1>6. Installed'
    <2>1. ASSUME handlers_installed, NEW u \in Signals PROVE disp'[u] \in {"breakpad", "airbag"}
      BY <1>0, <1>1, <2>1 DEF Installed, Dispositions
    <2> QED
      BY <1>0, <2>1 DEF Installed
  <1>7. RestoredOnce'
    BY DEF RestoredOnce
  <1>8. Contexts'
    BY <1>0, <1>2 DEF Contexts, Handling, alive
  <1>9. DeathIsOrderly'
    BY DEF DeathIsOrderly, alive
  <1> QED
    BY <1>4, <1>5, <1>6, <1>7, <1>8, <1>9 DEF OrderInv

\* Every step of the crashed process keeps the order.
LEMMA AppOrder ==
    ASSUME CoreInv, HandInv, OrderInv, AppStep
    PROVE  OrderInv'
  <1>0. /\ NoDefault /\ Starting /\ Installed /\ RestoredOnce /\ Contexts /\ MutexHeld /\ DumpOwned
        /\ ProcTypes /\ SignalKnown
    BY DEF OrderInv, CoreInv, ThreadInv, HandInv
  <1>n. Main \in Threads
    BY MainAssumption
  <1>p. {"install", "run", "open", "signal", "airbag", "lock", "generate", "allow", "continue",
         "wait", "restore", "default", "retrigger"} \subseteq Places
    BY DEF Places, HandlerStages
  <1>m. \A t \in Threads, p \in Places : Goto(t, p) => Moves(t, p)
    BY <1>0, GotoMoves
  <1>d. UNCHANGED dumpVars => UNCHANGED <<dpc, cctx>>
    BY DEF dumpVars
  <1>g. ASSUME NEW why \in {"kill", "exit"}, Gone(why) PROVE OrderInv'
    BY <1>g, GoneOrder, GoneOutcome DEF DeathIsOrderly
  \* A step within the handler, which stays where the mutex is held, or leaves it.
  <1>w. ASSUME NEW t \in Threads, NEW p, Moves(t, p), alive,
               UNCHANGED <<cause, disp, old_handlers, handlers_installed, old, first, tampered, mutex, ctx, sig>>,
               UNCHANGED <<dpc, cctx>> \/ cctx' = ctx,
               pc[t] \in HandlerStages, p \in HandlerStages \cup {"signal"}, p \notin {"lock", "default"},
               p \in Handling => pc[t] \in Handling
        PROVE  OrderInv'
    <2>1. pc[Main] # "ctor" /\ pc[t] \notin {"ctor", "install"} /\ p \notin {"ctor", "install", "airbag"}
      BY <1>0, <1>w DEF Starting, HandlerStages
    <2> QED
      BY <1>w, <2>1, OrderMoved
  <1>1. ASSUME NEW t \in Threads, ThreadStep(t)
        PROVE  OrderInv'
    <2>1. CASE Deliver(t)
      <3>1. /\ pc[t] = "signal" /\ alive /\ disp[sig[t]] \in {"breakpad", "airbag"}
            /\ \/ disp[sig[t]] = "breakpad" /\ Moves(t, "lock")
               \/ disp[sig[t]] = "airbag" /\ Moves(t, "airbag")
        BY <1>m, <1>p, <2>1 DEF Deliver, At, Runs
      <3>2. UNCHANGED <<cause, disp, old_handlers, handlers_installed, old, first, tampered, mutex, ctx, sig, dpc, cctx>>
        BY <1>d, <2>1 DEF Deliver, procVars, handlerVars, airbagVars, histVars
      <3>3. sig[t] \in Signals
        BY <1>0, <3>1 DEF SignalKnown
      <3>4. pc[Main] # "ctor"
        BY <1>0, <3>1, <3>3 DEF Starting
      <3>5. CASE disp[sig[t]] = "breakpad" /\ Moves(t, "lock")
        <4>1. first = NoCrash \/ handlers_installed \/ tampered
          BY <1>0, <3>1, <3>3, <3>5 DEF RestoredOnce
        <4>2. "lock" \notin Handling
          BY DEF Handling
        <4> QED
          BY <3>1, <3>2, <3>4, <3>5, <4>1, <4>2, OrderMoved
      <3>6. CASE disp[sig[t]] = "airbag" /\ Moves(t, "airbag")
        <4>1. pc[Main] \notin {"ctor", "install"} /\ (handlers_installed => old # "system")
          BY <1>0, <3>3, <3>6 DEF Starting, Installed
        <4>2. "airbag" \notin Handling /\ "airbag" \notin HandlerStages
          BY DEF Handling, HandlerStages
        <4> QED
          BY <3>1, <3>2, <3>6, <4>1, <4>2, OrderMoved
      <3> QED
        BY <3>1, <3>5, <3>6
    <2>2. CASE Die(t)
      BY <2>2, DieOrder
    <2>3. CASE AirbagHandler(t)
      <3>1. pc[t] = "airbag" /\ alive /\ \E p \in {"run", "signal"} : Moves(t, p)
        BY <1>m, <1>p, <2>3 DEF AirbagHandler, At, Runs
      <3>2. UNCHANGED <<cause, old_handlers, handlers_installed, old, first, mutex, ctx, sig, dpc, cctx>>
        BY <1>d, <2>3 DEF AirbagHandler, procVars, airbagVars
      <3>3. PICK p \in {"run", "signal"} : Moves(t, p)
        BY <3>1
      <3>4. CASE UNCHANGED <<disp, tampered>>
        <4>1. p \notin Handling /\ p \notin HandlerStages
          BY DEF Handling, HandlerStages
        <4> QED
          BY <3>1, <3>2, <3>3, <3>4, <4>1, OrderMoved
      <3>5. CASE /\ disp' = [disp EXCEPT ![sig[t]] = old]
                 /\ tampered' = (tampered \/ (first # NoCrash /\ ~handlers_installed))
        <4>1. sig[t] \in Signals
          BY <1>0, <3>1 DEF SignalKnown
        <4>2. old \in Dispositions /\ old # "default" /\ (handlers_installed => old # "system")
          BY <1>0, <3>1 DEF ProcTypes, NoDefault, Installed
        <4> QED
          BY <3>1, <3>2, <3>3, <3>5, <4>1, <4>2, AirbagOrder
      <3> QED
        BY <2>3, <3>4, <3>5 DEF AirbagHandler
    <2>4. CASE HandleSignal(t)
      BY <2>4, HandleOrder
    <2>5. CASE GenerateDump(t)
      <3>1. /\ pc[t] = "generate" /\ alive
            /\ UNCHANGED <<cause, disp, old_handlers, handlers_installed, old, first, tampered, mutex, ctx, sig>>
        BY <2>5 DEF GenerateDump, At, Runs, procVars, handlerVars, airbagVars, histVars
      <3>2. \/ Moves(t, "allow") /\ cctx' = ctx
            \/ Moves(t, "restore") /\ UNCHANGED <<dpc, cctx>>
        BY <1>m, <1>p, <2>5 DEF GenerateDump, KernelFails
      <3> QED
        BY <1>w, <3>1, <3>2 DEF Handling, HandlerStages
    <2>6. CASE AllowPtrace(t)
      <3>1. /\ pc[t] = "allow" /\ alive /\ Moves(t, "continue") /\ UNCHANGED <<dpc, cctx>>
            /\ UNCHANGED <<cause, disp, old_handlers, handlers_installed, old, first, tampered, mutex, ctx, sig>>
        BY <1>d, <1>m, <1>p, <2>6 DEF AllowPtrace, At, Runs, procVars, handlerVars, airbagVars, histVars
      <3> QED
        BY <1>w, <3>1 DEF Handling, HandlerStages
    <2>7. CASE SendContinueSignalToChild(t)
      <3>1. /\ pc[t] = "continue" /\ alive /\ Moves(t, "wait") /\ UNCHANGED <<dpc, cctx>>
            /\ UNCHANGED <<cause, disp, old_handlers, handlers_installed, old, first, tampered, mutex, ctx, sig>>
        BY <1>d, <1>m, <1>p, <2>7
           DEF SendContinueSignalToChild, At, Runs, procVars, handlerVars, airbagVars, histVars
      <3> QED
        BY <1>w, <3>1 DEF Handling, HandlerStages
    <2>8. CASE WaitChild(t)
      <3>1. /\ pc[t] = "wait" /\ alive /\ Moves(t, "restore") /\ UNCHANGED <<dpc, cctx>>
            /\ UNCHANGED <<cause, disp, old_handlers, handlers_installed, old, first, tampered, mutex, ctx, sig>>
        BY <1>d, <1>m, <1>p, <2>8
           DEF WaitChild, DumpCallback, At, Runs, procVars, handlerVars, airbagVars, histVars
      <3> QED
        BY <1>w, <3>1 DEF Handling, HandlerStages
    <2>9. CASE Restore(t)
      BY <2>9, RestoreOrder
    <2>10. CASE Retrigger(t)
      <3>1. /\ pc[t] = "retrigger" /\ alive /\ Moves(t, "signal") /\ UNCHANGED <<dpc, cctx>>
            /\ UNCHANGED <<cause, disp, old_handlers, handlers_installed, old, first, tampered, mutex, ctx, sig>>
        BY <1>d, <1>m, <1>p, <2>10 DEF Retrigger, At, Runs, procVars, handlerVars, airbagVars, histVars
      <3> QED
        BY <1>w, <3>1 DEF Handling, HandlerStages
    <2>11. CASE RetriggerFails(t)
      BY <1>g, <2>11 DEF RetriggerFails
    <2>12. CASE Construct \/ (\E s \in Signals : InstallHandler(s)) \/ Constructed
      BY <2>12, ConstructorOrder
    <2>13. CASE InstallAirbag
      <3>1. /\ pc[Main] = "open" /\ alive /\ Moves(Main, "run")
            /\ UNCHANGED <<cause, old_handlers, handlers_installed, first, mutex, ctx, sig>>
        BY <1>m, <1>n, <1>p, <2>13 DEF InstallAirbag, At, Runs, procVars
      <3>2. UNCHANGED <<dpc, cctx>>
        BY <1>d, <2>13 DEF InstallAirbag, KernelFails
      <3>3. CASE UNCHANGED <<old, disp, tampered>>
        <4>1. "run" \notin Handling /\ "run" \notin HandlerStages
          BY DEF Handling, HandlerStages
        <4> QED
          BY <1>n, <3>1, <3>2, <3>3, <4>1, OrderMoved
      <3>4. CASE /\ old' = disp[config]
                 /\ disp' = [disp EXCEPT ![config] = "airbag"]
                 /\ tampered' = (tampered \/ (first # NoCrash /\ ~handlers_installed))
        <4>1. config \in Signals /\ "airbag" \in Dispositions
          BY <1>0, <3>1 DEF SignalKnown, Dispositions
        <4>2. old' # "default" /\ (handlers_installed => old' # "system")
          BY <1>0, <3>4, <4>1 DEF NoDefault, Installed
        <4> QED
          BY <1>n, <3>1, <3>2, <3>4, <4>1, <4>2, AirbagOrder
      <3> QED
        BY <2>13, <3>3, <3>4 DEF InstallAirbag
    <2> QED
      BY <1>1, <2>1, <2>2, <2>3, <2>4, <2>5, <2>6, <2>7, <2>8, <2>9, <2>10, <2>11, <2>12, <2>13
         DEF ThreadStep, SignalHandler
  <1>2. ASSUME NEW t \in Threads, NEW s \in Signals, NEW kd \in {"fault", "raise"}, Crashes(t, s, kd)
        PROVE  OrderInv'
    <2>1. /\ pc[t] = "run" /\ alive /\ Moves(t, "signal") /\ sig' = [sig EXCEPT ![t] = s]
          /\ UNCHANGED <<cause, disp, old_handlers, handlers_installed, old, first, tampered, mutex, ctx, dpc, cctx>>
      BY <1>2, <1>d, <1>m, <1>p DEF Crashes, At, Runs, procVars, handlerVars, airbagVars, histVars
    <2>2. mutex # t /\ \A u \in Threads : u # t => sig'[u] = sig[u]
      BY <1>0, <2>1 DEF MutexHeld, Locked, ProcTypes
    <2>3. "signal" \notin Handling \cup {"lock"} /\ "signal" \notin HandlerStages
      BY DEF Handling, HandlerStages
    <2> QED
      BY <2>1, <2>2, <2>3, OrderMoved
  <1>3. CASE OpenNativeAirbag
    <2>1. /\ pc[Main] = "run" /\ alive /\ Moves(Main, "open")
          /\ UNCHANGED <<cause, disp, old_handlers, handlers_installed, old, first, tampered, mutex, ctx, sig, dpc, cctx>>
      BY <1>3, <1>d, <1>m, <1>n, <1>p DEF OpenNativeAirbag, At, Runs, procVars, handlerVars, histVars
    <2>2. "open" \notin Handling /\ "open" \notin HandlerStages
      BY DEF Handling, HandlerStages
    <2> QED
      BY <1>n, <2>1, <2>2, OrderMoved
  <1>4. CASE Kill
    BY <1>4, <1>g DEF Kill
  <1> QED
    BY <1>1, <1>2, <1>3, <1>4 DEF AppStep

\* So does the dump process.
LEMMA ChildOrder ==
    ASSUME CoreInv, OrderInv, ChildStep
    PROVE  OrderInv'
  <1>0. DumpShape /\ ProcTypes /\ StolenStopped /\ Main \in Threads
    BY MainAssumption DEF CoreInv, ThreadInv
  <1>1. ChildEffect
    BY <1>0, ChildStepEffect
  <1>2. UNCHANGED <<cause, tombstone, disp, old_handlers, handlers_installed, mutex, sig, ctx, old, first,
                    tampered, cctx>>
    BY <1>1 DEF ChildEffect
  <1>3. dpc # "off" /\ \A t \in Threads : pc'[t] = pc[t] \/ (pc[t] = "signal" /\ pc'[t] = "run")
    BY <1>1 DEF ChildEffect
  <1>4. NoDefault'
    BY <1>2, <1>3 DEF OrderInv, NoDefault
  <1>5. Starting'
    BY <1>0, <1>2, <1>3 DEF OrderInv, Starting, HandlerStages, alive
  <1>6. Installed'
    BY <1>2, <1>3 DEF OrderInv, Installed
  <1>7. RestoredOnce'
    BY <1>2, <1>3 DEF OrderInv, RestoredOnce, Handling, alive
  <1>8. Contexts'
    BY <1>2, <1>3 DEF OrderInv, Contexts, Handling, alive
  <1>9. DeathIsOrderly'
    BY <1>2, <1>3 DEF OrderInv, DeathIsOrderly
  <1> QED
    BY <1>4, <1>5, <1>6, <1>7, <1>8, <1>9 DEF OrderInv

\* A process that dies of a signal dies through the system's handler, with a tombstone, and
\* not under the dump of its first crash: the handlers are restored only by the thread that
\* holds the mutex, after its dump process has ended, and the callback never claims the signal.
THEOREM DeathsAreOrderly == Spec => []DeathIsOrderly
  <1>1. Init => CoreInv /\ HandInv /\ OrderInv
    <2>1. Init => HandInv
      BY DEF Init, DumpInit, HandInv, DumpOwned, Handshake, AttachAllowed
    <2>2. Init => NoDefault /\ Starting
      BY MainAssumption DEF Init, NoDefault, Starting, HandlerStages
    <2>3. Init => Installed /\ RestoredOnce /\ Contexts /\ DeathIsOrderly
      BY DEF Init, DumpInit, Installed, RestoredOnce, Contexts, DeathIsOrderly, Handling
    <2> QED
      BY <2>1, <2>2, <2>3, CoreInit DEF OrderInv
  <1>2. CoreInv /\ HandInv /\ OrderInv /\ [Next]_vars => CoreInv' /\ HandInv' /\ OrderInv'
    <2> SUFFICES ASSUME CoreInv, HandInv, OrderInv, [Next]_vars PROVE OrderInv'
      BY CoreStep, HandKept
    <2>1. CASE AppStep
      BY <2>1, AppOrder
    <2>2. CASE ChildStep
      BY <2>2, ChildOrder
    <2>3. CASE UNCHANGED vars
      BY <2>3 DEF vars, dumpVars, procVars, handlerVars, threadVars, airbagVars, histVars, OrderInv, NoDefault,
                  Starting, Installed, RestoredOnce, Contexts, DeathIsOrderly, alive
    <2> QED
      BY <2>1, <2>2, <2>3 DEF Next, AppStep, ChildStep, Over
  <1>3. OrderInv => DeathIsOrderly
    BY DEF OrderInv
  <1> QED
    BY <1>1, <1>2, <1>3, PTL DEF Spec

-----------------------------------------------------------------------------
(* The dump that is reported as written.  A file is taken as the set of the places of  *)
(* its objects and the set of those not written yet: a call adds places behind the     *)
(* others, or takes places from the second set.                                        *)

\* A record's place in the file.
Cell(p) == [kind |-> p.kind, i |-> p.i, pos |-> p.pos, len |-> p.len]
CellSet == [kind : Kinds, i : Nat, pos : Nat, len : Nat]
\* The places that are taken, and those not written yet (or not by their own object).
Cells(v) == {Cell(p) : p \in v.parts}
Holes(v) == {Cell(p) : p \in {q \in v.parts : q.st # "good"}}

\* Two places that share no byte.
Apart(c, d) == c.pos + c.len <= d.pos \/ d.pos + d.len <= c.pos

\* The objects lie apart, below the position, which is below the size, and none was run over.
Sound(v) ==
    /\ v.position <= v.size
    /\ \A p \in v.parts : p.st # "bad"
    /\ \A c \in Cells(v) : c.len > 0 /\ c.pos + c.len <= v.position
    /\ \A c, d \in Cells(v) : c = d \/ Apart(c, d)

\* size_t is wider than MDRVA, and the file is smaller than an MDRVA can tell.
Fits(v) == SizeMod >= RvaMod + ExceptionSize /\ v.size < kInvalidMDRVA
\* ... and no write has failed.
Safe(v) == Fits(v) /\ ~v.short

\* The cells of a file and of a part.
LEMMA CellFields ==
    ASSUME NEW p \in Part
    PROVE  /\ Cell(p) \in CellSet /\ Cell(p).kind = p.kind /\ Cell(p).i = p.i /\ Cell(p).pos = p.pos
           /\ Cell(p).len = p.len
  BY DEF Cell, Part, CellSet

\* The places of a file are places, and those not written are among them.
LEMMA CellsType ==
    ASSUME NEW v \in Writer
    PROVE  Cells(v) \subseteq CellSet /\ Holes(v) \subseteq Cells(v)
  <1>1. v.parts \subseteq Part
    BY DEF Writer
  <1>2. \A p \in v.parts : Cell(p) \in CellSet
    BY <1>1, CellFields
  <1> QED
    BY <1>2 DEF Cells, Holes

\* A file with the same parts is as sound.
LEMMA SameParts ==
    ASSUME NEW v, NEW u, u.parts = v.parts, u.position = v.position, u.size = v.size
    PROVE  Cells(u) = Cells(v) /\ Holes(u) = Holes(v) /\ (Sound(v) <=> Sound(u))
  <1>1. Cells(u) = Cells(v) /\ Holes(u) = Holes(v)
    BY DEF Cells, Holes
  <1> QED
    BY <1>1 DEF Sound

\* A file that is safe after some calls was so before.
LEMMA GrownSafe ==
    ASSUME NEW v \in Writer, NEW u, Grown(v, u), Safe(u)
    PROVE  Safe(v)
  <1>1. v.size \in Nat /\ u.size \in Nat /\ u.size >= v.size /\ (v.short => u.short)
    BY DEF Grown, Writer
  <1>2. kInvalidMDRVA \in Nat
    BY WidthAssumption DEF kInvalidMDRVA
  <1> QED
    BY <1>1, <1>2 DEF Safe, Fits

\* Below 4 GB with a 64-bit size_t, Copy writes where it is told.
LEMMA CopyPlain ==
    ASSUME NEW v \in Writer, NEW kd, NEW pos \in Nat, NEW len \in Nat, pos + len <= v.size,
           Safe(Copy(v, kd, pos, len))
    PROVE  /\ Safe(v)
           /\ Copy(v, kd, pos, len).parts = Overwrite(v.parts, kd, pos, len)
           /\ Copy(v, kd, pos, len).position = v.position /\ Copy(v, kd, pos, len).size = v.size
           /\ Copy(v, kd, pos, len).ok = v.ok
  <1> DEFINE u == Copy(v, kd, pos, len)
  <1>1. Written(v, u)
    BY CopyFollows
  <1>2. Safe(v)
    BY <1>1, GrownSafe DEF Written, Follows
  <1>3. v.size \in Nat /\ RvaMod \in Nat /\ SizeMod \in Nat
    BY WidthAssumption DEF Writer
  <1>4. SizeMod > RvaMod /\ pos + len < SizeMod
    BY <1>2, <1>3 DEF Safe, Fits, ExceptionSize, kInvalidMDRVA
  <1>5. ~SeekRefused(pos)
    BY <1>3, <1>4 DEF SeekRefused
  <1>6. (pos + len) % SizeMod = pos + len
    BY <1>3, <1>4
  <1>7. Copies(v, pos, len)
    BY <1>5, <1>6 DEF Copies
  <1>8. CASE v.full \/ v.short
    <2>1. u = Spoil(v)
      BY <1>7, <1>8 DEF Copy
    <2>2. u.short
      BY <2>1 DEF Spoil, Writer
    <2> QED
      BY <2>2 DEF Safe
  <1>9. CASE ~(v.full \/ v.short)
    <2> DEFINE o == pos + len
    <2>1. u = [v EXCEPT !.parts = Overwrite(@, kd, pos, len), !.offset = o]
      BY <1>5, <1>7, <1>9 DEF Copy
    <2> HIDE DEF u, o
    <2>2. u.parts = Overwrite(v.parts, kd, pos, len) /\ u.position = v.position /\ u.size = v.size
      BY <2>1 DEF Writer
    <2>3. u.ok = v.ok
      BY <2>1 DEF Writer
    <2> QED
      BY <1>2, <2>2, <2>3 DEF u
  <1> QED
    BY <1>8, <1>9

\* What Copy does when it writes the objects D.
Filled(v, u, D) ==
    /\ u \in Writer /\ Sound(u) /\ u.ok = v.ok /\ u.position = v.position
    /\ Cells(u) = Cells(v) /\ Holes(u) = Holes(v) \ D

\* The objects that a write meets.
Struck(v, pos, len) == {c \in Cells(v) : Overlap(c, pos, len)}

\* A write over whole objects of its own kind: they are written, nothing is run over.
LEMMA CopyOwn ==
    ASSUME NEW v \in Writer, Sound(v), NEW kd, NEW pos \in Nat, NEW len \in Nat,
           pos + len <= v.position,
           \A c \in Struck(v, pos, len) : c.kind = kd /\ Inside(c, pos, len),
           Safe(Copy(v, kd, pos, len))
    PROVE  Filled(v, Copy(v, kd, pos, len), Struck(v, pos, len))
  <1> DEFINE u == Copy(v, kd, pos, len)
  <1>1. v.position <= v.size /\ v.position \in Nat /\ v.size \in Nat /\ v.parts \subseteq Part
    BY DEF Writer, Sound
  <1>2. pos + len <= v.size
    BY <1>1
  <1>3. /\ u.parts = Overwrite(v.parts, kd, pos, len) /\ u.position = v.position /\ u.size = v.size
        /\ u.ok = v.ok
    BY <1>2, CopyPlain
  <1> HIDE DEF u
  <1> DEFINE F(p) == IF ~Overlap(p, pos, len) THEN p ELSE [p EXCEPT !.st = "good"]
  <1>4. ASSUME NEW p \in v.parts PROVE Overlap(Cell(p), pos, len) <=> Overlap(p, pos, len)
    BY <1>1, CellFields DEF Overlap
  <1>5. ASSUME NEW p \in v.parts PROVE Overlap(p, pos, len) => p.kind = kd /\ Inside(p, pos, len)
    <2>1. Cell(p) \in Cells(v)
      BY DEF Cells
    <2> QED
      BY <1>1, <1>4, <2>1, CellFields DEF Inside, Struck
  <1>6. u.parts = {F(p) : p \in v.parts}
    <2> DEFINE G(p) == IF ~Overlap(p, pos, len) THEN p
                       ELSE [p EXCEPT !.st = IF p.kind = kd /\ Inside(p, pos, len) THEN "good"
                                             ELSE "bad"]
    <2>1. \A p \in v.parts : G(p) = F(p)
      BY <1>5
    <2>2. u.parts = {G(p) : p \in v.parts}
      BY <1>3 DEF Overwrite
    <2> HIDE DEF G, F
    <2> QED
      BY <2>1, <2>2
  <1>7. ASSUME NEW p \in v.parts
        PROVE  /\ Cell(F(p)) = Cell(p)
               /\ F(p).st = IF Overlap(p, pos, len) THEN "good" ELSE p.st
    BY <1>1 DEF Cell, Part
  <1> HIDE DEF F
  <1>8. Cells(u) = Cells(v)
    BY <1>6, <1>7 DEF Cells
  <1>9. Holes(u) = {c \in Holes(v) : ~Overlap(c, pos, len)}
    <2>1. ASSUME NEW c \in Holes(u) PROVE c \in Holes(v) /\ ~Overlap(c, pos, len)
      <3>1. PICK p \in v.parts : c = Cell(F(p)) /\ F(p).st # "good"
        BY <1>6 DEF Holes
      <3>2. c = Cell(p) /\ ~Overlap(p, pos, len) /\ p.st # "good"
        BY <1>7, <3>1
      <3> QED
        BY <1>4, <3>2 DEF Holes
    <2>2. ASSUME NEW c \in Holes(v), ~Overlap(c, pos, len) PROVE c \in Holes(u)
      <3>1. PICK p \in v.parts : c = Cell(p) /\ p.st # "good"
        BY DEF Holes
      <3>2. ~Overlap(p, pos, len)
        BY <1>4, <2>2, <3>1
      <3>3. Cell(F(p)) = c /\ F(p).st # "good" /\ F(p) \in u.parts
        BY <1>6, <1>7, <3>1, <3>2
      <3> QED
        BY <3>3 DEF Holes
    <2> QED
      BY <2>1, <2>2
  <1>10. \A q \in u.parts : q.st # "bad"
    BY <1>6, <1>7 DEF Sound
  <1>11. Sound(u)
    BY <1>3, <1>8, <1>10 DEF Sound
  <1>12. Holes(u) = Holes(v) \ Struck(v, pos, len)
    <2>1. Holes(v) \subseteq Cells(v)
      BY CellsType
    <2> QED
      BY <1>9, <2>1 DEF Struck
  <1>13. u \in Writer
    BY CopyFollows, FollowsWriter DEF Written, u
  <1>14. Filled(v, u, Struck(v, pos, len))
    BY <1>3, <1>8, <1>11, <1>12, <1>13 DEF Filled
  <1> QED
    BY <1>14 DEF u

\* A write of one object.
LEMMA CopyCell ==
    ASSUME NEW v \in Writer, Sound(v), NEW c \in Cells(v), NEW kd, NEW pos, NEW len, c.kind = kd,
           c.pos = pos, c.len = len, Safe(Copy(v, kd, pos, len))
    PROVE  Filled(v, Copy(v, kd, pos, len), {c})
  <1> DEFINE u == Copy(v, kd, pos, len)
  <1>1. \A x \in Cells(v) : x.pos \in Nat /\ x.len \in Nat
    BY CellsType DEF CellSet
  <1>2. pos \in Nat /\ len \in Nat /\ len > 0 /\ pos + len <= v.position
    BY <1>1 DEF Sound
  <1>3. ASSUME NEW x \in Cells(v) PROVE Overlap(x, pos, len) <=> x = c
    <2>1. x = c \/ Apart(x, c)
      BY DEF Sound
    <2>2. x = c => Overlap(x, pos, len)
      BY <1>1, <1>2 DEF Overlap
    <2>3. Apart(x, c) => ~Overlap(x, pos, len)
      BY <1>1, <1>2 DEF Overlap, Apart
    <2> QED
      BY <2>1, <2>2, <2>3
  <1>4. Struck(v, pos, len) = {c}
    BY <1>3 DEF Struck
  <1>5. \A x \in Struck(v, pos, len) : x.kind = kd /\ Inside(x, pos, len)
    BY <1>1, <1>2, <1>4 DEF Inside
  <1>6. Filled(v, u, Struck(v, pos, len))
    BY <1>2, <1>5, CopyOwn
  <1> QED
    BY <1>4, <1>6

\* The places of an object of `head` bytes and the n elements of e bytes after it.
ListCells(kd, id, pos, head, n, e) ==
    {c \in CellSet :
        /\ c.kind = kd
        /\ \/ head > 0 /\ c.i = id /\ c.pos = pos /\ c.len = head
           \/ c.i \in 1..n /\ c.pos = pos + head + (c.i - 1) * e /\ c.len = e}

\* Elements of an array do not overlap.
LEMMA Spread ==
    ASSUME NEW i \in Nat, NEW j \in Nat, i < j, NEW e \in Nat
    PROVE  i * e \in Nat /\ j * e \in Nat /\ i * e + e <= j * e
  <1> DEFINE d == j - (i + 1)
  <1>1. d \in Nat /\ j = i + 1 + d
    OBVIOUS
  <1> HIDE DEF d
  <1>2. d * e \in Nat /\ i * e \in Nat
    BY <1>1, Product
  <1>3. j * e = i * e + e + d * e
    BY <1>1
  <1> QED
    BY <1>2, <1>3

\* The n-th element of an array.
LEMMA ElementFits ==
    ASSUME NEW n \in Nat, NEW e \in Nat, NEW j \in 1..n
    PROVE  (j - 1) * e \in Nat /\ n * e \in Nat /\ (j - 1) * e + e <= n * e
  <1>1. j - 1 \in Nat /\ j - 1 < n
    OBVIOUS
  <1> DEFINE m == j - 1
  <1> HIDE DEF m
  <1>2. m \in Nat /\ m < n
    BY <1>1 DEF m
  <1>3. m * e \in Nat /\ n * e \in Nat /\ m * e + e <= n * e
    BY <1>2, Spread
  <1> QED
    BY <1>3 DEF m

\* Two elements of an array.
LEMMA ElementsApart ==
    ASSUME NEW n \in Nat, NEW e \in Nat, NEW i \in 1..n, NEW j \in 1..n, i < j
    PROVE  (i - 1) * e \in Nat /\ (j - 1) * e \in Nat /\ (i - 1) * e + e <= (j - 1) * e
  <1> DEFINE a == i - 1
             b == j - 1
  <1>1. a \in Nat /\ b \in Nat /\ a < b
    OBVIOUS
  <1> HIDE DEF a, b
  <1>2. a * e \in Nat /\ b * e \in Nat /\ a * e + e <= b * e
    BY <1>1, Spread
  <1> QED
    BY <1>2 DEF a, b

\* The records S, none of them written, have the places C.
Covers(S, C) == {Cell(p) : p \in S} = C /\ \A p \in S : p.st = "hole"

\* The places of an object's records.
LEMMA LayoutCells ==
    ASSUME NEW kd \in Kinds, NEW id \in Nat, NEW pos \in Nat, NEW head \in Nat, NEW n \in Nat,
           NEW e \in Nat
    PROVE  Covers(Layout(kd, id, pos, head, n, e), ListCells(kd, id, pos, head, n, e))
  <1> DEFINE L == Layout(kd, id, pos, head, n, e)
             H == [kind |-> kd, i |-> id, pos |-> pos, len |-> head, st |-> "hole"]
             E(j) == [kind |-> kd, i |-> j, pos |-> pos + head + (j - 1) * e, len |-> e,
                      st |-> "hole"]
  <1>1. ASSUME NEW p PROVE p \in L <=> (head > 0 /\ p = H) \/ \E j \in 1..n : p = E(j)
    <2> HIDE DEF H, E
    <2>1. L = (IF head = 0 THEN {} ELSE {H}) \cup {E(j) : j \in 1..n}
      BY DEF Layout, H, E
    <2> HIDE DEF L
    <2>2. head = 0 \/ head > 0
      OBVIOUS
    <2> QED
      BY <2>1, <2>2
  <1>2. Cell(H) = [kind |-> kd, i |-> id, pos |-> pos, len |-> head] /\ H.st = "hole"
    BY DEF Cell
  <1>3. ASSUME NEW j \in 1..n
        PROVE  Cell(E(j)) = [kind |-> kd, i |-> j, pos |-> pos + head + (j - 1) * e, len |-> e]
    BY DEF Cell
  <1>4. \A j \in 1..n : E(j).st = "hole"
    OBVIOUS
  <1>5. \A j \in 1..n : pos + head + (j - 1) * e \in Nat
    <2> SUFFICES ASSUME NEW j \in 1..n PROVE pos + head + (j - 1) * e \in Nat
      OBVIOUS
    <2>1. (j - 1) * e \in Nat
      BY ElementFits
    <2> QED
      BY <2>1
  <1>6. ASSUME NEW p \in L PROVE Cell(p) \in ListCells(kd, id, pos, head, n, e)
    <2>1. CASE head > 0 /\ p = H
      BY <1>2, <2>1 DEF ListCells, CellSet
    <2>2. CASE \E j \in 1..n : p = E(j)
      <3>1. PICK j \in 1..n : p = E(j)
        BY <2>2
      <3> DEFINE q == pos + head + (j - 1) * e
      <3>2. Cell(p) = [kind |-> kd, i |-> j, pos |-> q, len |-> e]
        BY <1>3, <3>1
      <3>3. q \in Nat /\ j \in Nat
        BY <1>5
      <3>5. q = pos + head + (j - 1) * e
        OBVIOUS
      <3> HIDE DEF q
      <3>4. Cell(p) \in CellSet /\ Cell(p).kind = kd /\ Cell(p).i = j /\ Cell(p).pos = q /\ Cell(p).len = e
        BY <3>2, <3>3 DEF CellSet
      <3> QED
        BY <3>4, <3>5 DEF ListCells
    <2> QED
      BY <1>1, <2>1, <2>2
  <1>7. ASSUME NEW c \in ListCells(kd, id, pos, head, n, e) PROVE \E p \in L : c = Cell(p)
    <2>1. c \in CellSet /\ c = [kind |-> c.kind, i |-> c.i, pos |-> c.pos, len |-> c.len]
      BY DEF ListCells, CellSet
    <2>2. CASE head > 0 /\ c.i = id /\ c.pos = pos /\ c.len = head
      <3>1. c = Cell(H)
        BY <1>2, <2>1, <2>2 DEF ListCells
      <3> QED
        BY <1>1, <2>2, <3>1
    <2>3. CASE c.i \in 1..n /\ c.pos = pos + head + (c.i - 1) * e /\ c.len = e
      <3> DEFINE j == c.i
      <3>1. j \in 1..n /\ c.kind = kd
        BY <2>3 DEF ListCells
      <3>2. c = [kind |-> kd, i |-> j, pos |-> pos + head + (j - 1) * e, len |-> e]
        BY <2>1, <2>3, <3>1
      <3> HIDE DEF j, E
      <3>3. E(j) \in L
        BY <1>1, <3>1
      <3>4. c = Cell(E(j))
        BY <1>3, <3>1, <3>2
      <3> QED
        BY <3>3, <3>4
    <2> QED
      BY <2>2, <2>3 DEF ListCells
  <1>8. \A p \in L : p.st = "hole"
    BY <1>1, <1>2, <1>4
  <1> HIDE DEF L
  <1>9. {Cell(p) : p \in L} = ListCells(kd, id, pos, head, n, e)
    BY <1>6, <1>7
  <1> QED
    BY <1>8, <1>9 DEF L, Covers

\* The places of one object lie in it, and apart.
LEMMA ListCellsApart ==
    ASSUME NEW kd, NEW id, NEW pos \in Nat, NEW head \in Nat, NEW n \in Nat,
           NEW e \in Nat, n > 0 => e > 0
    PROVE  LET L == ListCells(kd, id, pos, head, n, e)
           IN /\ \A c \in L : /\ c \in CellSet /\ c.kind = kd /\ c.len > 0 /\ pos <= c.pos
                              /\ c.pos + c.len <= pos + (head + n * e)
              /\ \A c, d \in L : c = d \/ Apart(c, d)
  <1> DEFINE L == ListCells(kd, id, pos, head, n, e)
             IsHead(c) == head > 0 /\ c.i = id /\ c.pos = pos /\ c.len = head
             IsElem(c) == c.i \in 1..n /\ c.pos = pos + head + (c.i - 1) * e /\ c.len = e
  <1>0. n * e \in Nat
    BY Product
  <1>1. ASSUME NEW c \in L
        PROVE  /\ c \in CellSet /\ c.kind = kd /\ (IsHead(c) \/ IsElem(c))
               /\ c = [kind |-> c.kind, i |-> c.i, pos |-> c.pos, len |-> c.len]
               /\ c.pos \in Nat /\ c.len \in Nat /\ c.i \in Nat
    BY DEF ListCells, CellSet
  <1> HIDE DEF L
  <1>2. ASSUME NEW c \in L, IsElem(c)
        PROVE  (c.i - 1) * e \in Nat /\ (c.i - 1) * e + e <= n * e /\ n > 0
    <2>1. c.i \in 1..n /\ n > 0
      BY <1>2
    <2> QED
      BY <2>1, ElementFits
  <1>3. ASSUME NEW c \in L
        PROVE  c.len > 0 /\ pos <= c.pos /\ c.pos + c.len <= pos + (head + n * e)
    <2>1. CASE IsHead(c)
      BY <1>0, <1>1, <2>1
    <2>2. CASE IsElem(c)
      <3> DEFINE m == (c.i - 1) * e
                 t == n * e
      <3>1. m \in Nat /\ m + e <= t /\ t \in Nat /\ e > 0 /\ c.pos = pos + head + m /\ c.len = e
        BY <1>0, <1>2, <2>2
      <3> HIDE DEF m, t
      <3>2. c.len > 0 /\ pos <= c.pos /\ c.pos + c.len <= pos + (head + t)
        BY <3>1
      <3> QED
        BY <3>2 DEF t
    <2> QED
      BY <1>1, <2>1, <2>2
  <1>4. ASSUME NEW c \in L, NEW d \in L, IsElem(c), IsElem(d), c.i < d.i
        PROVE  Apart(c, d)
    <2> DEFINE a == (c.i - 1) * e
               b == (d.i - 1) * e
    <2>1. a \in Nat /\ b \in Nat /\ a + e <= b
      BY <1>4, ElementsApart
    <2>2. c.pos = pos + head + a /\ d.pos = pos + head + b /\ c.len = e
      BY <1>4
    <2> HIDE DEF a, b
    <2> QED
      BY <2>1, <2>2 DEF Apart
  <1>5. ASSUME NEW c \in L, NEW d \in L, IsHead(c), IsElem(d)
        PROVE  Apart(c, d) /\ Apart(d, c)
    <2> DEFINE b == (d.i - 1) * e
    <2>1. b \in Nat /\ d.pos = pos + head + b /\ c.pos = pos /\ c.len = head
      BY <1>2, <1>5
    <2> HIDE DEF b
    <2> QED
      BY <2>1 DEF Apart
  <1>6. ASSUME NEW c \in L, NEW d \in L PROVE c = d \/ Apart(c, d)
    <2>1. CASE IsHead(c) /\ IsHead(d)
      BY <1>1, <2>1
    <2>2. CASE IsHead(c) /\ IsElem(d)
      BY <1>5, <2>2
    <2>3. CASE IsElem(c) /\ IsHead(d)
      BY <1>5, <2>3
    <2>4. CASE IsElem(c) /\ IsElem(d)
      <3>1. CASE c.i = d.i
        <4>1. c.kind = d.kind /\ c.pos = d.pos /\ c.len = d.len
          BY <1>1, <2>4, <3>1
        <4> QED
          BY <1>1, <3>1, <4>1
      <3>2. CASE c.i < d.i
        BY <1>4, <2>4, <3>2
      <3>3. CASE d.i < c.i
        <4>1. Apart(d, c)
          BY <1>4, <2>4, <3>3
        <4> QED
          BY <4>1 DEF Apart
      <3> QED
        BY <1>1, <3>1, <3>2, <3>3
    <2> QED
      BY <1>1, <2>1, <2>2, <2>3, <2>4
  <1> QED
    BY <1>1, <1>3, <1>6 DEF L

\* Allocate puts the object behind the others, or fails and leaves the file alone.
Placed(v, u, L) ==
    /\ u \in Writer /\ Sound(u) /\ u.short = v.short /\ u.full = v.full
    /\ u.ok => v.ok /\ Cells(u) = Cells(v) \cup L /\ Holes(u) = Holes(v) \cup L
    /\ ~u.ok => Cells(u) = Cells(v) /\ Holes(u) = Holes(v)

\* Allocate, in terms of places.
LEMMA AllocateSound ==
    ASSUME NEW v \in Writer, Sound(v), NEW kd \in Kinds, NEW id \in Nat, NEW head \in Nat,
           NEW n \in Nat, NEW e \in Nat, n > 0 => e > 0
    PROVE  Placed(v, Allocate(v, kd, id, head, n, e), ListCells(kd, id, v.position, head, n, e))
  <1> DEFINE u == Allocate(v, kd, id, head, n, e)
             len == head + n * e
             Y == Layout(kd, id, v.position, head, n, e)
             L == ListCells(kd, id, v.position, head, n, e)
  <1>1. u \in Writer
    BY AllocateFollows, FollowsWriter DEF Allocated
  <1>2. v.position \in Nat /\ v.size \in Nat /\ v.position <= v.size /\ v.ok \in BOOLEAN
    BY DEF Writer, Sound
  <1>3. len \in Nat
    <2>1. n * e \in Nat
      BY Product
    <2> QED
      BY <2>1
  <1>4. Align(len) \in Nat /\ Align(len) >= len
    <2> HIDE DEF len
    <2> QED
      BY <1>3, AlignUp
  <1>5. Growth(len) \in Nat /\ Growth(len) >= Align(len)
    BY <1>4, PageAssumption DEF Growth, Larger
  <1>6. {Cell(p) : p \in Y} = L /\ \A p \in Y : p.st = "hole"
    <2>1. Covers(Y, L)
      BY <1>2, LayoutCells
    <2> HIDE DEF Y, L
    <2> QED
      BY <2>1 DEF Covers
  <1>7. /\ \A c \in L : c \in CellSet /\ c.len > 0 /\ v.position <= c.pos /\ c.pos + c.len <= v.position + len
        /\ \A c, d \in L : c = d \/ Apart(c, d)
    BY <1>2, ListCellsApart
  <1> HIDE DEF Y, L
  <1>8. CASE ~Allocates(v, len)
    <2>1. u = [v EXCEPT !.ok = FALSE]
      BY <1>8 DEF Allocate
    <2> HIDE DEF u
    <2>2. /\ u.position = v.position /\ u.parts = v.parts /\ u.size = v.size
          /\ u.short = v.short /\ u.full = v.full
      BY <2>1 DEF Writer
    <2>3. ~u.ok
      BY <2>1 DEF Writer
    <2>4. Cells(u) = Cells(v) /\ Holes(u) = Holes(v) /\ Sound(u)
      BY <2>2, SameParts
    <2> QED
      BY <1>1, <2>2, <2>3, <2>4 DEF u, Placed
  <1>9. CASE Allocates(v, len)
    <2> DEFINE size == IF MustGrow(v, len) THEN v.size + Growth(len) ELSE v.size
               grow == IF MustGrow(v, len) THEN v.grow - 1 ELSE v.grow
               position == v.position + Align(len)
               parts == v.parts \cup Y
    <2>1. u = [v EXCEPT !.position = position, !.size = size, !.grow = grow, !.parts = parts]
      BY <1>9 DEF Allocate, Y
    <2>2. v.ok
      BY <1>9 DEF Allocates
    <2>3. position <= size /\ position \in Nat /\ v.position + len <= position
      BY <1>2, <1>3, <1>4, <1>5 DEF MustGrow
    <2> HIDE DEF u, len, size, grow, position
    <2>4. u.position = position /\ u.size = size /\ u.parts = parts
      BY <2>1 DEF Writer
    <2>5. u.short = v.short /\ u.full = v.full
      BY <2>1 DEF Writer
    <2>6. Cells(u) = Cells(v) \cup L
      BY <1>6, <2>4 DEF Cells
    <2>7. Holes(u) = Holes(v) \cup L
      <3>1. {q \in u.parts : q.st # "good"} = {q \in v.parts : q.st # "good"} \cup Y
        BY <1>6, <2>4
      <3> QED
        BY <1>6, <3>1 DEF Holes
    <2> HIDE DEF parts
    <2>8. \A c \in Cells(v) : c.pos \in Nat /\ c.len \in Nat /\ c.len > 0 /\ c.pos + c.len <= v.position
      BY CellsType DEF Sound, CellSet
    <2>9. \A c \in L : c.pos \in Nat /\ c.len \in Nat
      BY <1>7 DEF CellSet
    <2>10. \A p \in u.parts : p.st # "bad"
      BY <1>6, <2>4 DEF Sound, parts
    <2>11. ASSUME NEW c \in Cells(u) PROVE c.len > 0 /\ c.pos + c.len <= u.position
      <3>1. CASE c \in Cells(v)
        BY <1>2, <1>3, <2>3, <2>4, <2>8, <3>1 DEF len
      <3>2. CASE c \in L
        BY <1>2, <1>3, <1>7, <2>3, <2>4, <2>9, <3>2
      <3> QED
        BY <2>6, <3>1, <3>2
    <2>12. ASSUME NEW c \in Cells(u), NEW d \in Cells(u) PROVE c = d \/ Apart(c, d)
      <3>1. CASE c \in Cells(v) /\ d \in Cells(v)
        BY <3>1 DEF Sound
      <3>2. CASE c \in L /\ d \in L
        BY <1>7, <3>2
      <3>3. CASE c \in Cells(v) /\ d \in L
        <4>1. c.pos + c.len <= d.pos
          BY <1>2, <1>7, <2>8, <2>9, <3>3
        <4> QED
          BY <4>1 DEF Apart
      <3>4. CASE c \in L /\ d \in Cells(v)
        <4>1. d.pos + d.len <= c.pos
          BY <1>2, <1>7, <2>8, <2>9, <3>4
        <4> QED
          BY <4>1 DEF Apart
      <3> QED
        BY <2>6, <3>1, <3>2, <3>3, <3>4
    <2>13. Sound(u)
      BY <2>3, <2>4, <2>10, <2>11, <2>12 DEF Sound
    <2>14. u.ok = v.ok
      BY <2>1 DEF Writer
    <2> QED
      BY <1>1, <2>2, <2>5, <2>6, <2>7, <2>13, <2>14 DEF u, L, Placed
  <1> HIDE DEF u, len, L
  <1> QED
    BY <1>8, <1>9 DEF u, L

\* The flush of an object that could not be allocated has no effect.
LEMMA FlushNothing ==
    ASSUME NEW v \in Writer, NEW head \in 1..ExceptionSize, Safe(FlushUnallocated(v, head))
    PROVE  FlushUnallocated(v, head) = v
  <1>1. head \in Nat /\ head > 0 /\ head <= 168 /\ 0 \in Nat
    BY DEF ExceptionSize
  <1>2. Written(v, FlushUnallocated(v, head))
    BY <1>1, FlushFollows
  <1>3. Safe(v)
    BY <1>2, GrownSafe DEF Written, Follows
  <1>4. v.size \in Nat /\ RvaMod \in Nat \ {0} /\ SizeMod \in Nat
    BY WidthAssumption DEF Writer
  <1> DEFINE x == kInvalidMDRVA + head
  <1>5. x \in Nat /\ x < SizeMod /\ x > v.size
    BY <1>1, <1>3, <1>4 DEF Safe, Fits, kInvalidMDRVA, ExceptionSize
  <1> HIDE DEF x
  <1>6. x % SizeMod = x
    BY <1>4, <1>5
  <1>7. ~Copies(v, kInvalidMDRVA, head)
    BY <1>4, <1>5, <1>6 DEF Copies, x
  <1> QED
    BY <1>7 DEF FlushUnallocated, Copy

\* u is v with objects of the kinds K added, all of them written.
Adds(v, u, K) ==
    /\ u \in Writer /\ Sound(u)
    /\ Cells(v) \subseteq Cells(u)
    /\ \A c \in Cells(u) : c \in Cells(v) \/ c.kind \in K
    /\ Holes(u) \subseteq Holes(v)

\* Objects added one after the other.
LEMMA AddsTransitive ==
    ASSUME NEW v, NEW u, NEW x, NEW J, NEW K, NEW M, Adds(v, u, J), Adds(u, x, K),
           J \subseteq M, K \subseteq M
    PROVE  Adds(v, x, M)
  BY DEF Adds

\* Nothing added.
LEMMA AddsSelf ==
    ASSUME NEW v \in Writer, Sound(v), NEW K
    PROVE  Adds(v, v, K)
  BY DEF Adds

\* u is v with another result.
Reset(v, u, b) ==
    /\ u \in Writer /\ Cells(u) = Cells(v) /\ Holes(u) = Holes(v) /\ (Sound(v) <=> Sound(u))
    /\ (Safe(v) <=> Safe(u)) /\ u.position = v.position /\ u.ok = b /\ u.full = v.full

\* A result that is set.
LEMMA SetOkSound ==
    ASSUME NEW v \in Writer, NEW b \in BOOLEAN
    PROVE  Reset(v, [v EXCEPT !.ok = b], b)
  <1> DEFINE u == [v EXCEPT !.ok = b]
  <1>1. /\ u \in Writer /\ u.position = v.position /\ u.parts = v.parts /\ u.size = v.size
        /\ u.short = v.short /\ u.full = v.full
    BY DEF Writer
  <1>2. u.ok = b
    BY DEF Writer
  <1> HIDE DEF u
  <1>3. Cells(u) = Cells(v) /\ Holes(u) = Holes(v) /\ (Sound(v) <=> Sound(u))
    BY <1>1, SameParts
  <1>4. Safe(v) <=> Safe(u)
    BY <1>1 DEF Safe, Fits
  <1> QED
    BY <1>1, <1>2, <1>3, <1>4 DEF u, Reset

\* The cell of a new object.
LEMMA HeadCell ==
    ASSUME NEW kd \in Kinds, NEW id \in Nat, NEW pos \in Nat, NEW head \in Nat \ {0}, NEW n, NEW e
    PROVE  \E c \in ListCells(kd, id, pos, head, n, e) :
               c.kind = kd /\ c.i = id /\ c.pos = pos /\ c.len = head
  <1> DEFINE c == [kind |-> kd, i |-> id, pos |-> pos, len |-> head]
  <1>1. c \in CellSet /\ c.kind = kd /\ c.i = id /\ c.pos = pos /\ c.len = head
    BY DEF CellSet
  <1> HIDE DEF c
  <1>2. c \in ListCells(kd, id, pos, head, n, e)
    BY <1>1 DEF ListCells
  <1> QED
    BY <1>1, <1>2

\* An object without elements has one cell.
LEMMA OneCell ==
    ASSUME NEW kd, NEW id, NEW pos, NEW head, NEW e,
           NEW c \in ListCells(kd, id, pos, head, 0, e)
    PROVE  ListCells(kd, id, pos, head, 0, e) = {c}
  <1>1. ASSUME NEW x \in ListCells(kd, id, pos, head, 0, e)
        PROVE  /\ x.kind = kd /\ x.i = id /\ x.pos = pos /\ x.len = head
               /\ x = [kind |-> x.kind, i |-> x.i, pos |-> x.pos, len |-> x.len]
    BY DEF ListCells, CellSet
  <1>2. ASSUME NEW x \in ListCells(kd, id, pos, head, 0, e) PROVE x = c
    <2>1. /\ x.kind = kd /\ x.i = id /\ x.pos = pos /\ x.len = head
          /\ x = [kind |-> x.kind, i |-> x.i, pos |-> x.pos, len |-> x.len]
      BY <1>1
    <2>2. /\ c.kind = kd /\ c.i = id /\ c.pos = pos /\ c.len = head
          /\ c = [kind |-> c.kind, i |-> c.i, pos |-> c.pos, len |-> c.len]
      BY <1>1
    <2> QED
      BY <2>1, <2>2
  <1> QED
    BY <1>2

\* A new object was written, and its position is the one it was allocated at.
Added(v, u, kd) ==
    /\ Adds(v, u, {kd})
    /\ u.ok => v.ok /\ \E c \in Cells(u) : c.kind = kd /\ c.pos = v.position

\* An object that is allocated and written.
LEMMA ObjectAdded ==
    ASSUME NEW v \in Writer, Sound(v), NEW kd \in Kinds, NEW id \in Nat, NEW head \in Nat \ {0},
           NEW a, a = Allocate(v, kd, id, head, 0, 0), a.ok,
           Safe(Copy(a, kd, v.position, head))
    PROVE  Added(v, Copy(a, kd, v.position, head), kd)
  <1> DEFINE u == Copy(a, kd, v.position, head)
             L == ListCells(kd, id, v.position, head, 0, 0)
  <1>1. Placed(v, a, L)
    BY AllocateSound
  <1>2. v.position \in Nat
    BY DEF Writer
  <1>3. PICK c \in L : c.kind = kd /\ c.pos = v.position /\ c.len = head
    BY <1>2, HeadCell
  <1>4. L = {c}
    BY OneCell
  <1> HIDE DEF L
  <1>5. a \in Writer /\ Sound(a) /\ v.ok /\ Cells(a) = Cells(v) \cup {c} /\ Holes(a) = Holes(v) \cup {c}
    BY <1>1, <1>4 DEF Placed
  <1>6. Filled(a, u, {c})
    BY <1>3, <1>5, CopyCell
  <1> HIDE DEF u
  <1>7. Added(v, u, kd)
    BY <1>3, <1>5, <1>6 DEF Filled, Adds, Added
  <1> QED
    BY <1>7 DEF u

\* ... or not.
LEMMA NothingAdded ==
    ASSUME NEW v \in Writer, Sound(v), NEW a, NEW L, Placed(v, a, L), ~a.ok, NEW kd
    PROVE  Added(v, a, kd)
  BY DEF Placed, Added, Adds

\* WriteObject
LEMMA WriteObjectAdds ==
    ASSUME NEW v \in Writer, Sound(v), NEW kd \in Kinds, NEW id \in Nat, NEW head \in 1..ExceptionSize,
           Safe(WriteObject(v, kd, id, head))
    PROVE  Added(v, WriteObject(v, kd, id, head), kd)
  <1> DEFINE a == Allocate(v, kd, id, head, 0, 0)
             u == WriteObject(v, kd, id, head)
  <1>1. head \in Nat \ {0} /\ head \in Nat
    BY DEF ExceptionSize
  <1>2. Placed(v, a, ListCells(kd, id, v.position, head, 0, 0))
    BY <1>1, AllocateSound
  <1>3. u = IF ~v.ok THEN v ELSE IF a.ok THEN Copy(a, kd, v.position, head) ELSE FlushUnallocated(a, head)
    BY DEF WriteObject, Flush
  <1>4. a = Allocate(v, kd, id, head, 0, 0) /\ Safe(u)
    OBVIOUS
  <1> HIDE DEF a, u
  <1>5. CASE ~v.ok
    BY <1>3, <1>5, AddsSelf DEF Added, u
  <1>6. CASE v.ok /\ a.ok
    BY <1>1, <1>3, <1>4, <1>6, ObjectAdded DEF u
  <1>7. CASE v.ok /\ ~a.ok
    <2>1. u = a
      BY <1>2, <1>3, <1>4, <1>7, FlushNothing DEF Placed
    <2> QED
      BY <1>2, <1>7, <2>1, NothingAdded DEF u
  <1> QED
    BY <1>5, <1>6, <1>7

\* WriteBlock
LEMMA WriteBlockAdds ==
    ASSUME NEW v \in Writer, Sound(v), NEW kd \in Kinds, NEW id \in Nat, NEW len \in Nat \ {0},
           Safe(WriteBlock(v, kd, id, len))
    PROVE  Added(v, WriteBlock(v, kd, id, len), kd)
  <1> DEFINE a == Allocate(v, kd, id, len, 0, 0)
             u == WriteBlock(v, kd, id, len)
  <1>2. Placed(v, a, ListCells(kd, id, v.position, len, 0, 0))
    BY AllocateSound
  <1>3. u = IF a.ok THEN Copy(a, kd, v.position, len) ELSE a
    BY DEF WriteBlock
  <1>4. a = Allocate(v, kd, id, len, 0, 0) /\ Safe(u)
    OBVIOUS
  <1> HIDE DEF a, u
  <1>5. CASE a.ok
    BY <1>3, <1>4, <1>5, ObjectAdded DEF u
  <1>6. CASE ~a.ok
    BY <1>2, <1>3, <1>6, NothingAdded DEF u
  <1> QED
    BY <1>5, <1>6

\* Places are what their fields say.
LEMMA CellEqual ==
    ASSUME NEW c \in CellSet, NEW d \in CellSet, c.kind = d.kind, c.i = d.i, c.pos = d.pos, c.len = d.len
    PROVE  c = d
  BY DEF CellSet

\* The element j of a list lies at q.
ElementAt(L, kd, j, q, e) == \E c \in L : c.kind = kd /\ c.i = j /\ c.pos = q /\ c.len = e

\* The place of an element.
LEMMA ElementCell ==
    ASSUME NEW kd \in Kinds, NEW id, NEW pos \in Nat, NEW head \in Nat, NEW n \in Nat, NEW e \in Nat,
           NEW j \in 1..n, NEW q, q = pos + head + (j - 1) * e
    PROVE  ElementAt(ListCells(kd, id, pos, head, n, e), kd, j, q, e)
  <1> DEFINE c == [kind |-> kd, i |-> j, pos |-> q, len |-> e]
  <1>1. q \in Nat /\ q = pos + head + (j - 1) * e
    <2>1. (j - 1) * e \in Nat
      BY ElementFits
    <2> QED
      BY <2>1
  <1>2. c \in CellSet /\ c.kind = kd /\ c.i = j /\ c.pos = q /\ c.len = e
    BY <1>1 DEF CellSet
  <1> HIDE DEF c
  <1>3. c \in ListCells(kd, id, pos, head, n, e)
    BY <1>1, <1>2 DEF ListCells
  <1> QED
    BY <1>1, <1>2, <1>3 DEF ElementAt

\* The objects of the kind kd in v are one object with n elements, at pos.
ListOf(v, kd, pos, head, n, e) == {c \in Cells(v) : c.kind = kd} = ListCells(kd, 0, pos, head, n, e)
\* The records of a kind with the number i.
Numbered(v, kd, i) == {c \in Cells(v) : c.kind = kd /\ c.i = i}

\* The parameters of a list.
IsList(kd, pos, head, n, e) ==
    kd \in Kinds /\ pos \in Nat /\ head \in Nat /\ n \in Nat /\ e \in Nat /\ (n > 0 => e > 0)

\* The sole element of its number.
LEMMA ElementNumbered ==
    ASSUME NEW v, NEW kd, NEW pos, NEW head, NEW n, NEW e, IsList(kd, pos, head, n, e),
           ListOf(v, kd, pos, head, n, e), NEW j \in 1..n
    PROVE  \E c \in Cells(v) : /\ c.kind = kd /\ c.i = j /\ c.pos = pos + head + (j - 1) * e /\ c.len = e
                               /\ Numbered(v, kd, j) = {c}
  <1> DEFINE L == ListCells(kd, 0, pos, head, n, e)
             q == pos + head + (j - 1) * e
  <1>0. kd \in Kinds /\ pos \in Nat /\ head \in Nat /\ n \in Nat /\ e \in Nat
    BY DEF IsList
  <1>1. PICK c \in L : c.kind = kd /\ c.i = j /\ c.pos = q /\ c.len = e
    <2>1. q = pos + head + (j - 1) * e
      OBVIOUS
    <2> HIDE DEF q
    <2>2. ElementAt(L, kd, j, q, e)
      BY <1>0, <2>1, ElementCell
    <2> QED
      BY <2>2 DEF ElementAt
  <1>2. c \in Cells(v) /\ \A x \in Cells(v) : x.kind = kd => x \in L
    BY <1>1 DEF ListOf
  <1>3. ASSUME NEW x \in L, x.i = j PROVE x = c
    <2>1. x \in CellSet /\ x.kind = kd /\ j # 0
      BY DEF ListCells, IsList
    <2>2. x.pos = q /\ x.len = e
      BY <1>3, <2>1 DEF ListCells
    <2>3. c \in CellSet
      BY DEF ListCells
    <2> HIDE DEF L, q
    <2> QED
      BY <1>1, <1>3, <2>1, <2>2, <2>3, CellEqual
  <1> HIDE DEF L
  <1>4. Numbered(v, kd, j) = {c}
    BY <1>1, <1>2, <1>3 DEF Numbered
  <1> QED
    BY <1>1, <1>2, <1>4

\* The sole head.
LEMMA HeadNumbered ==
    ASSUME NEW v, NEW kd, NEW pos, NEW head, NEW n, NEW e, IsList(kd, pos, head, n, e), head > 0,
           ListOf(v, kd, pos, head, n, e)
    PROVE  \E c \in Cells(v) : /\ c.kind = kd /\ c.i = 0 /\ c.pos = pos /\ c.len = head
                               /\ Numbered(v, kd, 0) = {c}
  <1> DEFINE L == ListCells(kd, 0, pos, head, n, e)
  <1>1. PICK c \in L : c.kind = kd /\ c.i = 0 /\ c.pos = pos /\ c.len = head
    BY HeadCell DEF IsList
  <1>2. c \in Cells(v) /\ \A x \in Cells(v) : x.kind = kd => x \in L
    BY <1>1 DEF ListOf
  <1>3. ASSUME NEW x \in L, x.i = 0 PROVE x = c
    <2>1. x \in CellSet /\ x.kind = kd /\ c \in CellSet
      BY DEF ListCells
    <2>2. x.pos = pos /\ x.len = head
      BY <1>3 DEF ListCells, IsList
    <2> HIDE DEF L
    <2> QED
      BY <1>1, <1>3, <2>1, <2>2, CellEqual
  <1> HIDE DEF L
  <1>4. Numbered(v, kd, 0) = {c}
    BY <1>1, <1>2, <1>3 DEF Numbered
  <1> QED
    BY <1>1, <1>2, <1>4

\* PositionOf finds where the list begins.
LEMMA ListPosition ==
    ASSUME NEW v \in Writer, NEW kd, NEW pos, NEW head, NEW n, NEW e, IsList(kd, pos, head, n, e),
           head > 0 \/ n > 0, ListOf(v, kd, pos, head, n, e)
    PROVE  PositionOf(v, kd) = pos
  <1> DEFINE L == ListCells(kd, 0, pos, head, n, e)
  <1>1. \E c \in Cells(v) : c.kind = kd /\ c.pos = pos
    <2>1. CASE head > 0
      BY <2>1, HeadNumbered
    <2>2. CASE ~(head > 0)
      <3>1. head = 0 /\ 1 \in 1..n
        BY <2>2 DEF IsList
      <3>2. PICK c \in Cells(v) : c.kind = kd /\ c.pos = pos + head + (1 - 1) * e
        BY <3>1, ElementNumbered
      <3>3. c.pos = pos
        BY <3>1, <3>2 DEF IsList
      <3> QED
        BY <3>2, <3>3
    <2> QED
      BY <2>1, <2>2
  <1>2. \A c \in Cells(v) : c.kind = kd => pos <= c.pos
    <2>1. \A c \in L : pos <= c.pos
      BY ListCellsApart DEF IsList
    <2> QED
      BY <2>1 DEF ListOf
  <1>3. v.parts \subseteq Part /\ pos \in Nat
    BY DEF Writer, IsList
  <1>4. \A p \in v.parts : p.kind = kd => pos <= p.pos /\ p.pos \in Nat
    <2> SUFFICES ASSUME NEW p \in v.parts, p.kind = kd PROVE pos <= p.pos /\ p.pos \in Nat
      OBVIOUS
    <2>1. p \in Part /\ Cell(p) \in Cells(v)
      BY <1>3 DEF Cells
    <2>2. Cell(p).kind = kd /\ Cell(p).pos = p.pos /\ p.pos \in Nat
      BY <2>1, CellFields DEF Part
    <2> QED
      BY <1>2, <2>1, <2>2
  <1>5. \E p \in v.parts : p.kind = kd /\ p.pos = pos
    <2>1. PICK c \in Cells(v) : c.kind = kd /\ c.pos = pos
      BY <1>1
    <2>2. PICK p \in v.parts : c = Cell(p)
      BY DEF Cells
    <2>3. p.kind = kd /\ p.pos = pos
      BY <1>3, <2>1, <2>2, CellFields
    <2> QED
      BY <2>3
  <1> DEFINE IsFirst(r) == r.kind = kd /\ \A q \in v.parts : q.kind = kd => r.pos <= q.pos
             f == CHOOSE r \in v.parts : IsFirst(r)
  <1>6. \E r \in v.parts : IsFirst(r)
    BY <1>4, <1>5
  <1>7. f \in v.parts /\ IsFirst(f)
    <2> HIDE DEF IsFirst
    <2> QED
      BY <1>6
  <1>8. f.pos <= pos /\ pos <= f.pos /\ f.pos \in Nat
    <2> HIDE DEF f
    <2> QED
      BY <1>4, <1>5, <1>7
  <1>9. f.pos = pos
    <2> HIDE DEF f
    <2> QED
      BY <1>3, <1>8
  <1> QED
    BY <1>9 DEF PositionOf

\* CopyIndexAfterObject, one element.
LEMMA ElementWritten ==
    ASSUME NEW v \in Writer, Sound(v), v.ok, NEW kd, NEW pos, NEW head, NEW n, NEW e,
           IsList(kd, pos, head, n, e), ListOf(v, kd, pos, head, n, e), NEW j \in 1..n,
           Safe(CopyIndex(v, kd, head, j, j, e))
    PROVE  Filled(v, CopyIndex(v, kd, head, j, j, e), Numbered(v, kd, j))
  <1> DEFINE q == pos + head + (j - 1) * e
             u == CopyIndex(v, kd, head, j, j, e)
  <1>1. PICK c \in Cells(v) : c.kind = kd /\ c.i = j /\ c.pos = q /\ c.len = e /\ Numbered(v, kd, j) = {c}
    BY ElementNumbered
  <1>2. n > 0 /\ n \in Nat /\ j \in Nat /\ e \in Nat
    BY DEF IsList
  <1>3. PositionOf(v, kd) = pos
    BY <1>2, ListPosition
  <1>4. (j - j + 1) * e = e /\ j <= j
    BY <1>2
  <1>5. u = Copy(v, kd, q, e)
    BY <1>3, <1>4 DEF CopyIndex
  <1>6. Safe(u)
    OBVIOUS
  <1> HIDE DEF u, q
  <1>7. Filled(v, u, {c})
    BY <1>1, <1>5, <1>6, CopyCell
  <1> QED
    BY <1>1, <1>7 DEF u

\* The destructor of the list's object.
LEMMA HeadWritten ==
    ASSUME NEW v \in Writer, Sound(v), NEW kd, NEW pos, NEW head, NEW n, NEW e, head > 0,
           IsList(kd, pos, head, n, e), ListOf(v, kd, pos, head, n, e), Safe(Flush(v, kd, pos, head))
    PROVE  Filled(v, Flush(v, kd, pos, head), Numbered(v, kd, 0))
  <1> DEFINE u == Flush(v, kd, pos, head)
  <1>1. PICK c \in Cells(v) : c.kind = kd /\ c.pos = pos /\ c.len = head /\ Numbered(v, kd, 0) = {c}
    BY HeadNumbered
  <1>2. u = Copy(v, kd, pos, head) /\ Safe(u)
    BY DEF Flush
  <1> HIDE DEF u
  <1>3. Filled(v, u, {c})
    BY <1>1, <1>2, CopyCell
  <1> QED
    BY <1>1, <1>3 DEF u

\* CopyIndexAfterObject, all the elements of a list that was allocated last.
LEMMA ElementsWritten ==
    ASSUME NEW v \in Writer, Sound(v), v.ok, NEW kd, NEW pos, NEW n, IsList(kd, pos, 4, n, 16),
           ListOf(v, kd, pos, 4, n, 16), \A c \in Cells(v) : c.kind # kd => c.pos + c.len <= pos,
           Safe(CopyIndex(v, kd, 4, 1, n, 16))
    PROVE  Filled(v, CopyIndex(v, kd, 4, 1, n, 16), {c \in Cells(v) : c.kind = kd /\ c.i # 0})
  <1> DEFINE D == {c \in Cells(v) : c.kind = kd /\ c.i # 0}
             L == ListCells(kd, 0, pos, 4, n, 16)
             u == CopyIndex(v, kd, 4, 1, n, 16)
  <1>0. pos \in Nat /\ n \in Nat /\ v.position \in Nat
    BY DEF IsList, Writer
  <1>1. \A c \in Cells(v) : /\ c.kind = kd => c \in L
                            /\ c.pos \in Nat /\ c.len \in Nat /\ c.i \in Nat
    BY CellsType DEF ListOf, CellSet
  <1>2. ASSUME NEW c \in Cells(v), c.kind = kd
        PROVE  \/ c.i = 0 /\ c.pos = pos /\ c.len = 4
               \/ c.i \in 1..n /\ c.pos = pos + 4 + (c.i - 1) * 16 /\ c.len = 16
    BY <1>1, <1>2 DEF ListCells
  <1>3. CASE n = 0
    <2>1. u = v
      BY <1>3 DEF CopyIndex
    <2>2. D = {}
      BY <1>2, <1>3
    <2> HIDE DEF D, u
    <2>3. Filled(v, u, D)
      BY <2>1, <2>2 DEF Filled
    <2> QED
      BY <2>3 DEF D, u
  <1>4. CASE n # 0
    <2> DEFINE q == pos + 4
               m == n * 16
    <2>1. PositionOf(v, kd) = pos
      BY <1>0, ListPosition
    <2>2. u = Copy(v, kd, q, m)
      <3>1. (n - 1 + 1) * 16 = m /\ 1 <= n /\ pos + 4 + (1 - 1) * 16 = q
        BY <1>0, <1>4
      <3> QED
        BY <2>1, <3>1 DEF CopyIndex
    <2>3. q \in Nat /\ m \in Nat
      BY <1>0
    <2>4. ASSUME NEW c \in Cells(v), c \in D PROVE Overlap(c, q, m) /\ Inside(c, q, m)
      BY <1>0, <1>1, <1>2, <2>4 DEF Overlap, Inside
    <2>5. ASSUME NEW c \in Cells(v), c \notin D PROVE ~Overlap(c, q, m)
      <3>1. CASE c.kind = kd
        BY <1>0, <1>2, <2>5, <3>1 DEF Overlap
      <3>2. CASE c.kind # kd
        BY <1>0, <1>1, <3>2 DEF Overlap
      <3> QED
        BY <3>1, <3>2
    <2>6. q + m <= v.position
      <3>1. n \in 1..n
        BY <1>0, <1>4
      <3>2. PICK c \in Cells(v) : c.pos = pos + 4 + (n - 1) * 16 /\ c.len = 16
        BY <3>1, ElementNumbered
      <3>3. c.pos + c.len <= v.position
        BY DEF Sound
      <3> QED
        BY <1>0, <3>2, <3>3
    <2>7. Safe(u)
      OBVIOUS
    <2> HIDE DEF u, q, m
    <2>8. Struck(v, q, m) = D
      BY <2>4, <2>5 DEF Struck
    <2>9. \A c \in Struck(v, q, m) : c.kind = kd /\ Inside(c, q, m)
      BY <2>4, <2>8
    <2> HIDE DEF D
    <2>10. Filled(v, u, Struck(v, q, m))
      BY <2>2, <2>3, <2>6, <2>7, <2>9, CopyOwn
    <2> QED
      BY <2>8, <2>10 DEF D, u
  <1> QED
    BY <1>3, <1>4

\* WriteStringCore, of a text that could be converted.
LEMMA WriteStringAdds ==
    ASSUME NEW v \in Writer, Sound(v), NEW kd \in Kinds, NEW len \in Nat \ {0}, NEW valid \in BOOLEAN,
           NEW u, u = WriteString(v, kd, len, valid), Safe(u), valid \/ u.ok
    PROVE  Adds(v, u, {kd}) /\ (u.ok => v.ok)
  <1> DEFINE a == Allocate(v, kd, 0, StringHead, 1, len)
             pos == v.position + StringHead
             c == Copy(a, kd, pos, len)
             f == Flush(c, kd, v.position, StringHead)
             L == ListCells(kd, 0, v.position, StringHead, 1, len)
  <1>0. /\ StringHead = 4 /\ v.position \in Nat /\ pos \in Nat /\ (~v.full) \in BOOLEAN
        /\ 0 \in Nat /\ 1 \in Nat /\ StringHead \in Nat \ {0} /\ StringHead \in 1..ExceptionSize
    BY DEF StringHead, Writer, ExceptionSize
  <1>1. Placed(v, a, L)
    BY <1>0, AllocateSound
  <1>2. u = IF ~v.ok THEN v
            ELSE IF ~a.ok THEN FlushUnallocated(a, StringHead)
            ELSE IF ~valid THEN [Flush(a, kd, v.position, StringHead) EXCEPT !.ok = FALSE]
            ELSE [f EXCEPT !.ok = ~v.full]
    BY DEF WriteString
  <1>3. PICK h \in L : h.kind = kd /\ h.i = 0 /\ h.pos = v.position /\ h.len = StringHead
    BY <1>0, HeadCell
  <1>4. PICK x \in L : x.kind = kd /\ x.i = 1 /\ x.pos = pos /\ x.len = len
    <2>1. pos = v.position + StringHead + (1 - 1) * len /\ 1 \in 1..1
      BY <1>0
    <2>2. ElementAt(L, kd, 1, pos, len)
      BY <1>0, <2>1, ElementCell
    <2> QED
      BY <2>2 DEF ElementAt
  <1>5. L = {h, x}
    <2>1. ASSUME NEW y \in L PROVE y = h \/ y = x
      <3>1. y \in CellSet /\ h \in CellSet /\ x \in CellSet /\ y.kind = kd
        BY DEF ListCells
      <3>2. \/ y.i = 0 /\ y.pos = v.position /\ y.len = StringHead
            \/ y.i = 1 /\ y.pos = pos /\ y.len = len
        BY <1>0 DEF ListCells
      <3> HIDE DEF L
      <3> QED
        BY <1>3, <1>4, <3>1, <3>2, CellEqual
    <2> HIDE DEF L
    <2> QED
      BY <2>1
  <1> HIDE DEF a, L, pos
  <1>6. a \in Writer
    BY <1>1 DEF Placed
  <1>7. CASE ~v.ok
    BY <1>2, <1>7, AddsSelf
  <1>8. CASE v.ok /\ ~a.ok
    <2>1. u = a
      BY <1>0, <1>2, <1>6, <1>8, FlushNothing
    <2> QED
      BY <1>1, <1>8, <2>1 DEF Placed, Adds
  <1>9. CASE v.ok /\ a.ok /\ ~valid
    <2>1. u = [Flush(a, kd, v.position, StringHead) EXCEPT !.ok = FALSE]
      BY <1>2, <1>9
    <2>2. Flush(a, kd, v.position, StringHead) \in Writer
      BY <1>0, <1>6, FlushFollows, FollowsWriter DEF Written
    <2>3. ~u.ok
      BY <2>1, <2>2 DEF Writer
    <2> QED
      BY <1>9, <2>3
  <1>10. CASE v.ok /\ a.ok /\ valid
    <2>1. u = [f EXCEPT !.ok = ~v.full]
      BY <1>2, <1>10
    <2>2. c \in Writer /\ Grown(a, c)
      BY <1>0, <1>6, CopyFollows DEF Written, Follows, Grown
    <2> HIDE DEF c
    <2>3. f \in Writer /\ Grown(c, f)
      BY <1>0, <2>2, FlushFollows DEF Written, Follows, Grown
    <2>4. f = Copy(c, kd, v.position, StringHead)
      BY DEF Flush
    <2> HIDE DEF f
    <2>5. /\ u \in Writer /\ Cells(u) = Cells(f) /\ Holes(u) = Holes(f) /\ (Sound(f) <=> Sound(u))
          /\ (Safe(f) <=> Safe(u))
      <3>1. Reset(f, u, ~v.full)
        BY <1>0, <2>1, <2>3, SetOkSound
      <3> QED
        BY <3>1 DEF Reset
    <2>6. Safe(f) /\ Safe(c)
      BY <2>2, <2>3, <2>5, GrownSafe
    <2>7. /\ Sound(a) /\ Cells(a) = Cells(v) \cup {h, x} /\ Holes(a) = Holes(v) \cup {h, x}
      BY <1>1, <1>5, <1>10 DEF Placed
    <2>8. Filled(a, c, {x})
      BY <1>4, <1>6, <2>6, <2>7, CopyCell DEF c
    <2>9. Sound(c) /\ h \in Cells(c)
      BY <2>7, <2>8 DEF Filled
    <2>10. Filled(c, f, {h})
      BY <1>3, <2>2, <2>4, <2>6, <2>9, CopyCell
    <2>11. Cells(u) = Cells(v) \cup {h, x} /\ Holes(u) \subseteq Holes(v) /\ Sound(u)
      BY <2>5, <2>7, <2>8, <2>10 DEF Filled
    <2> QED
      BY <1>3, <1>4, <1>10, <2>5, <2>11 DEF Adds
  <1> QED
    BY <1>7, <1>8, <1>9, <1>10

\* AllocateList
LEMMA AllocateListPlaced ==
    ASSUME NEW v \in Writer, Sound(v), NEW kd \in Kinds, NEW head \in 1..ExceptionSize, NEW n \in Nat,
           NEW e \in Nat, n > 0 => e > 0, NEW u, u = AllocateList(v, kd, head, n, e), Safe(u)
    PROVE  Placed(v, u, ListCells(kd, 0, v.position, head, n, e))
  <1> DEFINE a == Allocate(v, kd, 0, head, n, e)
             L == ListCells(kd, 0, v.position, head, n, e)
  <1>1. head \in Nat /\ 0 \in Nat
    BY DEF ExceptionSize
  <1>2. Placed(v, a, L)
    BY <1>1, AllocateSound
  <1>3. u = IF v.ok /\ ~a.ok THEN FlushUnallocated(a, head) ELSE a
    BY DEF AllocateList
  <1> HIDE DEF a, L
  <1>4. v.ok /\ ~a.ok => FlushUnallocated(a, head) = a
    BY <1>2, <1>3, FlushNothing DEF Placed
  <1>5. Placed(v, u, L)
    BY <1>2, <1>3, <1>4
  <1> QED
    BY <1>5 DEF L

\* The objects of u that are not in v are of the kinds K.
Extends(v, u, K) == Cells(v) \subseteq Cells(u) /\ \A c \in Cells(u) : c \in Cells(v) \/ c.kind \in K

\* There is no object of the kind.
Fresh(v, kd) == \A c \in Cells(v) : c.kind # kd

\* Objects allocated one after the other.
LEMMA ExtendsTransitive ==
    ASSUME NEW v, NEW u, NEW x, NEW J, NEW K, NEW M, Extends(v, u, J), Extends(u, x, K), J \subseteq M,
           K \subseteq M
    PROVE  Extends(v, x, M)
  BY DEF Extends

\* What is allocated leaves the objects of other kinds alone.
LEMMA ExtendsKept ==
    ASSUME NEW v, NEW u, NEW K, Extends(v, u, K), NEW kd, kd \notin K
    PROVE  /\ Fresh(v, kd) => Fresh(u, kd)
           /\ \A pos, head, n, e : ListOf(v, kd, pos, head, n, e) => ListOf(u, kd, pos, head, n, e)
  <1>1. {c \in Cells(u) : c.kind = kd} = {c \in Cells(v) : c.kind = kd}
    BY DEF Extends
  <1>2. \A pos, head, n, e : ListOf(v, kd, pos, head, n, e) => ListOf(u, kd, pos, head, n, e)
    BY <1>1 DEF ListOf
  <1> QED
    BY <1>2 DEF Fresh, Extends

\* Allocate adds objects of one kind.
LEMMA PlacedExtends ==
    ASSUME NEW v, NEW u, NEW kd, NEW id, NEW pos, NEW head, NEW n, NEW e,
           Placed(v, u, ListCells(kd, id, pos, head, n, e))
    PROVE  Extends(v, u, {kd})
  BY DEF Placed, Extends, ListCells

\* A list of a kind that was not there.
LEMMA ListPlaced ==
    ASSUME NEW v, NEW u, NEW kd, NEW pos, NEW head, NEW n, NEW e,
           Placed(v, u, ListCells(kd, 0, pos, head, n, e)), u.ok, Fresh(v, kd)
    PROVE  ListOf(u, kd, pos, head, n, e)
  <1> DEFINE L == ListCells(kd, 0, pos, head, n, e)
  <1>1. \A c \in L : c.kind = kd
    BY DEF ListCells
  <1>2. Cells(u) = Cells(v) \cup L
    BY DEF Placed
  <1> HIDE DEF L
  <1>3. {c \in Cells(u) : c.kind = kd} = L
    BY <1>1, <1>2 DEF Fresh
  <1> QED
    BY <1>3 DEF ListOf, L

\* A write adds no object.
LEMMA FilledExtends ==
    ASSUME NEW v, NEW u, NEW D, Filled(v, u, D), NEW K
    PROVE  Extends(v, u, K)
  BY DEF Filled, Extends

\* Objects that are written are allocated.
LEMMA AddsExtends ==
    ASSUME NEW v, NEW u, NEW K, Adds(v, u, K)
    PROVE  Extends(v, u, K)
  BY DEF Adds, Extends

\* Files with the same objects.
LEMMA SameExtends ==
    ASSUME NEW v, NEW u, NEW K, Cells(u) = Cells(v)
    PROVE  Extends(v, u, K)
  BY DEF Extends

\* The directory.
DirThere(v) == \E pos \in Nat : ListOf(v, "dir", pos, 0, kNumWriters, DirectorySize)

\* The directory is a list.
LEMMA DirIsList ==
    ASSUME NEW pos \in Nat
    PROVE  IsList("dir", pos, 0, kNumWriters, DirectorySize)
  BY DEF IsList, Kinds, kNumWriters, DirectorySize

\* An entry of the directory.
LEMMA EntryWritten ==
    ASSUME NEW v \in Writer, Sound(v), v.ok, DirThere(v), dir \in Seq(Entries), Len(dir) < kNumWriters,
           Safe(Entered(v))
    PROVE  Filled(v, Entered(v), Numbered(v, "dir", Len(dir) + 1))
  <1> DEFINE j == Len(dir) + 1
  <1>1. j \in 1..kNumWriters
    BY DEF kNumWriters
  <1>2. Entered(v) = CopyIndex(v, "dir", 0, j, j, DirectorySize)
    BY DEF Entered
  <1> HIDE DEF j
  <1>4. PICK pos \in Nat : ListOf(v, "dir", pos, 0, kNumWriters, DirectorySize)
    BY DEF DirThere
  <1>3. Filled(v, Entered(v), Numbered(v, "dir", j))
    BY <1>1, <1>2, <1>4, DirIsList, ElementWritten
  <1> QED
    BY <1>3 DEF j

-----------------------------------------------------------------------------
(* The stages of the dump leave a sound file. *)

\* The crashing thread's registers lie at the position.
CpuAt(v, pos) == \E c \in Cells(v) : c.kind = "cpu" /\ c.pos = pos
\* What an entry of the directory points to is there.
Points(v, x) == x # NullEntry => x.kind # "linkmap" /\ \E c \in Cells(v) : c.kind = x.kind /\ c.pos = x.pos
Pointed == \A j \in 1..Len(dir) : Points(w, dir[j])
\* What is not written yet once a stage is over: entries of the directory, and a link map
\* that was given up.
Pending(c) == c.kind = "linkmap" \/ (c.kind = "dir" /\ c.i > Len(dir))
\* The lists that are yet to come.
Upcoming ==
    /\ dpc = "list" => Fresh(w, "threads")
    /\ dpc \in {"list", "threads", "modlist"} => Fresh(w, "modules")
    /\ dpc \in {"list", "threads", "modlist", "modules", "memory"} => Fresh(w, "memory")
    /\ dpc # "resume" => Fresh(w, "linkmap") /\ Fresh(w, "debug")
\* What is not written yet within a stage: the elements of its list, and the list itself.
Awaited(kd, stage, c) == dpc = stage /\ c.kind = kd /\ (c.i = 0 \/ c.i >= k)
HolesKnown ==
    \A c \in Holes(w) : Pending(c) \/ Awaited("threads", "threads", c) \/ Awaited("modules", "modules", c)
\* The registers of the crashing thread are where the exception will say.
CrashPointed ==
    dpc \notin {"header", "list"} =>
        \A i \in 1..Len(tids) : tids[i] = cctx[1] /\ (dpc = "threads" => i < k) => CpuAt(w, context)

FileSound ==
    /\ Sound(w)
    /\ dpc = "header" => w = NewFile
    /\ dpc # "header" => DirThere(w)
    /\ dpc = "threads" => \E pos \in Nat : ListOf(w, "threads", pos, 4, Len(tids), ThreadSize)
    /\ dpc = "modules" => \E pos \in Nat : ListOf(w, "modules", pos, 4, Modules, ModuleSize)
    /\ dpc = "resume" => Len(dir) = kNumWriters
    /\ Upcoming /\ HolesKnown /\ Pointed /\ CrashPointed

\* A dump being written is sound, as long as no write has failed and it is small enough.
IntactInv == Safe(w) /\ dpc \in Reading \cup {"resume"} => FileSound

\* v is u with other flags.
Alike(v, u) ==
    /\ u \in Writer /\ Cells(u) = Cells(v) /\ Holes(u) = Holes(v) /\ (Sound(v) <=> Sound(u))
    /\ (Safe(v) <=> Safe(u)) /\ u.position = v.position

\* The start of a stage.
LEMMA StartSound ==
    ASSUME w \in Writer, NEW d \in Disk
    PROVE  Alike(w, Start(d)) /\ Start(d).ok
  <1> DEFINE s == Start(d)
  <1>1. /\ s \in Writer /\ s.position = w.position /\ s.parts = w.parts /\ s.size = w.size
        /\ s.short = w.short /\ s.ok
    BY StartGrown
  <1> HIDE DEF s
  <1>2. Cells(s) = Cells(w) /\ Holes(s) = Holes(w) /\ (Sound(w) <=> Sound(s))
    BY <1>1, SameParts
  <1>3. Safe(w) <=> Safe(s)
    BY <1>1 DEF Safe, Fits
  <1> QED
    BY <1>1, <1>2, <1>3 DEF s, Alike

\* The end of a stage.
LEMMA EndSound ==
    ASSUME NEW v \in Writer
    PROVE  Alike(v, End(v))
  <1> DEFINE s == End(v)
  <1>1. /\ s \in Writer /\ s.position = v.position /\ s.parts = v.parts /\ s.size = v.size
        /\ s.short = v.short
    BY EndGrown DEF Grown
  <1> HIDE DEF s
  <1>2. Cells(s) = Cells(v) /\ Holes(s) = Holes(v) /\ (Sound(v) <=> Sound(s))
    BY <1>1, SameParts
  <1>3. Safe(v) <=> Safe(s)
    BY <1>1 DEF Safe, Fits
  <1> QED
    BY <1>1, <1>2, <1>3 DEF s, Alike

\* A stream is written, and its entry x can be made.
Ready(v, K, x) ==
    /\ v \in Writer /\ Sound(v) /\ v.ok /\ Extends(w, v, K) /\ "dir" \notin K
    /\ \A c \in Holes(v) : Pending(c)
    /\ Points(v, x)

\* A stage with a stream is over.
Extended(K) ==
    /\ Sound(w') /\ DirThere(w') /\ Extends(w, w', K)
    /\ \A c \in Holes(w') : Pending(c)'
    /\ Pointed'

\* A directory is there.
LEMMA DirHas ==
    ASSUME NEW v \in Writer, DirThere(v)
    PROVE  Has(v, "dir")
  <1>1. PICK pos \in Nat : ListOf(v, "dir", pos, 0, kNumWriters, DirectorySize)
    BY DEF DirThere
  <1>2. 1 \in 1..kNumWriters
    BY DEF kNumWriters
  <1>3. PICK c \in Cells(v) : c.kind = "dir"
    BY <1>1, <1>2, DirIsList, ElementNumbered
  <1>4. PICK p \in v.parts : c = Cell(p)
    BY DEF Cells
  <1>5. p \in Part
    BY DEF Writer
  <1>6. p.kind = "dir"
    BY <1>3, <1>4, <1>5, CellFields
  <1> QED
    BY <1>6 DEF Has

\* What comes before the entry.
LEMMA EnteredSafe ==
    ASSUME dir \in Seq(Entries), NEW v \in Writer, Has(v, "dir"), Safe(End(Entered(v)))
    PROVE  Safe(v)
  <1>1. Written(v, Entered(v))
    BY EnteredFollows
  <1>2. Entered(v) \in Writer /\ Grown(v, Entered(v))
    BY <1>1, FollowsWriter DEF Written, Follows
  <1>3. Safe(Entered(v))
    BY <1>2, EndSound DEF Alike
  <1> QED
    BY <1>2, <1>3, GrownSafe

\* A stream is entered in the directory.
LEMMA StreamEntered ==
    ASSUME DumpTypes, DirThere(w), Pointed, Len(dir) < kNumWriters, NEW v, NEW K, NEW x,
           Ready(v, K, x), w' = End(Entered(v)), dir' = Append(dir, x), Safe(w')
    PROVE  Extended(K)
  <1> DEFINE u == Entered(v)
             j == Len(dir) + 1
  <1>1. dir \in Seq(Entries) /\ Len(dir) \in Nat
    BY DEF DumpTypes
  <1>2. v \in Writer /\ Sound(v) /\ v.ok /\ Extends(w, v, K) /\ "dir" \notin K
    BY DEF Ready
  <1>3. DirThere(v)
    BY <1>2, ExtendsKept DEF DirThere
  <1>4. Has(v, "dir")
    BY <1>2, <1>3, DirHas
  <1>5. u \in Writer
    BY <1>1, <1>2, <1>4, EnteredFollows, FollowsWriter DEF Written
  <1>6. Alike(u, w')
    BY <1>5, EndSound
  <1>7. Filled(v, u, Numbered(v, "dir", j))
    <2>1. Safe(u)
      BY <1>6 DEF Alike
    <2> QED
      BY <1>1, <1>2, <1>3, <2>1, EntryWritten
  <1> HIDE DEF u
  <1>8. Sound(w') /\ Cells(w') = Cells(v) /\ Holes(w') = Holes(v) \ Numbered(v, "dir", j)
    BY <1>6, <1>7 DEF Alike, Filled
  <1>9. Extends(w, w', K)
    BY <1>2, <1>8 DEF Extends
  <1>10. DirThere(w')
    BY <1>2, <1>9, ExtendsKept DEF DirThere
  <1>11. /\ Len(dir') = Len(dir) + 1 /\ dir'[j] = x /\ \A i \in 1..Len(dir) : dir'[i] = dir[i]
    BY <1>1
  <1>12. ASSUME NEW c \in Holes(w') PROVE Pending(c)'
    <2>1. c \in Holes(v) /\ c \notin Numbered(v, "dir", j) /\ Pending(c)
      BY <1>8 DEF Ready
    <2>2. c \in Cells(v) /\ c.i \in Nat
      BY <1>2, <2>1, CellsType DEF CellSet
    <2>3. c.kind = "dir" => c.i # j
      BY <2>1, <2>2 DEF Numbered
    <2>4. c.kind = "linkmap" \/ (c.kind = "dir" /\ c.i > Len(dir'))
      BY <1>1, <1>11, <2>1, <2>2, <2>3 DEF Pending
    <2> QED
      BY <2>4 DEF Pending
  <1>13. ASSUME NEW i \in 1..Len(dir') PROVE Points(w', dir'[i])
    <2>1. CASE i = j
      BY <1>8, <1>11, <2>1 DEF Ready, Points
    <2>2. CASE i # j
      <3>1. i \in 1..Len(dir)
        BY <1>1, <1>11, <2>2
      <3>2. Points(w, dir[i]) /\ dir'[i] = dir[i]
        BY <1>11, <3>1 DEF Pointed
      <3> QED
        BY <1>9, <3>2 DEF Points, Extends
    <2> QED
      BY <2>1, <2>2
  <1>14. Pointed'
    BY <1>13 DEF Pointed, Points
  <1> QED
    BY <1>8, <1>9, <1>10, <1>12, <1>14 DEF Extended

\* ... and so is what the invariant says of it.
LEMMA StreamSound ==
    ASSUME FileSound, DumpTypes, NEW K, Extended(K), dpc \in Stages \ {"header", "list"},
           dpc = "threads" => k > Len(tids), UNCHANGED <<cctx, tids, context>>,
           dpc' \notin {"header", "list", "threads", "modules"},
           dpc' = "resume" => Len(dir') = kNumWriters, Upcoming'
    PROVE  FileSound'
  <1>1. HolesKnown'
    <2>1. \A c \in Holes(w') : Pending(c)'
      BY DEF Extended
    <2> QED
      BY <2>1 DEF HolesKnown
  <1>2. CrashPointed'
    <2>1. ASSUME NEW i \in 1..Len(tids), tids[i] = cctx[1] PROVE CpuAt(w', context)
      <3>1. dpc = "threads" => i < k
        BY DEF DumpTypes
      <3>2. CpuAt(w, context)
        BY <2>1, <3>1 DEF FileSound, CrashPointed
      <3> QED
        BY <3>2 DEF Extended, Extends, CpuAt
    <2>2. ASSUME NEW i \in 1..Len(tids'), tids'[i] = cctx'[1] PROVE CpuAt(w', context')
      BY <2>1, <2>2
    <2> QED
      BY <2>2 DEF CrashPointed, CpuAt
  <1>3. Sound(w') /\ DirThere(w') /\ Pointed'
    BY DEF Extended
  <1>4. Sound(w)' /\ DirThere(w)'
    BY <1>3 DEF Sound, DirThere
  <1> QED
    BY <1>1, <1>2, <1>3, <1>4 DEF FileSound

\* An empty file has no objects.
LEMMA NewFileSound == NewFile \in Writer /\ Sound(NewFile) /\ Cells(NewFile) = {} /\ Holes(NewFile) = {}
  <1>1. /\ NewFile.parts = {} /\ NewFile.position = 0 /\ NewFile.size = 0
    BY DEF NewFile
  <1>2. Cells(NewFile) = {} /\ Holes(NewFile) = {}
    BY <1>1 DEF Cells, Holes
  <1> QED
    BY <1>1, <1>2, NewFileWriter DEF Sound

\* Dump's first step.
LEMMA HeaderSound ==
    ASSUME DumpShape, FileSound, WriteHeader, dpc' = "list", Safe(w')
    PROVE  FileSound'
  <1> DEFINE A(d) == Allocate(Start(d), "header", 0, HeaderSize, 0, 0)
             B(d) == Allocate(A(d), "dir", 0, 0, kNumWriters, DirectorySize)
             C(d) == IF A(d).ok THEN Flush(B(d), "header", 0, HeaderSize)
                     ELSE FlushUnallocated(A(d), HeaderSize)
  <1>1. PICK d \in Disk : Then(C(d), "list")
    BY DEF WriteHeader
  <1>2. dpc = "header" /\ UNCHANGED <<cctx, tids, k, dir>>
    BY DEF WriteHeader
  <1>3. w = NewFile /\ w \in Writer /\ Len(dir) = 0
    BY <1>2 DEF FileSound, DumpShape, DumpTypes, DirShape
  <1> DEFINE s == Start(d)
             a == Allocate(s, "header", 0, HeaderSize, 0, 0)
             b == Allocate(a, "dir", 0, 0, kNumWriters, DirectorySize)
             c == IF a.ok THEN Flush(b, "header", 0, HeaderSize) ELSE FlushUnallocated(a, HeaderSize)
             L == ListCells("header", 0, 0, HeaderSize, 0, 0)
  <1>4. /\ "header" \in Kinds /\ "dir" \in Kinds /\ HeaderSize \in Nat \ {0} /\ HeaderSize \in Nat
        /\ kNumWriters \in Nat /\ DirectorySize \in Nat /\ DirectorySize > 0 /\ 0 \in Nat
    BY DEF Kinds, HeaderSize, kNumWriters, DirectorySize
  <1>5. c.ok /\ w' = End(c)
    BY <1>1 DEF Then, Abandon, Fail
  <1>6. s \in Writer /\ Sound(s) /\ Cells(s) = {} /\ Holes(s) = {} /\ s.position = 0
    <2>1. Alike(w, s)
      BY <1>3, StartSound
    <2>2. w.position = 0
      BY <1>3 DEF NewFile
    <2> HIDE DEF s
    <2> QED
      BY <1>3, <2>1, <2>2, NewFileSound DEF Alike
  <1> HIDE DEF A, B, C, s
  <1>7. Placed(s, a, L)
    <2>1. Placed(s, a, ListCells("header", 0, s.position, HeaderSize, 0, 0))
      BY <1>4, <1>6, AllocateSound
    <2> QED
      BY <1>6, <2>1
  <1>8. PICK h \in L : h.kind = "header" /\ h.pos = 0 /\ h.len = HeaderSize
    BY <1>4, HeadCell
  <1>9. L = {h}
    BY OneCell
  <1>10. a \in Writer /\ Sound(a) /\ a.position \in Nat
    BY <1>7 DEF Placed, Writer
  <1> DEFINE M == ListCells("dir", 0, a.position, 0, kNumWriters, DirectorySize)
  <1>11. Placed(a, b, M)
    BY <1>4, <1>10, AllocateSound
  <1> HIDE DEF a, b, L
  <1>12. a.ok /\ c = Flush(b, "header", 0, HeaderSize)
    <2>1. FlushUnallocated(a, HeaderSize).ok = a.ok
      BY <1>4, <1>10, FlushFollows DEF Written
    <2> QED
      BY <1>5, <2>1
  <1> HIDE DEF c
  <1>13. b \in Writer /\ Sound(b)
    BY <1>11 DEF Placed
  <1>14. c = Copy(b, "header", 0, HeaderSize) /\ c \in Writer /\ b.ok
    <2>1. Written(b, Flush(b, "header", 0, HeaderSize))
      BY <1>4, <1>13, FlushFollows
    <2> QED
      BY <1>5, <1>12, <2>1, FollowsWriter DEF Written, Flush
  <1>15. Alike(c, w')
    BY <1>5, <1>14, EndSound
  <1>16. Cells(b) = {h} \cup M /\ Holes(b) = {h} \cup M
    BY <1>6, <1>7, <1>9, <1>11, <1>12, <1>14 DEF Placed
  <1>17. Filled(b, c, {h})
    <2>1. Safe(c)
      BY <1>15 DEF Alike
    <2> QED
      BY <1>8, <1>13, <1>14, <1>16, <2>1, CopyCell
  <1>18. Sound(w') /\ Cells(w') = {h} \cup M /\ Holes(w') = ({h} \cup M) \ {h}
    BY <1>15, <1>16, <1>17 DEF Alike, Filled
  <1>19. ASSUME NEW x \in M PROVE x.kind = "dir" /\ x.i > 0
    BY DEF ListCells
  <1> HIDE DEF M
  <1>20. DirThere(w')
    <2>1. {x \in Cells(w') : x.kind = "dir"} = M
      BY <1>8, <1>18, <1>19
    <2> QED
      BY <1>10, <2>1 DEF DirThere, ListOf, M
  <1>21. \A x : x \notin {"header", "dir"} => Fresh(w', x)
    BY <1>8, <1>18, <1>19 DEF Fresh
  <1>22. Upcoming'
    <2>1. Fresh(w', "threads") /\ Fresh(w', "modules") /\ Fresh(w', "memory") /\ Fresh(w', "linkmap")
          /\ Fresh(w', "debug")
      BY <1>21
    <2> QED
      BY <2>1 DEF Upcoming, Fresh
  <1>23. HolesKnown'
    <2>1. ASSUME NEW x \in Holes(w') PROVE Pending(x)'
      BY <1>2, <1>3, <1>18, <1>19 DEF Pending
    <2> QED
      BY <2>1 DEF HolesKnown
  <1>24. Pointed'
    BY <1>2, <1>3 DEF Pointed
  <1>25. Sound(w)' /\ DirThere(w)'
    BY <1>18, <1>20 DEF Sound, DirThere
  <1> QED
    BY <1>22, <1>23, <1>24, <1>25 DEF FileSound, CrashPointed

\* A list has been allocated.
LEMMA ListStarted ==
    ASSUME w \in Writer, Sound(w), NEW d \in Disk, NEW kd \in Kinds, Fresh(w, kd), NEW n \in Nat,
           NEW e \in Nat \ {0}, NEW a, a = AllocateList(Start(d), kd, 4, n, e), a.ok, w' = End(a), Safe(w')
    PROVE  /\ Sound(w') /\ Extends(w, w', {kd})
           /\ \E pos \in Nat : ListOf(w', kd, pos, 4, n, e)
           /\ \A c \in Holes(w') : c \in Holes(w) \/ (c.kind = kd /\ c.i \in Nat)
  <1> DEFINE s == Start(d)
             pos == s.position
             L == ListCells(kd, 0, pos, 4, n, e)
  <1>1. Alike(w, s) /\ s.ok
    BY StartSound
  <1>2. s \in Writer /\ Sound(s) /\ Cells(s) = Cells(w) /\ Holes(s) = Holes(w) /\ pos \in Nat
    BY <1>1 DEF Alike, Writer
  <1>3. 4 \in Nat /\ e \in Nat /\ 4 \in 1..ExceptionSize
    BY DEF ExceptionSize
  <1> HIDE DEF s
  <1>4. a \in Writer
    <2>1. Allocated(s, a, kd, 4, n)
      BY <1>2, <1>3, AllocateListFollows DEF s
    <2> QED
      BY <2>1, FollowsWriter DEF Allocated
  <1>5. Alike(a, w')
    BY <1>4, EndSound
  <1>6. Placed(s, a, L)
    <2>1. Safe(a)
      BY <1>5 DEF Alike
    <2>2. a = AllocateList(s, kd, 4, n, e)
      BY DEF s
    <2> QED
      BY <1>2, <1>3, <2>1, <2>2, AllocateListPlaced
  <1>7. \A c \in L : c.kind = kd /\ c.i \in Nat
    BY DEF ListCells, CellSet
  <1>8. ListOf(a, kd, pos, 4, n, e)
    <2>1. Fresh(s, kd)
      BY <1>2 DEF Fresh
    <2> QED
      BY <1>6, <2>1, ListPlaced
  <1>9. Extends(s, a, {kd})
    BY <1>6, PlacedExtends
  <1> HIDE DEF L, pos
  <1>10. Sound(a) /\ Holes(a) = Holes(w) \cup L
    BY <1>2, <1>6 DEF Placed
  <1>11. Extends(w, w', {kd})
    BY <1>2, <1>5, <1>9 DEF Extends, Alike
  <1>12. ListOf(w', kd, pos, 4, n, e)
    BY <1>5, <1>8 DEF ListOf, Alike
  <1> QED
    BY <1>2, <1>5, <1>7, <1>10, <1>11, <1>12 DEF Alike

\* The entries of the directory stay, and so do the registers.
LEMMA ExtendsPoints ==
    ASSUME NEW v, NEW u, NEW K, Extends(v, u, K)
    PROVE  (\A x : Points(v, x) => Points(u, x)) /\ (\A x : CpuAt(v, x) => CpuAt(u, x))
  BY DEF Extends, Points, CpuAt

\* The list of the threads.
LEMMA ThreadListSound ==
    ASSUME DumpShape, FileSound, ThreadList, dpc' = "threads", Safe(w')
    PROVE  FileSound'
  <1> DEFINE A(d) == AllocateList(Start(d), "threads", 4, Len(tids), ThreadSize)
  <1>1. PICK d \in Disk : Then(A(d), "threads")
    BY DEF ThreadList
  <1>2. dpc = "list" /\ k' = 1 /\ UNCHANGED <<cctx, tids, context, dir>>
    BY DEF ThreadList
  <1> DEFINE a == A(d)
  <1>3. a.ok /\ w' = End(a)
    BY <1>1 DEF Then, Abandon, Fail
  <1>4. /\ "threads" \in Kinds /\ Len(tids) \in Nat /\ ThreadSize \in Nat \ {0} /\ w \in Writer
        /\ Sound(w) /\ DirThere(w) /\ Upcoming /\ HolesKnown /\ Pointed
    BY <1>2 DEF Kinds, DumpShape, DumpTypes, ThreadSize, FileSound
  <1>5. Fresh(w, "threads")
    BY <1>2, <1>4 DEF Upcoming
  <1>6. a = AllocateList(Start(d), "threads", 4, Len(tids), ThreadSize)
    OBVIOUS
  <1> HIDE DEF A, a
  <1>7. /\ Sound(w') /\ Extends(w, w', {"threads"})
        /\ \E pos \in Nat : ListOf(w', "threads", pos, 4, Len(tids), ThreadSize)
        /\ \A c \in Holes(w') : c \in Holes(w) \/ (c.kind = "threads" /\ c.i \in Nat)
    BY <1>3, <1>4, <1>5, <1>6, ListStarted
  <1>8. DirThere(w') /\ \A x : x # "threads" /\ Fresh(w, x) => Fresh(w', x)
    <2>1. \A x : x # "threads" => x \notin {"threads"}
      OBVIOUS
    <2> QED
      BY <1>4, <1>7, <2>1, ExtendsKept DEF DirThere
  <1>9. Upcoming'
    <2>1. Fresh(w', "modules") /\ Fresh(w', "memory") /\ Fresh(w', "linkmap") /\ Fresh(w', "debug")
      BY <1>2, <1>4, <1>8 DEF Upcoming
    <2> QED
      BY <2>1 DEF Upcoming, Fresh
  <1>10. HolesKnown'
    <2>1. ASSUME NEW c \in Holes(w') PROVE Pending(c)' \/ Awaited("threads", "threads", c)'
      <3>1. CASE c \in Holes(w)
        <4>1. Pending(c)
          BY <1>2, <1>4, <3>1 DEF HolesKnown, Awaited
        <4> QED
          BY <1>2, <4>1 DEF Pending
      <3>2. CASE c \notin Holes(w)
        <4>1. c.kind = "threads" /\ c.i \in Nat
          BY <1>7, <3>2
        <4>3. c.i = 0 \/ c.i >= 1
          BY <4>1
        <4> QED
          BY <1>2, <4>1, <4>3 DEF Awaited
      <3> QED
        BY <3>1, <3>2
    <2> QED
      BY <2>1 DEF HolesKnown
  <1>11. Pointed'
    BY <1>2, <1>4, <1>7, ExtendsPoints DEF Pointed, Points
  <1>12. CrashPointed'
    BY <1>2 DEF CrashPointed
  <1>13. Sound(w)' /\ DirThere(w)' /\ \E pos \in Nat : ListOf(w, "threads", pos, 4, Len(tids), ThreadSize)'
    BY <1>2, <1>7, <1>8 DEF Sound, DirThere, ListOf
  <1> QED
    BY <1>9, <1>10, <1>11, <1>12, <1>13 DEF FileSound

\* What an element refers to is written, and then the element k of the list.
LEMMA ElementSound ==
    ASSUME w \in Writer, NEW K, NEW c \in Writer, Adds(w, c, K), c.ok, NEW kd \in Kinds \ K, NEW n \in Nat,
           NEW e \in Nat \ {0}, \E pos \in Nat : ListOf(w, kd, pos, 4, n, e), k \in 1..n,
           NEW v, v = CopyIndex(c, kd, 4, k, k, e), w' = End(v), v \in Writer, Safe(w')
    PROVE  /\ Sound(w') /\ Extends(w, w', K) /\ Cells(c) \subseteq Cells(w')
           /\ \E pos \in Nat : ListOf(w', kd, pos, 4, n, e)
           /\ \A h \in Holes(w') : h \in Holes(w) /\ h.i \in Nat /\ ~(h.kind = kd /\ h.i = k)
  <1>1. PICK pos \in Nat : ListOf(w, kd, pos, 4, n, e)
    OBVIOUS
  <1>2. IsList(kd, pos, 4, n, e)
    BY DEF IsList
  <1>3. Extends(w, c, K) /\ Sound(c)
    BY DEF Adds, Extends
  <1>4. ListOf(c, kd, pos, 4, n, e)
    BY <1>1, <1>3, ExtendsKept
  <1>5. Alike(v, w')
    BY EndSound
  <1>6. Filled(c, v, Numbered(c, kd, k))
    <2>1. Safe(v)
      BY <1>5 DEF Alike
    <2> QED
      BY <1>2, <1>3, <1>4, <2>1, ElementWritten
  <1>7. Cells(w') = Cells(c) /\ Holes(w') = Holes(c) \ Numbered(c, kd, k) /\ Sound(w')
    BY <1>5, <1>6 DEF Alike, Filled
  <1>8. Extends(w, w', K)
    BY <1>3, <1>7 DEF Extends
  <1>9. ListOf(w', kd, pos, 4, n, e)
    BY <1>1, <1>8, ExtendsKept
  <1>10. ASSUME NEW h \in Holes(w') PROVE h \in Holes(w) /\ h.i \in Nat /\ ~(h.kind = kd /\ h.i = k)
    <2>1. h \in Holes(c) /\ h \notin Numbered(c, kd, k)
      BY <1>7
    <2>2. h \in Cells(c) /\ h.i \in Nat
      BY <2>1, CellsType DEF CellSet
    <2> QED
      BY <2>1, <2>2 DEF Numbered, Adds
  <1> QED
    BY <1>7, <1>8, <1>9, <1>10

\* One thread of the list.
LEMMA ThreadSound ==
    ASSUME DumpShape, FileSound, NEW ok, WriteThread(ok), dpc' = "threads", Safe(w')
    PROVE  FileSound'
  <1> DEFINE crashing == cctx[1] = tids[k]
             S(d) == IF crashing THEN Start(d) ELSE GetThreadInfoByIndex(Start(d), ok)
             A(d, st) == FillThreadStack(S(d), st)
             B(d, st, m) == IF crashing /\ m THEN WriteBlock(A(d, st), "ip", 0, IpLen) ELSE A(d, st)
             C(d, st, m) == WriteObject(B(d, st, m), "cpu", k, CpuSize)
             V(d, st, m) == CopyIndex(C(d, st, m), "threads", 4, k, k, ThreadSize)
             K == {"stack", "ip", "cpu"}
  <1>1. PICK d \in Disk, st \in BOOLEAN, m \in BOOLEAN :
          /\ Then(V(d, st, m), "threads")
          /\ context' = IF crashing THEN B(d, st, m).position ELSE context
    BY DEF WriteThread
  <1>2. dpc = "threads" /\ k <= Len(tids) /\ k' = k + 1 /\ UNCHANGED <<cctx, tids, dir>>
    BY DEF WriteThread
  <1>3. /\ w \in Writer /\ k \in Nat \ {0} /\ k \in Nat /\ Has(w, "threads") /\ Len(tids) \in Nat
        /\ k \in 1..Len(tids)
    BY <1>2 DEF DumpShape, DumpTypes, FileShape, Reading
  <1>4. /\ Sound(w) /\ DirThere(w) /\ Upcoming /\ HolesKnown /\ Pointed /\ CrashPointed
        /\ \E pos \in Nat : ListOf(w, "threads", pos, 4, Len(tids), ThreadSize)
    BY <1>2 DEF FileSound
  <1>k. /\ "stack" \in Kinds /\ "ip" \in Kinds /\ "cpu" \in Kinds /\ StackLen \in Nat \ {0}
        /\ IpLen \in Nat \ {0} /\ CpuSize \in 1..ExceptionSize /\ ThreadSize \in Nat \ {0} /\ 0 \in Nat
        /\ 4 \in Nat /\ "threads" \in Kinds \ K
        /\ StackLen \in Nat /\ IpLen \in Nat /\ CpuSize \in Nat /\ ThreadSize \in Nat
    BY DEF Kinds, StackLen, IpLen, CpuSize, ExceptionSize, ThreadSize
  <1> DEFINE z == Start(d)
             s == S(d)
             a == A(d, st)
             b == B(d, st, m)
             c == C(d, st, m)
             v == V(d, st, m)
  <1>5. v.ok /\ w' = End(v)
    BY <1>1 DEF Then, Abandon, Fail
  <1>6. Alike(w, z) /\ z.ok /\ z \in Writer /\ Sound(z)
    BY <1>3, <1>4, StartSound DEF Alike
  <1>7. s = z \/ s = [z EXCEPT !.ok = FALSE]
    BY DEF GetThreadInfoByIndex
  <1>8. a = WriteBlock(s, "stack", k, StackLen) \/ a = s
    BY DEF FillThreadStack
  <1>9. b = WriteBlock(a, "ip", 0, IpLen) \/ b = a
    OBVIOUS
  <1>10. c = WriteObject(b, "cpu", k, CpuSize)
    OBVIOUS
  <1>11. v = CopyIndex(c, "threads", 4, k, k, ThreadSize)
    OBVIOUS
  <1>12. context' = IF crashing THEN b.position ELSE context
    BY <1>1
  <1> HIDE DEF S, A, B, C, V, z, s, a, b, c, v
  <1>13. s \in Writer
    BY <1>6, <1>7 DEF Writer
  <1>14. Follows(s, a)
    BY <1>3, <1>8, <1>13, <1>k, WriteBlockFollows, FollowsSelf
  <1>15. a \in Writer
    BY <1>14, FollowsWriter
  <1>16. Follows(a, b)
    BY <1>9, <1>15, <1>k, WriteBlockFollows, FollowsSelf
  <1>17. b \in Writer
    BY <1>16, FollowsWriter
  <1>18. Follows(b, c)
    BY <1>3, <1>10, <1>17, <1>k, WriteObjectFollows
  <1>19. c \in Writer
    BY <1>18, FollowsWriter
  <1>20. Has(c, "threads")
    <2>1. Has(s, "threads")
      <3>1. s.parts = w.parts
        <4>1. z.parts = w.parts
          BY <1>3, StartGrown DEF z
        <4>2. [z EXCEPT !.ok = FALSE].parts = z.parts
          BY <1>6 DEF Writer
        <4> QED
          BY <1>7, <4>1, <4>2
      <3> QED
        BY <1>3, <3>1 DEF Has
    <2> QED
      BY <1>14, <1>16, <1>18, <2>1 DEF Follows, Grown
  <1>21. Written(c, v)
    <2>1. c.ok /\ k <= k => Has(c, "threads")
      BY <1>20
    <2> QED
      BY <1>3, <1>11, <1>19, <1>k, <2>1, CopyIndexFollows, Zenon
  <1>22. v \in Writer /\ c.ok
    BY <1>5, <1>21, FollowsWriter DEF Written
  <1>23. b.ok /\ a.ok /\ s.ok
    BY <1>14, <1>16, <1>18, <1>22 DEF Follows
  <1>24. Safe(v) /\ Safe(c) /\ Safe(b) /\ Safe(a)
    <2>1. Safe(v)
      BY <1>5, <1>22, EndSound DEF Alike
    <2>2. Safe(c)
      BY <1>19, <1>21, <2>1, GrownSafe DEF Written, Follows
    <2>3. Safe(b)
      BY <1>17, <1>18, <2>2, GrownSafe DEF Follows
    <2> QED
      BY <1>15, <1>16, <2>1, <2>2, <2>3, GrownSafe DEF Follows
  <1>25. s = z
    <2>1. ~[z EXCEPT !.ok = FALSE].ok
      BY <1>6 DEF Writer
    <2> QED
      BY <1>7, <1>23, <2>1
  <1>26. Adds(s, a, {"stack"})
    <2>1. Sound(s)
      BY <1>6, <1>25
    <2> QED
      BY <1>3, <1>8, <1>13, <1>24, <1>k, <2>1, WriteBlockAdds, AddsSelf DEF Added
  <1>27. Adds(a, b, {"ip"})
    <2>1. Sound(a)
      BY <1>26 DEF Adds
    <2> QED
      BY <1>9, <1>15, <1>24, <1>k, <2>1, WriteBlockAdds, AddsSelf DEF Added
  <1>28. Added(b, c, "cpu")
    <2>1. Sound(b)
      BY <1>27 DEF Adds
    <2> QED
      BY <1>3, <1>10, <1>17, <1>24, <1>k, <2>1, WriteObjectAdds
  <1>29. Adds(w, c, K)
    <2>1. Adds(w, s, K)
      BY <1>6, <1>25 DEF Adds, Alike
    <2>2. Adds(w, a, K)
      BY <1>26, <2>1, AddsTransitive
    <2>3. Adds(w, b, K)
      BY <1>27, <2>2, AddsTransitive
    <2>4. Adds(b, c, {"cpu"})
      BY <1>28 DEF Added
    <2> QED
      BY <2>3, <2>4, AddsTransitive
  <1> HIDE DEF K
  <1>30. /\ Sound(w') /\ Extends(w, w', K) /\ Cells(c) \subseteq Cells(w')
         /\ \E pos \in Nat : ListOf(w', "threads", pos, 4, Len(tids), ThreadSize)
         /\ \A h \in Holes(w') : h \in Holes(w) /\ h.i \in Nat /\ ~(h.kind = "threads" /\ h.i = k)
    BY <1>3, <1>4, <1>5, <1>11, <1>19, <1>22, <1>29, <1>k, ElementSound
  <1>31. Upcoming' /\ DirThere(w')
    <2>1. "dir" \notin K /\ "modules" \notin K /\ "memory" \notin K /\ "linkmap" \notin K /\ "debug" \notin K
      BY DEF K
    <2>2. /\ Fresh(w', "modules") /\ Fresh(w', "memory") /\ Fresh(w', "linkmap") /\ Fresh(w', "debug")
          /\ DirThere(w')
      BY <1>2, <1>4, <1>30, <2>1, ExtendsKept DEF Upcoming, DirThere
    <2> QED
      BY <2>2 DEF Upcoming, Fresh
  <1>32. HolesKnown'
    <2>1. ASSUME NEW h \in Holes(w') PROVE Pending(h)' \/ Awaited("threads", "threads", h)'
      <3>1. h \in Holes(w) /\ h.i \in Nat /\ ~(h.kind = "threads" /\ h.i = k)
        BY <1>30
      <3>2. Pending(h) \/ (h.kind = "threads" /\ (h.i = 0 \/ h.i >= k))
        BY <1>2, <1>4, <3>1 DEF HolesKnown, Awaited
      <3>3. CASE Pending(h)
        BY <1>2, <3>3 DEF Pending
      <3>4. CASE h.kind = "threads" /\ (h.i = 0 \/ h.i >= k)
        <4>1. h.i = 0 \/ h.i >= k + 1
          BY <1>3, <3>1, <3>4
        <4> QED
          BY <1>2, <3>4, <4>1 DEF Awaited
      <3> QED
        BY <3>2, <3>3, <3>4
    <2> QED
      BY <2>1 DEF HolesKnown
  <1>33. Pointed'
    BY <1>2, <1>4, <1>30, ExtendsPoints DEF Pointed, Points
  <1>34. CrashPointed'
    <2>1. ASSUME NEW i \in 1..Len(tids), tids[i] = cctx[1], i < k + 1 PROVE CpuAt(w', context')
      <3>1. CASE crashing
        <4>1. CpuAt(c, context')
          BY <1>12, <1>22, <1>28, <3>1 DEF Added, CpuAt
        <4>2. Cells(c) \subseteq Cells(w')
          BY <1>30
        <4> QED
          BY <4>1, <4>2 DEF CpuAt
      <3>2. CASE ~crashing
        <4>1. i # k
          BY <2>1, <3>2
        <4>2. i < k
          BY <1>3, <2>1, <4>1
        <4>3. CpuAt(w, context)
          BY <1>2, <1>4, <2>1, <4>2 DEF CrashPointed
        <4> QED
          BY <1>12, <1>30, <3>2, <4>3, ExtendsPoints
      <3> QED
        BY <3>1, <3>2
    <2>2. ASSUME NEW i \in 1..Len(tids'), tids'[i] = cctx'[1], i < k' PROVE CpuAt(w', context')
      BY <1>2, <2>1, <2>2
    <2> QED
      BY <2>2 DEF CrashPointed, CpuAt
  <1>35. Sound(w)' /\ DirThere(w)' /\ \E pos \in Nat : ListOf(w, "threads", pos, 4, Len(tids), ThreadSize)'
    BY <1>2, <1>30, <1>31 DEF Sound, DirThere, ListOf
  <1> QED
    BY <1>31, <1>32, <1>33, <1>34, <1>35 DEF FileSound

\* The list of the modules.
LEMMA ModuleListSound ==
    ASSUME DumpShape, FileSound, ModuleList, dpc' = "modules", Safe(w')
    PROVE  FileSound'
  <1> DEFINE A(d) == AllocateList(Start(d), "modules", 4, Modules, ModuleSize)
  <1>1. PICK d \in Disk : Then(A(d), "modules")
    BY DEF ModuleList
  <1>2. dpc = "modlist" /\ k' = 1 /\ UNCHANGED <<cctx, tids, context, dir>>
    BY DEF ModuleList
  <1> DEFINE a == A(d)
  <1>3. a.ok /\ w' = End(a)
    BY <1>1 DEF Then, Abandon, Fail
  <1>4. /\ "modules" \in Kinds /\ Modules \in Nat /\ ModuleSize \in Nat \ {0} /\ w \in Writer
        /\ Sound(w) /\ DirThere(w) /\ Upcoming /\ HolesKnown /\ Pointed
    BY <1>2, BudgetAssumption DEF Kinds, DumpShape, DumpTypes, ModuleSize, FileSound
  <1>5. Fresh(w, "modules")
    BY <1>2, <1>4 DEF Upcoming
  <1>6. a = AllocateList(Start(d), "modules", 4, Modules, ModuleSize)
    OBVIOUS
  <1> HIDE DEF A, a
  <1>7. /\ Sound(w') /\ Extends(w, w', {"modules"})
        /\ \E pos \in Nat : ListOf(w', "modules", pos, 4, Modules, ModuleSize)
        /\ \A c \in Holes(w') : c \in Holes(w) \/ (c.kind = "modules" /\ c.i \in Nat)
    BY <1>3, <1>4, <1>5, <1>6, ListStarted
  <1>8. DirThere(w') /\ \A x : x # "modules" /\ Fresh(w, x) => Fresh(w', x)
    <2>1. \A x : x # "modules" => x \notin {"modules"}
      OBVIOUS
    <2> QED
      BY <1>4, <1>7, <2>1, ExtendsKept DEF DirThere
  <1>9. Upcoming'
    <2>1. Fresh(w', "memory") /\ Fresh(w', "linkmap") /\ Fresh(w', "debug")
      BY <1>2, <1>4, <1>8 DEF Upcoming
    <2> QED
      BY <2>1 DEF Upcoming, Fresh
  <1>10. HolesKnown'
    <2>1. ASSUME NEW c \in Holes(w') PROVE Pending(c)' \/ Awaited("modules", "modules", c)'
      <3>1. CASE c \in Holes(w)
        <4>1. Pending(c)
          BY <1>2, <1>4, <3>1 DEF HolesKnown, Awaited
        <4> QED
          BY <1>2, <4>1 DEF Pending
      <3>2. CASE c \notin Holes(w)
        <4>1. c.kind = "modules" /\ c.i \in Nat
          BY <1>7, <3>2
        <4>3. c.i = 0 \/ c.i >= 1
          BY <4>1
        <4> QED
          BY <1>2, <4>1, <4>3 DEF Awaited
      <3> QED
        BY <3>1, <3>2
    <2> QED
      BY <2>1 DEF HolesKnown
  <1>11. Pointed'
    BY <1>2, <1>4, <1>7, ExtendsPoints DEF Pointed, Points
  <1>12. CrashPointed'
    <2>1. ASSUME NEW i \in 1..Len(tids), tids[i] = cctx[1] PROVE CpuAt(w', context)
      <3>1. CpuAt(w, context)
        BY <1>2, <2>1 DEF FileSound, CrashPointed
      <3> QED
        BY <1>7, <3>1, ExtendsPoints
    <2> QED
      BY <1>2, <2>1 DEF CrashPointed, CpuAt
  <1>13. Sound(w)' /\ DirThere(w)' /\ \E pos \in Nat : ListOf(w, "modules", pos, 4, Modules, ModuleSize)'
    BY <1>2, <1>7, <1>8 DEF Sound, DirThere, ListOf
  <1> QED
    BY <1>9, <1>10, <1>11, <1>12, <1>13 DEF FileSound

\* One module of the list.
LEMMA ModuleSound ==
    ASSUME DumpShape, FileSound, WriteModule, dpc' = "modules", Safe(w')
    PROVE  FileSound'
  <1> DEFINE A(d, id) == IF id THEN WriteBlock(Start(d), "cv", k, CvLen) ELSE Start(d)
             B(d, id, vl) == FillRawModule(Start(d), id, vl)
             C(d, id, vl) == CopyIndex(B(d, id, vl), "modules", 4, k, k, ModuleSize)
             K == {"cv", "module_name"}
  <1>1. PICK d \in Disk, id \in BOOLEAN, vl \in BOOLEAN : Then(C(d, id, vl), "modules")
    BY DEF WriteModule
  <1>2. dpc = "modules" /\ k <= Modules /\ k' = k + 1 /\ UNCHANGED <<cctx, tids, context, dir>>
    BY DEF WriteModule
  <1>3. w \in Writer /\ k \in Nat /\ k \in Nat \ {0} /\ Has(w, "modules") /\ Modules \in Nat /\ k \in 1..Modules
    BY <1>2, BudgetAssumption DEF DumpShape, DumpTypes, FileShape, Reading
  <1>4. /\ Sound(w) /\ DirThere(w) /\ Upcoming /\ HolesKnown /\ Pointed /\ CrashPointed
        /\ \E pos \in Nat : ListOf(w, "modules", pos, 4, Modules, ModuleSize)
    BY <1>2 DEF FileSound
  <1>k. /\ "cv" \in Kinds /\ "module_name" \in Kinds /\ CvLen \in Nat \ {0} /\ NameLen \in Nat \ {0}
        /\ ModuleSize \in Nat \ {0} /\ 4 \in Nat /\ "modules" \in Kinds \ K
        /\ CvLen \in Nat /\ NameLen \in Nat /\ ModuleSize \in Nat
    BY DEF Kinds, CvLen, NameLen, ModuleSize
  <1> DEFINE z == Start(d)
             a == A(d, id)
             b == B(d, id, vl)
             c == C(d, id, vl)
  <1>5. c.ok /\ w' = End(c)
    BY <1>1 DEF Then, Abandon, Fail
  <1>6. Alike(w, z) /\ z.ok /\ z \in Writer /\ Sound(z)
    BY <1>3, <1>4, StartSound DEF Alike
  <1>7. a = WriteBlock(z, "cv", k, CvLen) \/ a = z
    OBVIOUS
  <1>8. b = WriteString(a, "module_name", NameLen, vl)
    BY DEF FillRawModule
  <1>9. c = CopyIndex(b, "modules", 4, k, k, ModuleSize)
    OBVIOUS
  <1>10. vl \in BOOLEAN
    OBVIOUS
  <1> HIDE DEF A, B, C, z, a, b, c
  <1>11. Follows(z, a)
    BY <1>3, <1>6, <1>7, <1>k, WriteBlockFollows, FollowsSelf
  <1>12. a \in Writer
    BY <1>11, FollowsWriter
  <1>13. Follows(a, b)
    BY <1>8, <1>10, <1>12, <1>k, WriteStringFollows
  <1>14. b \in Writer
    BY <1>13, FollowsWriter
  <1>15. Has(b, "modules")
    <2>1. Grown(w, z)
      BY <1>3, StartGrown DEF z
    <2> QED
      BY <1>3, <1>11, <1>13, <2>1 DEF Follows, Grown
  <1>16. Written(b, c)
    <2>1. b.ok /\ k <= k => Has(b, "modules")
      BY <1>15
    <2> QED
      BY <1>3, <1>9, <1>14, <1>k, <2>1, CopyIndexFollows, Zenon
  <1>17. c \in Writer /\ b.ok
    BY <1>5, <1>16, FollowsWriter DEF Written
  <1>18. Safe(b) /\ Safe(a)
    <2>1. Safe(c)
      BY <1>5, <1>17, EndSound DEF Alike
    <2>2. Safe(b)
      BY <1>14, <1>16, <2>1, GrownSafe DEF Written, Follows
    <2> QED
      BY <1>12, <1>13, <2>2, GrownSafe DEF Follows
  <1>19. Adds(z, a, {"cv"})
    BY <1>3, <1>6, <1>7, <1>18, <1>k, WriteBlockAdds, AddsSelf DEF Added
  <1>20. Adds(a, b, {"module_name"})
    <2>1. Sound(a)
      BY <1>19 DEF Adds
    <2> QED
      BY <1>8, <1>10, <1>12, <1>17, <1>18, <1>k, <2>1, WriteStringAdds
  <1>21. Adds(w, b, K)
    <2>1. Adds(w, z, K)
      BY <1>6 DEF Adds, Alike
    <2>2. Adds(w, a, K)
      BY <1>19, <2>1, AddsTransitive
    <2> QED
      BY <1>20, <2>2, AddsTransitive
  <1> HIDE DEF K
  <1>22. /\ Sound(w') /\ Extends(w, w', K)
         /\ \E pos \in Nat : ListOf(w', "modules", pos, 4, Modules, ModuleSize)
         /\ \A h \in Holes(w') : h \in Holes(w) /\ h.i \in Nat /\ ~(h.kind = "modules" /\ h.i = k)
    BY <1>3, <1>4, <1>5, <1>9, <1>14, <1>17, <1>21, <1>k, ElementSound
  <1>23. Upcoming' /\ DirThere(w')
    <2>1. "dir" \notin K /\ "memory" \notin K /\ "linkmap" \notin K /\ "debug" \notin K
      BY DEF K
    <2>2. Fresh(w', "memory") /\ Fresh(w', "linkmap") /\ Fresh(w', "debug") /\ DirThere(w')
      BY <1>2, <1>4, <1>22, <2>1, ExtendsKept DEF Upcoming, DirThere
    <2> QED
      BY <2>2 DEF Upcoming, Fresh
  <1>24. HolesKnown'
    <2>1. ASSUME NEW h \in Holes(w') PROVE Pending(h)' \/ Awaited("modules", "modules", h)'
      <3>1. h \in Holes(w) /\ h.i \in Nat /\ ~(h.kind = "modules" /\ h.i = k)
        BY <1>22
      <3>2. Pending(h) \/ (h.kind = "modules" /\ (h.i = 0 \/ h.i >= k))
        BY <1>2, <1>4, <3>1 DEF HolesKnown, Awaited
      <3>3. CASE Pending(h)
        BY <1>2, <3>3 DEF Pending
      <3>4. CASE h.kind = "modules" /\ (h.i = 0 \/ h.i >= k)
        <4>1. h.i = 0 \/ h.i >= k + 1
          BY <1>3, <3>1, <3>4
        <4> QED
          BY <1>2, <3>4, <4>1 DEF Awaited
      <3> QED
        BY <3>2, <3>3, <3>4
    <2> QED
      BY <2>1 DEF HolesKnown
  <1>25. Pointed'
    BY <1>2, <1>4, <1>22, ExtendsPoints DEF Pointed, Points
  <1>26. CrashPointed'
    <2>1. ASSUME NEW i \in 1..Len(tids), tids[i] = cctx[1] PROVE CpuAt(w', context)
      <3>1. CpuAt(w, context)
        BY <1>2, <1>4, <2>1 DEF CrashPointed
      <3> QED
        BY <1>22, <3>1, ExtendsPoints
    <2> QED
      BY <1>2, <2>1 DEF CrashPointed, CpuAt
  <1>27. Sound(w)' /\ DirThere(w)' /\ \E pos \in Nat : ListOf(w, "modules", pos, 4, Modules, ModuleSize)'
    BY <1>22, <1>23 DEF Sound, DirThere, ListOf
  <1> QED
    BY <1>2, <1>23, <1>24, <1>25, <1>26, <1>27 DEF FileSound

\* A list whose elements are written is flushed and entered.
LEMMA ListDone ==
    ASSUME DumpShape, FileSound, NEW kd \in Kinds \ {"linkmap", "dir"}, NEW n \in Nat, NEW e \in Nat \ {0},
           \E pos \in Nat : ListOf(w, kd, pos, 4, n, e), k > n, Len(dir) < kNumWriters, DirThere(w),
           \A h \in Holes(w) : Pending(h) \/ (h.kind = kd /\ (h.i = 0 \/ h.i >= k)),
           NEW d \in Disk, NEW p, p = PositionOf(w, kd), w' = End(Entered(Flush(Start(d), kd, p, 4))),
           dir' = Append(dir, Entry(kd, p)), Safe(w')
    PROVE  Extended({})
  <1> DEFINE z == Start(d)
             a == Flush(z, kd, p, 4)
  <1>1. PICK pos \in Nat : ListOf(w, kd, pos, 4, n, e)
    OBVIOUS
  <1>2. IsList(kd, pos, 4, n, e) /\ k \in Nat /\ w \in Writer /\ DumpTypes /\ dir \in Seq(Entries)
    BY DEF IsList, DumpShape, DumpTypes
  <1>3. p = pos
    BY <1>1, <1>2, ListPosition
  <1>4. Alike(w, z) /\ z.ok
    BY <1>2, StartSound
  <1>5. z \in Writer /\ Sound(z) /\ ListOf(z, kd, pos, 4, n, e) /\ Sound(w) /\ Pointed
    BY <1>1, <1>4 DEF Alike, FileSound, ListOf
  <1> HIDE DEF z
  <1>6. Written(z, a)
    BY <1>3, <1>5, FlushFollows
  <1>7. a \in Writer /\ a.ok /\ Grown(z, a)
    BY <1>4, <1>6, FollowsWriter DEF Written, Follows
  <1> HIDE DEF a
  <1>8. Has(a, "dir")
    <2>1. Has(w, "dir") /\ Grown(w, z)
      BY <1>2, DirHas, StartGrown DEF z
    <2> QED
      BY <1>7, <2>1 DEF Grown
  <1>9. Safe(a)
    BY <1>2, <1>7, <1>8, EnteredSafe DEF a, z
  <1>10. Filled(z, a, Numbered(z, kd, 0))
    BY <1>2, <1>3, <1>5, <1>9, HeadWritten DEF a
  <1>11. Sound(a) /\ Cells(a) = Cells(w) /\ Holes(a) = Holes(w) \ Numbered(w, kd, 0)
    BY <1>4, <1>10 DEF Filled, Alike, Numbered
  <1>12. ASSUME NEW h \in Holes(a) PROVE Pending(h)
    <2>1. h \in Holes(w) /\ h \notin Numbered(w, kd, 0)
      BY <1>11
    <2>2. h \in Cells(w)
      BY <1>2, <2>1, CellsType
    <2>3. h.kind = kd => h.i \in 0..n
      <3>1. h.kind = kd => h \in ListCells(kd, 0, pos, 4, n, e)
        BY <1>1, <2>2 DEF ListOf
      <3> QED
        BY <3>1 DEF ListCells
    <2>4. h.kind = kd => h.i # 0
      BY <2>1, <2>2 DEF Numbered
    <2> QED
      BY <1>2, <2>1, <2>3, <2>4
  <1>13. Points(a, Entry(kd, p))
    <2>1. PICK c \in Cells(w) : c.kind = kd /\ c.pos = pos
      BY <1>1, <1>2, HeadNumbered
    <2>2. Entry(kd, p).kind = kd /\ Entry(kd, p).pos = p
      BY DEF Entry
    <2> QED
      BY <1>3, <1>11, <2>1, <2>2 DEF Points
  <1>14. Ready(a, {}, Entry(kd, p))
    BY <1>7, <1>11, <1>12, <1>13 DEF Ready, Extends
  <1> QED
    BY <1>2, <1>5, <1>14, StreamEntered DEF a, z

\* The list of the threads is complete.
LEMMA ThreadsDoneSound ==
    ASSUME DumpShape, FileSound, ThreadListDone, Safe(w')
    PROVE  FileSound'
  <1>1. PICK d \in Disk :
          /\ w' = End(Entered(Flush(Start(d), "threads", PositionOf(w, "threads"), 4)))
          /\ dir' = Append(dir, Entry("threads", PositionOf(w, "threads")))
    BY DEF ThreadListDone
  <1>2. dpc = "threads" /\ k > Len(tids) /\ dpc' = "modlist" /\ UNCHANGED <<cctx, tids, context>>
    BY DEF ThreadListDone
  <1>3. /\ \E pos \in Nat : ListOf(w, "threads", pos, 4, Len(tids), ThreadSize)
        /\ DirThere(w) /\ HolesKnown /\ Upcoming
    BY <1>2 DEF FileSound
  <1>4. /\ "threads" \in Kinds \ {"linkmap", "dir"} /\ Len(tids) \in Nat /\ ThreadSize \in Nat \ {0}
        /\ Len(dir) < kNumWriters /\ DumpTypes
    BY <1>2 DEF Kinds, ThreadSize, DumpShape, DumpTypes, DirShape, kNumWriters
  <1>5. \A h \in Holes(w) : Pending(h) \/ (h.kind = "threads" /\ (h.i = 0 \/ h.i >= k))
    BY <1>2, <1>3 DEF HolesKnown, Awaited
  <1>6. Extended({})
    BY <1>1, <1>2, <1>3, <1>4, <1>5, ListDone
  <1>7. Upcoming'
    <2>1. Extends(w, w', {})
      BY <1>6 DEF Extended
    <2>2. Fresh(w', "modules") /\ Fresh(w', "memory") /\ Fresh(w', "linkmap") /\ Fresh(w', "debug")
      BY <1>2, <1>3, <2>1, ExtendsKept DEF Upcoming
    <2> QED
      BY <1>2, <2>2 DEF Upcoming, Fresh
  <1>8. dpc \in Stages \ {"header", "list"} /\ dpc' \notin {"header", "list", "threads", "modules", "resume"}
    BY <1>2 DEF Stages
  <1> QED
    BY <1>2, <1>4, <1>6, <1>7, <1>8, StreamSound

\* The list of the modules is complete.
LEMMA ModulesDoneSound ==
    ASSUME DumpShape, FileSound, ModuleListDone, Safe(w')
    PROVE  FileSound'
  <1>1. PICK d \in Disk :
          /\ w' = End(Entered(Flush(Start(d), "modules", PositionOf(w, "modules"), 4)))
          /\ dir' = Append(dir, Entry("modules", PositionOf(w, "modules")))
    BY DEF ModuleListDone
  <1>2. dpc = "modules" /\ k > Modules /\ dpc' = "memory" /\ UNCHANGED <<cctx, tids, context>>
    BY DEF ModuleListDone
  <1>3. /\ \E pos \in Nat : ListOf(w, "modules", pos, 4, Modules, ModuleSize)
        /\ DirThere(w) /\ HolesKnown /\ Upcoming
    BY <1>2 DEF FileSound
  <1>4. /\ "modules" \in Kinds \ {"linkmap", "dir"} /\ Modules \in Nat /\ ModuleSize \in Nat \ {0}
        /\ Len(dir) < kNumWriters /\ DumpTypes
    BY <1>2, BudgetAssumption DEF Kinds, ModuleSize, DumpShape, DirShape, kNumWriters
  <1>5. \A h \in Holes(w) : Pending(h) \/ (h.kind = "modules" /\ (h.i = 0 \/ h.i >= k))
    BY <1>2, <1>3 DEF HolesKnown, Awaited
  <1>6. Extended({})
    BY <1>1, <1>2, <1>3, <1>4, <1>5, ListDone
  <1>7. Upcoming'
    <2>1. Extends(w, w', {})
      BY <1>6 DEF Extended
    <2>2. Fresh(w', "memory") /\ Fresh(w', "linkmap") /\ Fresh(w', "debug")
      BY <1>2, <1>3, <2>1, ExtendsKept DEF Upcoming
    <2> QED
      BY <1>2, <2>2 DEF Upcoming, Fresh
  <1>8. dpc \in Stages \ {"header", "list"} /\ dpc' \notin {"header", "list", "threads", "modules", "resume"}
    BY <1>2 DEF Stages
  <1> QED
    BY <1>2, <1>4, <1>6, <1>7, <1>8, StreamSound

\* There is room for another entry in the directory.
LEMMA StageRoom ==
    ASSUME DumpShape, dpc \in {"memory", "exception", "system", "files", "dso"}
    PROVE  Len(dir) < kNumWriters /\ DumpTypes /\ dir \in Seq(Entries) /\ k \in Nat
  <1>1. DumpTypes /\ DirShape
    BY DEF DumpShape
  <1>2. dir \in Seq(Entries) /\ k \in Nat
    BY <1>1 DEF DumpTypes
  <1>3. dpc = "files" => k <= 8 /\ Len(dir) = k + 4
    BY <1>1 DEF DirShape
  <1>4. dpc # "files" => Len(dir) \in {2, 3, 4, 12}
    BY <1>1 DEF DirShape
  <1>5. Len(dir) \in Nat /\ kNumWriters = 13
    BY <1>2 DEF kNumWriters
  <1>6. Len(dir) < kNumWriters
    <2>1. CASE dpc = "files"
      <3>1. k \in Nat /\ k <= 8 /\ Len(dir) = k + 4
        BY <1>2, <1>3, <2>1
      <3> QED
        BY <1>5, <3>1
    <2>2. CASE dpc # "files"
      <3>1. Len(dir) = 2 \/ Len(dir) = 3 \/ Len(dir) = 4 \/ Len(dir) = 12
        BY <1>4, <2>2
      <3>2. 2 < 13 /\ 3 < 13 /\ 4 < 13 /\ 12 < 13
        OBVIOUS
      <3> QED
        BY <1>5, <3>1, <3>2, Zenon
    <2> QED
      BY <2>1, <2>2
  <1> QED
    BY <1>1, <1>2, <1>6

\* A stream of one stage: the next one starts with the file extended.
LEMMA StageSound ==
    ASSUME DumpShape, FileSound, dpc \in {"memory", "exception", "system", "files", "dso"}, DirThere(w),
           NEW v, NEW K, NEW x, Ready(v, K, x), w' = End(Entered(v)), dir' = Append(dir, x), Safe(w'),
           UNCHANGED <<cctx, tids, context>>, dpc' \in {"exception", "system", "files", "resume"},
           dpc' = "resume" <=> dpc = "dso", dpc # "dso" => "linkmap" \notin K /\ "debug" \notin K
    PROVE  FileSound'
  <1>1. Len(dir) < kNumWriters /\ DumpTypes /\ dir \in Seq(Entries) /\ k \in Nat
    BY StageRoom
  <1>2. Pointed /\ Upcoming
    BY DEF FileSound
  <1>3. Extended(K)
    BY <1>1, <1>2, StreamEntered
  <1>4. Extends(w, w', K)
    BY <1>3 DEF Extended
  <1>5. Upcoming'
    <2>1. CASE dpc = "dso"
      BY <2>1 DEF Upcoming
    <2>2. CASE dpc # "dso"
      <3>1. "linkmap" \notin K /\ "debug" \notin K /\ Fresh(w, "linkmap") /\ Fresh(w, "debug")
        BY <1>2, <2>2 DEF Upcoming
      <3>2. Fresh(w', "linkmap") /\ Fresh(w', "debug")
        BY <1>4, <3>1, ExtendsKept
      <3> QED
        BY <3>2 DEF Upcoming, Fresh
    <2> QED
      BY <2>1, <2>2
  <1>6. dpc' = "resume" => Len(dir') = kNumWriters
    BY <1>1 DEF DumpShape, DirShape, kNumWriters
  <1>7. /\ dpc \in Stages \ {"header", "list"} /\ dpc # "threads"
        /\ dpc' \notin {"header", "list", "threads", "modules"}
    BY DEF Stages
  <1> QED
    BY <1>1, <1>3, <1>5, <1>6, <1>7, StreamSound

\* In these stages every hole is one that may stay for now.
LEMMA StageHoles ==
    ASSUME FileSound, dpc \in {"memory", "exception", "system", "files", "dso"}
    PROVE  Sound(w) /\ DirThere(w) /\ \A c \in Holes(w) : Pending(c)
  BY DEF FileSound, HolesKnown, Awaited

\* The list of the memory blocks.
LEMMA MemorySound ==
    ASSUME DumpShape, FileSound, WriteMemoryListStream, dpc' = "exception", Safe(w')
    PROVE  FileSound'
  <1> DEFINE A(d) == AllocateList(Start(d), "memory", 4, blocks, DescriptorSize)
             B(d) == CopyIndex(A(d), "memory", 4, 1, blocks, DescriptorSize)
             C(d) == IF A(d).ok THEN Entered(Flush(B(d), "memory", w.position, 4)) ELSE A(d)
  <1>1. PICK d \in Disk :
          /\ Then(C(d), "exception")
          /\ dir' = IF C(d).ok THEN Append(dir, Entry("memory", w.position)) ELSE dir
    BY DEF WriteMemoryListStream
  <1>2. dpc = "memory" /\ UNCHANGED <<cctx, tids, context>>
    BY DEF WriteMemoryListStream
  <1> DEFINE z == Start(d)
             a == AllocateList(z, "memory", 4, blocks, DescriptorSize)
             b == CopyIndex(a, "memory", 4, 1, blocks, DescriptorSize)
             f == Flush(b, "memory", w.position, 4)
             c == IF a.ok THEN Entered(f) ELSE a
             x == Entry("memory", w.position)
             p == w.position
  <1>3. c.ok /\ w' = End(c) /\ dir' = Append(dir, x)
    BY <1>1 DEF Then, Abandon, Fail
  <1>4. a.ok /\ w' = End(Entered(f))
    BY <1>3
  <1>5. Sound(w) /\ DirThere(w) /\ (\A h \in Holes(w) : Pending(h)) /\ Fresh(w, "memory")
    BY <1>2, StageHoles DEF FileSound, Upcoming
  <1>6. /\ w \in Writer /\ p \in Nat /\ blocks \in Nat /\ dir \in Seq(Entries)
        /\ "memory" \in Kinds /\ 4 \in Nat /\ 4 \in 1..ExceptionSize /\ DescriptorSize = 16 /\ DescriptorSize \in Nat
        /\ 1 \in Nat \ {0} /\ 4 > 0
    BY DEF DumpShape, DumpTypes, Writer, Kinds, ExceptionSize, DescriptorSize
  <1>7. Alike(w, z)
    BY <1>6, StartSound
  <1> HIDE DEF A, B, C, z
  <1>8. z \in Writer /\ Sound(z) /\ Cells(z) = Cells(w) /\ Holes(z) = Holes(w) /\ z.position = p
    BY <1>5, <1>7 DEF Alike
  <1>9. a \in Writer /\ Has(a, "memory") /\ Follows(z, a)
    <2>1. Allocated(z, a, "memory", 4, blocks)
      BY <1>6, <1>8, AllocateListFollows
    <2> QED
      BY <1>4, <1>6, <2>1, FollowsWriter DEF Allocated
  <1> HIDE DEF a
  <1>10. Written(a, b)
    <2>1. a.ok /\ 1 <= blocks => Has(a, "memory")
      BY <1>9
    <2> QED
      BY <1>6, <1>9, <2>1, CopyIndexFollows
  <1>11. b \in Writer /\ b.ok /\ Grown(a, b)
    BY <1>4, <1>10, FollowsWriter DEF Written, Follows
  <1> HIDE DEF b
  <1>12. Written(b, f)
    BY <1>6, <1>11, FlushFollows
  <1>13. f \in Writer /\ f.ok /\ Grown(b, f)
    BY <1>11, <1>12, FollowsWriter DEF Written, Follows
  <1> HIDE DEF f
  <1>14. Has(f, "dir")
    <2>1. Has(z, "dir")
      BY <1>5, <1>6, DirHas, StartGrown DEF z
    <2> QED
      BY <1>9, <1>11, <1>13, <2>1 DEF Follows, Grown
  <1>15. Safe(f) /\ Safe(b) /\ Safe(a)
    <2>1. Safe(f)
      BY <1>4, <1>6, <1>13, <1>14, EnteredSafe
    <2>2. Safe(b)
      BY <1>11, <1>13, <2>1, GrownSafe
    <2> QED
      BY <1>9, <1>11, <2>1, <2>2, GrownSafe
  <1> DEFINE L == ListCells("memory", 0, p, 4, blocks, 16)
  <1>16. Placed(z, a, L)
    BY <1>6, <1>8, <1>15, AllocateListPlaced DEF a
  <1>17. ListOf(a, "memory", p, 4, blocks, 16)
    <2>1. Fresh(z, "memory")
      BY <1>5, <1>8 DEF Fresh
    <2> QED
      BY <1>4, <1>16, <2>1, ListPlaced
  <1>18. IsList("memory", p, 4, blocks, 16)
    BY <1>6 DEF IsList
  <1>19. \A h \in L : h.kind = "memory"
    BY DEF ListCells
  <1> HIDE DEF L
  <1>20. Cells(a) = Cells(w) \cup L /\ Holes(a) = Holes(w) \cup L /\ Sound(a)
    BY <1>4, <1>8, <1>16 DEF Placed
  <1>21. Filled(a, b, {h \in Cells(a) : h.kind = "memory" /\ h.i # 0})
    <2>1. \A h \in Cells(a) : h.kind # "memory" => h.pos + h.len <= p
      BY <1>5, <1>19, <1>20 DEF Sound
    <2> QED
      BY <1>4, <1>6, <1>9, <1>15, <1>17, <1>18, <1>20, <2>1, ElementsWritten DEF b
  <1>22. Sound(b) /\ Cells(b) = Cells(a) /\ ListOf(b, "memory", p, 4, blocks, 16)
    BY <1>17, <1>21 DEF Filled, ListOf
  <1>23. Filled(b, f, Numbered(b, "memory", 0))
    BY <1>6, <1>11, <1>15, <1>18, <1>22, HeadWritten DEF f
  <1>24. Sound(f) /\ Cells(f) = Cells(w) \cup L
    BY <1>20, <1>22, <1>23 DEF Filled
  <1>25. ASSUME NEW h \in Holes(f) PROVE h \in Holes(w)
    <2>1. h \in Holes(a) /\ ~(h.kind = "memory" /\ h \in Cells(a))
      <3>1. h \in Holes(b) /\ h \notin Numbered(b, "memory", 0)
        BY <1>23 DEF Filled
      <3>2. h \in Holes(a) /\ h \notin {y \in Cells(a) : y.kind = "memory" /\ y.i # 0}
        BY <1>21, <3>1 DEF Filled
      <3> QED
        BY <1>22, <3>1, <3>2 DEF Numbered
    <2> QED
      BY <1>19, <1>20, <2>1
  <1>26. Points(f, x)
    <2>1. PICK h \in Cells(a) : h.kind = "memory" /\ h.pos = p
      BY <1>6, <1>17, <1>18, HeadNumbered
    <2>2. x.kind = "memory" /\ x.pos = p
      BY DEF Entry
    <2> QED
      BY <1>20, <1>24, <2>1, <2>2 DEF Points
  <1> HIDE DEF x
  <1>27. Extends(w, f, {"memory"})
    BY <1>19, <1>24 DEF Extends
  <1>28. Ready(f, {"memory"}, x)
    BY <1>5, <1>13, <1>24, <1>25, <1>26, <1>27 DEF Ready
  <1> QED
    BY <1>2, <1>3, <1>4, <1>5, <1>28, StageSound

\* The exception.
LEMMA ExceptionSound ==
    ASSUME DumpShape, FileSound, WriteExceptionStream, dpc' = "system", Safe(w')
    PROVE  FileSound'
  <1> DEFINE A(d) == WriteObject(Start(d), "exception", 0, ExceptionSize)
             B(d) == IF A(d).ok THEN Entered(A(d)) ELSE A(d)
  <1>1. PICK d \in Disk :
          /\ Then(B(d), "system")
          /\ dir' = IF B(d).ok THEN Append(dir, Entry("exception", w.position)) ELSE dir
    BY DEF WriteExceptionStream
  <1>2. dpc = "exception" /\ UNCHANGED <<cctx, tids, context>>
    BY DEF WriteExceptionStream
  <1> DEFINE z == Start(d)
             a == WriteObject(z, "exception", 0, ExceptionSize)
             b == IF a.ok THEN Entered(a) ELSE a
             x == Entry("exception", w.position)
  <1>3. b.ok /\ w' = End(b) /\ dir' = Append(dir, x)
    BY <1>1 DEF Then, Abandon, Fail
  <1>4. a.ok /\ w' = End(Entered(a))
    BY <1>3
  <1>5. Sound(w) /\ DirThere(w) /\ (\A h \in Holes(w) : Pending(h))
    BY <1>2, StageHoles
  <1>6. /\ w \in Writer /\ dir \in Seq(Entries) /\ "exception" \in Kinds /\ 0 \in Nat
        /\ ExceptionSize \in 1..ExceptionSize /\ ExceptionSize \in Nat
    BY DEF DumpShape, DumpTypes, Kinds, ExceptionSize
  <1>7. Alike(w, z)
    BY <1>6, StartSound
  <1> HIDE DEF A, B, z
  <1>8. z \in Writer /\ Sound(z) /\ Cells(z) = Cells(w) /\ Holes(z) = Holes(w) /\ z.position = w.position
    BY <1>5, <1>7 DEF Alike
  <1>9. Follows(z, a)
    BY <1>6, <1>8, WriteObjectFollows
  <1>10. a \in Writer /\ Has(a, "dir")
    <2>1. Has(z, "dir")
      BY <1>5, <1>6, DirHas, StartGrown DEF z
    <2> QED
      BY <1>9, <2>1 DEF Follows, Grown
  <1> HIDE DEF a
  <1>11. Safe(a)
    BY <1>4, <1>6, <1>10, EnteredSafe
  <1>12. Added(z, a, "exception")
    BY <1>6, <1>8, <1>11, WriteObjectAdds DEF a
  <1>13. Points(a, x)
    <2>1. x.kind = "exception" /\ x.pos = w.position
      BY DEF Entry
    <2> QED
      BY <1>4, <1>8, <1>12, <2>1 DEF Added, Points
  <1> HIDE DEF x
  <1>14. Ready(a, {"exception"}, x)
    BY <1>4, <1>5, <1>8, <1>10, <1>12, <1>13 DEF Ready, Added, Adds, Extends
  <1> QED
    BY <1>2, <1>3, <1>4, <1>5, <1>14, StageSound

\* The place of an object without elements.
LEMMA SoleCell ==
    ASSUME NEW kd \in Kinds, NEW pos \in Nat, NEW head \in Nat \ {0}
    PROVE  \E c : c.kind = kd /\ c.pos = pos /\ c.len = head /\ ListCells(kd, 0, pos, head, 0, 0) = {c}
  <1>1. PICK c \in ListCells(kd, 0, pos, head, 0, 0) : c.kind = kd /\ c.pos = pos /\ c.len = head
    <2>1. 0 \in Nat
      OBVIOUS
    <2> QED
      BY <2>1, HeadCell
  <1>2. ListCells(kd, 0, pos, head, 0, 0) = {c}
    BY OneCell
  <1> QED
    BY <1>1, <1>2

\* The system's name and version.
LEMMA SystemSound ==
    ASSUME DumpShape, FileSound, WriteSystemInfoStream, dpc' = "files", Safe(w')
    PROVE  FileSound'
  <1> DEFINE A(d) == AllocateList(Start(d), "system", SystemSize, 0, 0)
             B(d) == WriteOSInformation(A(d))
             C(d) == IF A(d).ok THEN Flush([B(d) EXCEPT !.ok = TRUE], "system", w.position, SystemSize)
                     ELSE A(d)
             E(d) == IF A(d).ok THEN Entered(C(d)) ELSE C(d)
             K == {"system", "version"}
  <1>1. PICK d \in Disk :
          /\ Then(E(d), "files")
          /\ dir' = IF E(d).ok THEN Append(dir, Entry("system", w.position)) ELSE dir
    BY DEF WriteSystemInfoStream
  <1>2. dpc = "system" /\ UNCHANGED <<cctx, tids, context>>
    BY DEF WriteSystemInfoStream
  <1> DEFINE z == Start(d)
             p == w.position
             a == AllocateList(z, "system", SystemSize, 0, 0)
             b == WriteString(a, "version", NameLen, TRUE)
             o == [b EXCEPT !.ok = TRUE]
             f == Flush(o, "system", p, SystemSize)
             x == Entry("system", p)
  <1>3. E(d).ok /\ w' = End(E(d)) /\ dir' = Append(dir, x)
    BY <1>1 DEF Then, Abandon, Fail
  <1>4. a.ok /\ w' = End(Entered(f))
    BY <1>3 DEF WriteOSInformation
  <1>5. Sound(w) /\ DirThere(w) /\ (\A h \in Holes(w) : Pending(h))
    BY <1>2, StageHoles
  <1>6. /\ w \in Writer /\ p \in Nat /\ dir \in Seq(Entries) /\ "system" \in Kinds /\ "version" \in Kinds
        /\ 0 \in Nat /\ SystemSize \in Nat \ {0} /\ SystemSize \in Nat /\ SystemSize \in 1..ExceptionSize
        /\ NameLen \in Nat /\ NameLen \in Nat \ {0} /\ TRUE \in BOOLEAN
    BY DEF DumpShape, DumpTypes, Writer, Kinds, ExceptionSize, SystemSize, NameLen
  <1>7. Alike(w, z)
    BY <1>6, StartSound
  <1>8. Has(z, "dir")
    BY <1>5, <1>6, DirHas, StartGrown
  <1> HIDE DEF A, B, C, E, z
  <1>9. z \in Writer /\ Sound(z) /\ Cells(z) = Cells(w) /\ Holes(z) = Holes(w) /\ z.position = p
    BY <1>5, <1>7 DEF Alike
  <1>10. a \in Writer /\ Grown(z, a)
    <2>1. Allocated(z, a, "system", SystemSize, 0)
      BY <1>6, <1>9, AllocateListFollows
    <2> QED
      BY <2>1, FollowsWriter DEF Allocated, Follows
  <1> HIDE DEF a
  <1>11. b \in Writer /\ Grown(a, b)
    BY <1>6, <1>10, WriteStringFollows, FollowsWriter DEF Follows
  <1> HIDE DEF b
  <1>12. Reset(b, o, TRUE) /\ o \in Writer /\ Grown(b, o)
    BY <1>6, <1>11, SetOkSound, SetOkGrown
  <1> HIDE DEF o
  <1>13. f \in Writer /\ Grown(o, f) /\ f.ok = o.ok
    BY <1>6, <1>12, FlushFollows, FollowsWriter DEF Written, Follows
  <1>14. Has(f, "dir")
    BY <1>8, <1>10, <1>11, <1>12, <1>13 DEF Grown
  <1> HIDE DEF f
  <1>15. Safe(f) /\ Safe(o) /\ Safe(b) /\ Safe(a)
    <2>1. Safe(f)
      BY <1>4, <1>6, <1>13, <1>14, EnteredSafe
    <2>2. Safe(o)
      BY <1>12, <1>13, <2>1, GrownSafe
    <2>3. Safe(b)
      BY <1>11, <1>12, <2>2, GrownSafe
    <2> QED
      BY <1>10, <1>11, <2>1, <2>2, <2>3, GrownSafe
  <1> DEFINE L == ListCells("system", 0, p, SystemSize, 0, 0)
  <1>16. Placed(z, a, L)
    BY <1>6, <1>9, <1>15, AllocateListPlaced DEF a
  <1>17. PICK h : h.kind = "system" /\ h.pos = p /\ h.len = SystemSize /\ L = {h}
    BY <1>6, SoleCell
  <1> HIDE DEF L
  <1>19. Sound(a) /\ Cells(a) = Cells(w) \cup {h} /\ Holes(a) = Holes(w) \cup {h}
    BY <1>4, <1>9, <1>16, <1>17 DEF Placed
  <1>20. Adds(a, b, {"version"})
    <2>1. b = WriteString(a, "version", NameLen, TRUE)
      BY DEF b
    <2> QED
      BY <1>6, <1>10, <1>15, <1>19, <2>1, WriteStringAdds
  <1>21. Sound(o) /\ o.ok /\ Cells(o) = Cells(b) /\ Holes(o) = Holes(b)
    BY <1>12, <1>20 DEF Reset, Adds
  <1>22. h \in Cells(o)
    BY <1>19, <1>20, <1>21 DEF Adds
  <1>23. Filled(o, f, {h})
    <2>1. f = Copy(o, "system", p, SystemSize)
      BY DEF f, Flush
    <2> QED
      BY <1>12, <1>15, <1>17, <1>21, <1>22, <2>1, CopyCell
  <1>24. Sound(f) /\ f.ok /\ Cells(f) = Cells(b)
    BY <1>13, <1>21, <1>23 DEF Filled
  <1>25. Extends(w, f, K)
    BY <1>17, <1>19, <1>20, <1>24 DEF Adds, Extends
  <1>26. \A c \in Holes(f) : c \in Holes(w)
    BY <1>19, <1>20, <1>21, <1>23 DEF Adds, Filled
  <1>27. Points(f, x)
    <2>1. x.kind = "system" /\ x.pos = p
      BY DEF Entry
    <2> QED
      BY <1>17, <1>21, <1>22, <1>24, <2>1 DEF Points
  <1> HIDE DEF x
  <1>28. Ready(f, K, x)
    BY <1>5, <1>13, <1>24, <1>25, <1>26, <1>27 DEF Ready
  <1> QED
    BY <1>2, <1>3, <1>4, <1>5, <1>28, StageSound

\* A file that was not written, or not completely, leaves no more than the link map behind.
LEMMA OptionalSound ==
    ASSUME DumpShape, FileSound, dpc \in {"files", "dso"}, NEW v, Grown(w, v), Sound(v), NEW K,
           Extends(w, v, K), "dir" \notin K, \A c \in Holes(v) : Pending(c), NEW x, Points(v, x),
           w' = End(Entered([v EXCEPT !.ok = TRUE])), dir' = Append(dir, x), Safe(w'),
           UNCHANGED <<cctx, tids, context>>, dpc' \in {"files", "resume"},
           dpc' = "resume" <=> dpc = "dso", dpc # "dso" => "linkmap" \notin K /\ "debug" \notin K
    PROVE  FileSound'
  <1> DEFINE o == [v EXCEPT !.ok = TRUE]
  <1>1. DirThere(w)
    BY StageHoles
  <1>2. v \in Writer /\ TRUE \in BOOLEAN
    BY DEF Grown
  <1>3. Reset(v, o, TRUE)
    BY <1>2, SetOkSound
  <1> HIDE DEF o
  <1>4. Extends(w, o, K) /\ Points(o, x) /\ Sound(o) /\ o.ok /\ o \in Writer /\ Holes(o) = Holes(v)
    BY <1>3 DEF Reset, Extends, Points
  <1>5. Ready(o, K, x)
    BY <1>4 DEF Ready
  <1>6. w' = End(Entered(o))
    BY DEF o
  <1>7. /\ dpc \in {"memory", "exception", "system", "files", "dso"}
        /\ dpc' \in {"exception", "system", "files", "resume"}
    OBVIOUS
  <1> QED
    BY <1>1, <1>5, <1>6, <1>7, StageSound

\* What was safe after the entry was so before.
LEMMA OptionalSafe ==
    ASSUME dir \in Seq(Entries), w \in Writer, DirThere(w), NEW v, Grown(w, v),
           Safe(End(Entered([v EXCEPT !.ok = TRUE])))
    PROVE  Safe(v)
  <1> DEFINE o == [v EXCEPT !.ok = TRUE]
  <1>1. v \in Writer /\ TRUE \in BOOLEAN
    BY DEF Grown
  <1>2. Reset(v, o, TRUE) /\ o \in Writer /\ Grown(v, o)
    BY <1>1, SetOkSound, SetOkGrown
  <1>3. Safe(End(Entered(o)))
    OBVIOUS
  <1> HIDE DEF o
  <1>4. Has(o, "dir")
    BY <1>2, DirHas DEF Grown
  <1>5. Safe(o)
    BY <1>2, <1>3, <1>4, EnteredSafe
  <1> QED
    BY <1>2, <1>5 DEF Reset

\* An optional stream that was not read.
LEMMA UnreadSound ==
    ASSUME w \in Writer, Sound(w), NEW d \in Disk, NEW v, v = [Start(d) EXCEPT !.ok = FALSE]
    PROVE  ~v.ok /\ Sound(v) /\ Cells(v) = Cells(w) /\ Holes(v) = Holes(w) /\ Grown(w, v)
  <1> DEFINE z == Start(d)
  <1>1. Alike(w, z) /\ Grown(w, z) /\ FALSE \in BOOLEAN
    BY StartSound, StartGrown
  <1>2. v = [z EXCEPT !.ok = FALSE]
    OBVIOUS
  <1> HIDE DEF z
  <1>3. z \in Writer
    BY <1>1 DEF Alike
  <1>4. Reset(z, v, FALSE) /\ Grown(z, v)
    BY <1>1, <1>2, <1>3, SetOkSound, SetOkGrown
  <1>5. Grown(w, v)
    BY <1>1, <1>3, <1>4, GrownTransitive
  <1> QED
    BY <1>1, <1>4, <1>5 DEF Alike, Reset

\* One of the streams that are copies of files.
LEMMA FileStreamSound ==
    ASSUME DumpShape, FileSound, NEW live, WriteFile(live), Safe(w')
    PROVE  FileSound'
  <1>1. PICK d \in Disk, readable \in BOOLEAN :
          /\ w' = End(Entered([CopyFile(d, readable) EXCEPT !.ok = TRUE]))
          /\ dir' = Append(dir, IF CopyFile(d, readable).ok THEN Entry(Files[k], w.position)
                                ELSE NullEntry)
    BY DEF WriteFile
  <1>2. dpc = "files" /\ k <= 7 /\ dpc' = "files" /\ UNCHANGED <<cctx, tids, context>>
    BY DEF WriteFile, Files
  <1>3. w \in Writer /\ w.position \in Nat /\ k \in 1..7 /\ dir \in Seq(Entries)
    BY <1>2 DEF DumpShape, DumpTypes, FileShape, Reading, Writer
  <1>4. Sound(w) /\ DirThere(w) /\ (\A h \in Holes(w) : Pending(h))
    BY <1>2, StageHoles
  <1> DEFINE kd == Files[k]
             p == w.position
             z == Start(d)
             v == CopyFile(d, readable)
             x == IF v.ok THEN Entry(kd, p) ELSE NullEntry
             K == {kd}
  <1>5. kd \in Kinds /\ "dir" \notin K /\ "linkmap" \notin K /\ "debug" \notin K
    BY <1>3 DEF Files, Kinds
  <1>6. Entry(kd, p).kind = kd /\ Entry(kd, p).pos = p
    BY DEF Entry
  <1>7. dir' = Append(dir, x) /\ w' = End(Entered([v EXCEPT !.ok = TRUE]))
    BY <1>1
  <1>8. v = IF readable THEN WriteBlock(z, kd, 0, FileLen) ELSE [z EXCEPT !.ok = FALSE]
    BY DEF CopyFile
  <1>9. Alike(w, z) /\ Grown(w, z)
    BY <1>3, StartSound, StartGrown
  <1> HIDE DEF kd, v
  <1>10. /\ Grown(w, v) /\ Sound(v) /\ Extends(w, v, K) /\ Points(v, x)
         /\ \A h \in Holes(v) : h \in Holes(w)
    <2>1. CASE ~readable
      <3>1. ~v.ok /\ Sound(v) /\ Cells(v) = Cells(w) /\ Holes(v) = Holes(w) /\ Grown(w, v)
        BY <1>3, <1>4, <1>8, <2>1, UnreadSound
      <3> QED
        BY <3>1 DEF Extends, Points
    <2>2. CASE readable
      <3> HIDE DEF z
      <3>1. z \in Writer /\ Sound(z) /\ Cells(z) = Cells(w) /\ Holes(z) = Holes(w) /\ z.position = p
        BY <1>4, <1>9 DEF Alike
      <3>2. v = WriteBlock(z, kd, 0, FileLen) /\ FileLen \in Nat \ {0} /\ FileLen \in Nat /\ 0 \in Nat
        BY <1>8, <2>2 DEF FileLen
      <3>3. Grown(z, v)
        BY <1>5, <3>1, <3>2, WriteBlockFollows DEF Follows
      <3>4. Grown(w, v)
        BY <1>3, <1>9, <3>1, <3>3, GrownTransitive
      <3>5. Safe(v)
        BY <1>3, <1>4, <1>7, <3>4, OptionalSafe
      <3>6. Added(z, v, kd)
        BY <1>5, <3>1, <3>2, <3>5, WriteBlockAdds
      <3>7. Adds(z, v, K) /\ (v.ok => \E c \in Cells(v) : c.kind = kd /\ c.pos = p)
        BY <3>1, <3>6 DEF Added
      <3>8. Points(v, x)
        BY <1>5, <1>6, <3>7 DEF Points
      <3> QED
        BY <3>1, <3>4, <3>7, <3>8 DEF Adds, Extends
    <2> QED
      BY <2>1, <2>2
  <1> HIDE DEF x, K
  <1>11. \A h \in Holes(v) : Pending(h)
    BY <1>4, <1>10
  <1>12. dpc \in {"files", "dso"} /\ dpc' \in {"files", "resume"} /\ (dpc' = "resume" <=> dpc = "dso")
    BY <1>2
  <1> QED
    BY <1>2, <1>5, <1>7, <1>10, <1>11, <1>12, OptionalSound

\* All files are copied.
LEMMA FilesDoneSound ==
    ASSUME FileSound, FilesDone
    PROVE  FileSound'
  <1>1. dpc = "files" /\ dpc' = "dso" /\ UNCHANGED <<cctx, tids, context, dir, w>>
    BY DEF FilesDone
  <1>2. Sound(w') /\ DirThere(w')
    BY <1>1, StageHoles
  <1>3. Upcoming'
    BY <1>1 DEF FileSound, Upcoming, Fresh
  <1>4. HolesKnown'
    <2>1. ASSUME NEW c \in Holes(w') PROVE Pending(c)'
      BY <1>1, StageHoles DEF Pending
    <2> QED
      BY <2>1 DEF HolesKnown
  <1>5. Pointed'
    BY <1>1 DEF FileSound, Pointed, Points
  <1>6. CrashPointed'
    BY <1>1 DEF FileSound, CrashPointed, CpuAt
  <1>7. Sound(w)' /\ DirThere(w)'
    BY <1>2 DEF Sound, DirThere, ListOf
  <1> QED
    BY <1>1, <1>3, <1>4, <1>5, <1>6, <1>7 DEF FileSound

\* The link map: what is not written is the link map itself.
MapWritten(v, u) ==
    /\ Grown(v, u) /\ Sound(u) /\ Extends(v, u, {"linkmap", "dso_name"})
    /\ \A h \in Holes(u) : h \in Holes(v) \/ h.kind = "linkmap"

\* The link map of a program that lists no library.
LEMMA NoMap ==
    ASSUME NEW z \in Writer, Sound(z), NEW e
    PROVE  CopyIndex(z, "linkmap", 0, 1, 0, e) = z /\ MapWritten(z, z)
  <1>1. ~(1 <= 0)
    OBVIOUS
  <1>2. CopyIndex(z, "linkmap", 0, 1, 0, e) = z
    BY <1>1 DEF CopyIndex
  <1>3. Grown(z, z)
    BY FollowsSelf DEF Follows
  <1> QED
    BY <1>2, <1>3 DEF MapWritten, Extends

\* The link map with one library.
LEMMA MapAdded ==
    ASSUME NEW z \in Writer, Sound(z), Fresh(z, "linkmap"),
           NEW a, a = Allocate(z, "linkmap", 0, 0, 1, LinkMapSize),
           NEW b, b = WriteString(a, "dso_name", NameLen, TRUE),
           NEW c, c = CopyIndex(b, "linkmap", 0, 1, 1, LinkMapSize)
    PROVE  Grown(z, c) /\ (Safe(c) => MapWritten(z, c))
  <1> DEFINE p == z.position
             L == ListCells("linkmap", 0, p, 0, 1, LinkMapSize)
  <1>1. /\ "linkmap" \in Kinds /\ "dso_name" \in Kinds /\ LinkMapSize \in Nat /\ 0 \in Nat /\ 1 \in Nat
        /\ 1 \in Nat \ {0} /\ NameLen \in Nat /\ NameLen \in Nat \ {0} /\ TRUE \in BOOLEAN /\ p \in Nat
        /\ LinkMapSize > 0 /\ 1 \in 1..1
    BY DEF Kinds, LinkMapSize, NameLen, Writer
  <1>2. Placed(z, a, L)
    BY <1>1, AllocateSound
  <1>3. IsList("linkmap", p, 0, 1, LinkMapSize)
    BY <1>1 DEF IsList
  <1>4. \A h \in L : h.kind = "linkmap"
    BY DEF ListCells
  <1>5. Extends(z, a, {"linkmap"})
    BY <1>2, PlacedExtends
  <1>6. a.ok => ListOf(a, "linkmap", p, 0, 1, LinkMapSize)
    BY <1>2, ListPlaced
  <1> HIDE DEF L
  <1>7. a \in Writer /\ Sound(a) /\ (\A h \in Holes(a) : h \in Holes(z) \/ h.kind = "linkmap")
    BY <1>2, <1>4 DEF Placed
  <1>8. Follows(z, a) /\ (a.ok => Has(a, "linkmap"))
    <2>1. Allocated(z, a, "linkmap", 0, 1)
      BY <1>1, AllocateFollows
    <2> QED
      BY <2>1 DEF Allocated
  <1>9. Follows(a, b) /\ b \in Writer
    BY <1>1, <1>7, WriteStringFollows, FollowsWriter
  <1>10. Written(b, c)
    <2>1. b.ok => Has(b, "linkmap")
      BY <1>8, <1>9 DEF Follows, Grown
    <2> QED
      BY <1>1, <1>9, <2>1, CopyIndexFollows
  <1>11. Grown(z, c) /\ Grown(b, c)
    <2>1. Grown(z, a) /\ Grown(a, b) /\ Grown(b, c)
      BY <1>8, <1>9, <1>10 DEF Written, Follows
    <2>2. Grown(z, b)
      BY <2>1, GrownTransitive
    <2> QED
      BY <2>1, <2>2, GrownTransitive
  <1>12. ASSUME Safe(c) PROVE MapWritten(z, c)
    <2>1. Safe(b)
      BY <1>9, <1>11, <1>12, GrownSafe
    <2>2. Adds(a, b, {"dso_name"}) /\ (b.ok => a.ok)
      BY <1>1, <1>7, <2>1, WriteStringAdds
    <2>3. Sound(b) /\ Extends(a, b, {"dso_name"}) /\ Holes(b) \subseteq Holes(a)
      BY <2>2 DEF Adds, Extends
    <2>4. Sound(c) /\ Cells(c) = Cells(b) /\ Holes(c) \subseteq Holes(b)
      <3>1. CASE b.ok
        <4>1. ListOf(b, "linkmap", p, 0, 1, LinkMapSize)
          <5>1. "linkmap" \notin {"dso_name"}
            OBVIOUS
          <5> QED
            BY <1>6, <2>2, <2>3, <3>1, <5>1, ExtendsKept
        <4>2. Filled(b, c, Numbered(b, "linkmap", 1))
          BY <1>1, <1>3, <1>9, <1>12, <2>3, <3>1, <4>1, ElementWritten
        <4> QED
          BY <4>2 DEF Filled
      <3>2. CASE ~b.ok
        BY <2>3, <3>2 DEF CopyIndex
      <3> QED
        BY <3>1, <3>2
    <2>5. Extends(z, c, {"linkmap", "dso_name"})
      BY <1>5, <2>3, <2>4 DEF Extends
    <2> QED
      BY <1>7, <1>11, <2>3, <2>4, <2>5 DEF MapWritten
  <1> QED
    BY <1>11, <1>12

\* The debug record and the dynamic section: both are written, or neither is there.
RecordWritten(v, u) ==
    /\ Sound(u) /\ Extends(v, u, {"debug"}) /\ Holes(u) \subseteq Holes(v)
    /\ u.ok => \E h \in Cells(u) : h.kind = "debug" /\ h.pos = v.position

\* The calls that write them.
LEMMA RecordGrown ==
    ASSUME NEW c \in Writer,
           NEW e, e = AllocateList(c, "debug", DebugSize, 1, FileLen),
           NEW g, g = CopyIndex(e, "debug", DebugSize, 1, 1, FileLen),
           NEW f, f = IF e.ok THEN Flush(g, "debug", c.position, DebugSize) ELSE e
    PROVE  /\ e \in Writer /\ g \in Writer /\ Grown(c, f) /\ Grown(e, f) /\ g.ok = e.ok
           /\ e.ok => Grown(g, f)
  <1> DEFINE p == c.position
             x == Flush(g, "debug", p, DebugSize)
  <1>1. /\ "debug" \in Kinds /\ DebugSize \in Nat /\ DebugSize \in 1..ExceptionSize /\ DebugSize > 0
        /\ FileLen \in Nat /\ FileLen > 0 /\ 1 \in Nat /\ 1 \in Nat \ {0} /\ 1 \in 1..1 /\ p \in Nat
    BY DEF Kinds, DebugSize, ExceptionSize, FileLen, Writer
  <1>2. Follows(c, e) /\ e \in Writer /\ (e.ok => Has(e, "debug"))
    <2>1. Allocated(c, e, "debug", DebugSize, 1)
      BY <1>1, AllocateListFollows
    <2> QED
      BY <1>1, <2>1, FollowsWriter DEF Allocated
  <1>3. Written(e, g)
    BY <1>1, <1>2, CopyIndexFollows
  <1>4. g \in Writer /\ Grown(e, g) /\ g.ok = e.ok
    BY <1>3, FollowsWriter DEF Written, Follows
  <1>5. x \in Writer /\ Grown(g, x) /\ x.ok = g.ok
    BY <1>1, <1>4, FlushFollows, FollowsWriter DEF Written, Follows
  <1>6. f = IF e.ok THEN x ELSE e
    OBVIOUS
  <1> HIDE DEF x
  <1>7. Grown(c, f) /\ Grown(e, f)
    <2>1. Grown(c, e) /\ Grown(e, e)
      BY <1>2, FollowsSelf DEF Follows
    <2>2. Grown(e, x)
      BY <1>2, <1>4, <1>5, GrownTransitive
    <2>3. Grown(c, x)
      BY <1>2, <2>1, <2>2, GrownTransitive
    <2> QED
      BY <1>6, <2>1, <2>2, <2>3
  <1> QED
    BY <1>2, <1>4, <1>5, <1>6, <1>7

\* ... and what they leave in the file.
LEMMA RecordAdded ==
    ASSUME NEW c \in Writer, Sound(c), Fresh(c, "debug"),
           NEW e, e = AllocateList(c, "debug", DebugSize, 1, FileLen),
           NEW g, g = CopyIndex(e, "debug", DebugSize, 1, 1, FileLen),
           NEW f, f = IF e.ok THEN Flush(g, "debug", c.position, DebugSize) ELSE e, Safe(f)
    PROVE  RecordWritten(c, f)
  <1> DEFINE p == c.position
             L == ListCells("debug", 0, p, DebugSize, 1, FileLen)
             x == Flush(g, "debug", p, DebugSize)
  <1>1. /\ "debug" \in Kinds /\ DebugSize \in Nat /\ DebugSize \in 1..ExceptionSize /\ DebugSize > 0
        /\ FileLen \in Nat /\ FileLen > 0 /\ 1 \in Nat /\ 1 \in Nat \ {0} /\ 1 \in 1..1 /\ p \in Nat
    BY DEF Kinds, DebugSize, ExceptionSize, FileLen, Writer
  <1>2. e \in Writer /\ g \in Writer /\ Grown(e, f) /\ g.ok = e.ok /\ (e.ok => Grown(g, f))
    BY RecordGrown
  <1>3. f = IF e.ok THEN x ELSE e
    OBVIOUS
  <1> HIDE DEF x
  <1>4. RecordWritten(c, f)
    <2>1. Safe(e)
      BY <1>2, GrownSafe
    <2>2. Placed(c, e, L)
      BY <1>1, <2>1, AllocateListPlaced
    <2>3. Extends(c, e, {"debug"})
      BY <2>2, PlacedExtends
    <2>4. CASE ~e.ok
      <3>1. f = e
        BY <1>3, <2>4
      <3> QED
        BY <2>2, <2>3, <2>4, <3>1 DEF Placed, RecordWritten
    <2>5. CASE e.ok
      <3>1. f = x
        BY <1>3, <2>5
      <3>2. Safe(x) /\ Safe(g)
        BY <1>2, <2>5, <3>1, GrownSafe
      <3>3. ListOf(e, "debug", p, DebugSize, 1, FileLen)
        BY <2>2, <2>5, ListPlaced
      <3>4. IsList("debug", p, DebugSize, 1, FileLen)
        BY <1>1 DEF IsList
      <3>5. \A h \in L : h \in CellSet /\ h.kind = "debug" /\ (h.i = 0 \/ h.i = 1)
        BY DEF ListCells
      <3> HIDE DEF L
      <3>6. Sound(e) /\ Cells(e) = Cells(c) \cup L /\ Holes(e) = Holes(c) \cup L
        BY <2>2, <2>5 DEF Placed
      <3>7. Filled(e, g, Numbered(e, "debug", 1))
        BY <1>1, <1>2, <2>5, <3>2, <3>3, <3>4, <3>6, ElementWritten
      <3>8. Sound(g) /\ Cells(g) = Cells(e) /\ ListOf(g, "debug", p, DebugSize, 1, FileLen)
        BY <3>3, <3>7 DEF Filled, ListOf
      <3>9. Filled(g, x, Numbered(g, "debug", 0))
        BY <1>1, <1>2, <3>2, <3>4, <3>8, HeadWritten DEF x
      <3>10. Sound(x) /\ Cells(x) = Cells(e)
        BY <3>8, <3>9 DEF Filled
      <3>11. ASSUME NEW h \in Holes(x) PROVE h \in Holes(c)
        <4>1. h \in Holes(g) /\ h \notin Numbered(g, "debug", 0)
          BY <3>9 DEF Filled
        <4>2. h \in Holes(e) /\ h \notin Numbered(e, "debug", 1)
          BY <3>7, <4>1 DEF Filled
        <4>3. h \notin L
          BY <3>5, <3>6, <3>8, <4>1, <4>2 DEF Numbered
        <4> QED
          BY <3>6, <4>2, <4>3
      <3>12. \E h \in Cells(x) : h.kind = "debug" /\ h.pos = p
        BY <1>1, <3>3, <3>4, <3>10, HeadNumbered
      <3> QED
        BY <2>3, <3>1, <3>10, <3>11, <3>12 DEF RecordWritten, Extends
    <2> QED
      BY <2>4, <2>5
  <1> QED
    BY <1>4

\* The stream of the libraries.
LEMMA DebugSound ==
    ASSUME DumpShape, FileSound, NEW live, WriteDSODebugStream(live), Safe(w')
    PROVE  FileSound'
  <1> DEFINE A(d, n) == Allocate(Start(d), "linkmap", 0, 0, n, LinkMapSize)
             B(d, n) == IF n = 0 THEN Start(d) ELSE WriteString(A(d, n), "dso_name", NameLen, TRUE)
             C(d, n) == CopyIndex(B(d, n), "linkmap", 0, 1, n, LinkMapSize)
             E(d, n) == AllocateList(C(d, n), "debug", DebugSize, 1, FileLen)
             G(d, n) == CopyIndex(E(d, n), "debug", DebugSize, 1, 1, FileLen)
             F(d, n) == IF E(d, n).ok THEN Flush(G(d, n), "debug", C(d, n).position, DebugSize)
                        ELSE E(d, n)
             V(d, dy, n) == IF dy THEN F(d, n) ELSE [Start(d) EXCEPT !.ok = FALSE]
             K == {"linkmap", "dso_name", "debug"}
  <1>1. PICK d \in Disk, dy \in BOOLEAN, n \in {0, 1} :
          /\ w' = End(Entered([V(d, dy, n) EXCEPT !.ok = TRUE]))
          /\ dir' = Append(dir, IF V(d, dy, n).ok THEN Entry("debug", C(d, n).position)
                                ELSE NullEntry)
    <2>1. \E d \in Disk, dy \in BOOLEAN, n \in {0, 1} :
            /\ dpc = "dso"
            /\ dy => live
            /\ Fault((live /\ ~V(d, dy, n).ok) \/ Failed(Entered([V(d, dy, n) EXCEPT !.ok = TRUE]))
                     \/ n = 0)
            /\ w' = End(Entered([V(d, dy, n) EXCEPT !.ok = TRUE]))
            /\ dir' = Append(dir, IF V(d, dy, n).ok THEN Entry("debug", C(d, n).position)
                                  ELSE NullEntry)
            /\ dpc' = "resume"
            /\ UNCHANGED <<cctx, tids, k, attached, created, blocks, context, verdict>>
      BY Zenon DEF WriteDSODebugStream
    <2> HIDE DEF V, C
    <2> QED
      BY <2>1, Zenon
  <1>2. dpc = "dso" /\ dpc' = "resume" /\ UNCHANGED <<cctx, tids, context>>
    BY DEF WriteDSODebugStream
  <1>3. w \in Writer /\ dir \in Seq(Entries)
    BY DEF DumpShape, DumpTypes
  <1>4. Sound(w) /\ DirThere(w) /\ (\A h \in Holes(w) : Pending(h))
    BY <1>2, StageHoles
  <1>5. Fresh(w, "linkmap") /\ Fresh(w, "debug")
    BY <1>2 DEF FileSound, Upcoming
  <1> DEFINE z == Start(d)
             c == C(d, n)
             f == F(d, n)
             v == V(d, dy, n)
             x == IF v.ok THEN Entry("debug", c.position) ELSE NullEntry
  <1>6. Alike(w, z) /\ Grown(w, z)
    BY <1>3, StartSound, StartGrown
  <1>7. z \in Writer /\ Sound(z) /\ Cells(z) = Cells(w) /\ Holes(z) = Holes(w)
    BY <1>4, <1>6 DEF Alike
  <1>8. v = IF dy THEN f ELSE [Start(d) EXCEPT !.ok = FALSE]
    OBVIOUS
  <1>9. w' = End(Entered([v EXCEPT !.ok = TRUE])) /\ dir' = Append(dir, x)
    BY <1>1
  <1>10. Grown(z, c) /\ (Safe(c) => MapWritten(z, c))
    <2>1. CASE n = 0
      <3>1. c = CopyIndex(z, "linkmap", 0, 1, 0, LinkMapSize)
        BY <2>1
      <3> HIDE DEF z, c
      <3>2. c = z /\ MapWritten(z, z)
        BY <1>7, <3>1, NoMap
      <3> QED
        BY <3>2 DEF MapWritten
    <2>2. CASE n = 1
      <3> DEFINE a == Allocate(z, "linkmap", 0, 0, 1, LinkMapSize)
                 b == WriteString(a, "dso_name", NameLen, TRUE)
      <3>1. c = CopyIndex(b, "linkmap", 0, 1, 1, LinkMapSize)
        BY <2>2
      <3>2. Fresh(z, "linkmap")
        BY <1>5, <1>7 DEF Fresh
      <3> HIDE DEF z, c
      <3> QED
        BY <1>7, <3>1, <3>2, MapAdded
    <2> QED
      BY <2>1, <2>2
  <1> DEFINE e == AllocateList(c, "debug", DebugSize, 1, FileLen)
             g == CopyIndex(e, "debug", DebugSize, 1, 1, FileLen)
  <1>11. f = IF e.ok THEN Flush(g, "debug", c.position, DebugSize) ELSE e
    OBVIOUS
  <1>12. c \in Writer
    BY <1>10 DEF Grown
  <1> HIDE DEF A, B, C, E, F, G, V, z, c, f, v
  <1>13. /\ Grown(w, v) /\ Sound(v) /\ Extends(w, v, K) /\ Points(v, x)
         /\ \A h \in Holes(v) : h \in Holes(w) \/ h.kind = "linkmap"
    <2>1. CASE ~dy
      <3>1. ~v.ok /\ Sound(v) /\ Cells(v) = Cells(w) /\ Holes(v) = Holes(w) /\ Grown(w, v)
        BY <1>3, <1>4, <1>8, <2>1, UnreadSound
      <3> QED
        BY <3>1 DEF Extends, Points
    <2>2. CASE dy
      <3>1. v = f
        BY <1>8, <2>2
      <3>2. Grown(c, f)
        BY <1>11, <1>12, RecordGrown
      <3>3. Grown(z, f)
        BY <1>7, <1>10, <3>2, GrownTransitive
      <3>4. Grown(w, v)
        BY <1>3, <1>6, <3>1, <3>3, GrownTransitive
      <3>5. Safe(f)
        BY <1>3, <1>4, <1>9, <3>1, <3>4, OptionalSafe
      <3>6. Safe(c)
        BY <1>12, <3>2, <3>5, GrownSafe
      <3>7. MapWritten(z, c)
        BY <1>10, <3>6
      <3>8. Extends(w, c, {"linkmap", "dso_name"}) /\ Sound(c)
        BY <1>7, <3>7 DEF MapWritten, Extends
      <3>9. Fresh(c, "debug")
        BY <1>5, <3>8 DEF Extends, Fresh
      <3>10. RecordWritten(c, f)
        BY <1>11, <1>12, <3>5, <3>8, <3>9, RecordAdded
      <3>11. Sound(f) /\ Extends(w, f, K)
        BY <3>8, <3>10 DEF RecordWritten, Extends
      <3>12. \A h \in Holes(f) : h \in Holes(w) \/ h.kind = "linkmap"
        BY <1>7, <3>7, <3>10 DEF RecordWritten, MapWritten
      <3>13. Points(f, x)
        <4>1. Entry("debug", c.position).kind = "debug" /\ Entry("debug", c.position).pos = c.position
          BY DEF Entry
        <4> QED
          BY <3>1, <3>10, <4>1 DEF RecordWritten, Points
      <3> QED
        BY <3>1, <3>4, <3>11, <3>12, <3>13
    <2> QED
      BY <2>1, <2>2
  <1> HIDE DEF x
  <1>14. \A h \in Holes(v) : Pending(h)
    BY <1>4, <1>13 DEF Pending
  <1>15. /\ dpc \in {"files", "dso"} /\ dpc' \in {"files", "resume"} /\ dpc = "dso"
         /\ (dpc' = "resume" <=> dpc = "dso")
    BY <1>2
  <1>16. "dir" \notin K
    OBVIOUS
  <1> QED
    BY <1>2, <1>9, <1>13, <1>14, <1>15, <1>16, OptionalSound

\* The records of a complete file, whatever the link map: every one is written.
LEMMA AllWritten ==
    ASSUME w \in Writer, FileSound, dpc = "resume", NEW p \in w.parts
    PROVE  /\ p \in Part /\ Cell(p) \in Cells(w) /\ p.st # "bad" /\ p.pos + p.len <= w.position
           /\ p.kind # "linkmap" => p.st = "good"
  <1>1. p \in Part /\ Cell(p) \in Cells(w)
    BY DEF Writer, Cells
  <1>2. /\ Cell(p).kind = p.kind /\ Cell(p).i = p.i /\ Cell(p).pos = p.pos /\ Cell(p).len = p.len
    BY <1>1, CellFields
  <1>3. Sound(w) /\ DirThere(w) /\ Len(dir) = kNumWriters /\ HolesKnown
    BY DEF FileSound
  <1>4. p.st # "bad" /\ p.pos + p.len <= w.position
    BY <1>1, <1>2, <1>3 DEF Sound
  <1>5. ASSUME p.kind # "linkmap", p.st # "good" PROVE FALSE
    <2>1. Cell(p) \in Holes(w)
      BY <1>5 DEF Holes
    <2>2. Pending(Cell(p))
      BY <1>3, <2>1 DEF HolesKnown, Awaited
    <2>3. p.kind = "dir" /\ p.i > Len(dir)
      BY <1>2, <1>5, <2>2 DEF Pending
    <2>4. PICK pos \in Nat : ListOf(w, "dir", pos, 0, kNumWriters, DirectorySize)
      BY <1>3 DEF DirThere
    <2>5. Cell(p) \in ListCells("dir", 0, pos, 0, kNumWriters, DirectorySize)
      BY <1>1, <1>2, <2>3, <2>4 DEF ListOf
    <2>6. Cell(p).i \in 1..kNumWriters
      BY <2>5 DEF ListCells
    <2> QED
      BY <1>2, <1>3, <2>3, <2>6 DEF kNumWriters
  <1> QED
    BY <1>1, <1>4, <1>5

\* The numbers from 1 to n.
LEMMA IntervalSize ==
    ASSUME NEW n \in Nat \ {0}
    PROVE  IsFiniteSet(1..n) /\ Cardinality(1..n) = n
  <1>1. 1 \in Int /\ n \in Int /\ ~(1 > n) /\ n - 1 + 1 = n
    OBVIOUS
  <1> QED
    BY <1>1, FS_Interval

\* The directory has one record for each entry.
LEMMA DirectoryComplete ==
    ASSUME w \in Writer, FileSound, dpc = "resume"
    PROVE  Cardinality({p \in w.parts : p.kind = "dir"}) = 13
  <1> DEFINE D == {p \in w.parts : p.kind = "dir"}
             f == [p \in D |-> p.i]
  <1>1. PICK pos \in Nat : ListOf(w, "dir", pos, 0, kNumWriters, DirectorySize)
    BY DEF FileSound, DirThere
  <1>2. IsList("dir", pos, 0, kNumWriters, DirectorySize) /\ kNumWriters = 13
    BY DirIsList DEF kNumWriters
  <1>3. ASSUME NEW p \in D
        PROVE  /\ p \in Part /\ p.st = "good" /\ Cell(p) \in Cells(w) /\ Cell(p).kind = "dir"
               /\ Cell(p).i = p.i /\ p.i \in 1..13
    <2>1. p \in Part /\ p.st = "good" /\ Cell(p) \in Cells(w)
      BY AllWritten
    <2>2. Cell(p).kind = "dir" /\ Cell(p).i = p.i
      BY <2>1, CellFields
    <2>3. Cell(p) \in ListCells("dir", 0, pos, 0, kNumWriters, DirectorySize)
      BY <1>1, <2>1, <2>2 DEF ListOf
    <2>4. Cell(p).i \in 1..13
      BY <1>2, <2>3 DEF ListCells
    <2> QED
      BY <2>1, <2>2, <2>4
  <1>4. ASSUME NEW j \in 1..13
        PROVE  \E c : Numbered(w, "dir", j) = {c} /\ c \in Cells(w) /\ c.kind = "dir" /\ c.i = j
    BY <1>1, <1>2, ElementNumbered
  <1>5. ASSUME NEW p \in D, NEW q \in D, p.i = q.i PROVE p = q
    <2>1. Cell(p) \in Numbered(w, "dir", p.i) /\ Cell(q) \in Numbered(w, "dir", p.i)
      BY <1>3, <1>5 DEF Numbered
    <2>2. Cell(p) = Cell(q)
      BY <1>3, <1>4, <2>1
    <2>3. p \in Part /\ q \in Part /\ p.st = "good" /\ q.st = "good"
      BY <1>3
    <2>4. p.kind = q.kind /\ p.i = q.i /\ p.pos = q.pos /\ p.len = q.len /\ p.st = q.st
      BY <2>2, <2>3, CellFields
    <2> QED
      BY <2>3, <2>4 DEF Part
  <1>6. ASSUME NEW j \in 1..13 PROVE \E p \in D : p.i = j
    <2>1. PICK c \in Cells(w) : c.kind = "dir" /\ c.i = j
      BY <1>4
    <2>2. PICK p \in w.parts : c = Cell(p)
      BY DEF Cells
    <2>3. p \in Part
      BY DEF Writer
    <2>4. p.kind = "dir" /\ p.i = j
      BY <2>1, <2>2, <2>3, CellFields
    <2> QED
      BY <2>4
  <1> HIDE DEF D
  <1>7. f \in [D -> 1..13] /\ (\A p \in D : f[p] = p.i)
    BY <1>3
  <1> HIDE DEF f
  <1>8. f \in Bijection(D, 1..13)
    <2>1. \A p, q \in D : f[p] = f[q] => p = q
      BY <1>5, <1>7
    <2>2. \A j \in 1..13 : \E p \in D : f[p] = j
      BY <1>6, <1>7
    <2> QED
      BY <1>7, <2>1, <2>2, Fun_IsBij
  <1>9. ExistsBijection(D, 1..13)
    BY <1>8 DEF ExistsBijection
  <1>10. ExistsBijection(1..13, D)
    BY <1>9, Fun_ExistsBijSymmetric
  <1>11. IsFiniteSet(1..13) /\ Cardinality(1..13) = 13
    <2>1. 13 \in Nat \ {0}
      OBVIOUS
    <2> QED
      BY <2>1, IntervalSize, Zenon
  <1> QED
    BY <1>10, <1>11, FS_Bijection DEF D

\* The end of a dump.
LEMMA DoneIntact ==
    ASSUME DumpShape, FileSound, dpc = "resume", DumpDone
    PROVE  SuccessMeansIntact'
  <1>1. w \in Writer /\ dir \in Seq(Entries) /\ tids \in Seq(Threads)
    BY DEF DumpShape, DumpTypes
  <1>2. w' = Close(w) /\ UNCHANGED <<cctx, tids, context, dir>>
    BY DEF DumpDone
  <1>3. w'.parts = w.parts
    <2> DEFINE S == {p \in w.parts : p.pos + p.len <= w.position}
    <2>1. S = w.parts
      BY <1>1, AllWritten
    <2>2. w' = [w EXCEPT !.parts = S]
      BY <1>2 DEF Close
    <2> HIDE DEF S
    <2> QED
      BY <1>1, <2>1, <2>2 DEF Writer
  <1>4. Len(dir) = 13 /\ Pointed /\ CrashPointed
    BY DEF FileSound, kNumWriters
  <1>5. Cardinality({p \in w'.parts : p.kind = "dir"}) = 13
    BY <1>1, <1>3, DirectoryComplete
  <1>6. \A p \in w'.parts : p.st # "bad" /\ (p.kind # "linkmap" => p.st = "good")
    BY <1>1, <1>3, AllWritten
  <1>7. ASSUME NEW i \in 1..13, dir[i] # NullEntry
        PROVE  /\ \E p \in w'.parts : p.kind = dir[i].kind /\ p.pos = dir[i].pos
               /\ \A p \in w'.parts : p.kind = dir[i].kind => p.st = "good"
    <2>1. Points(w, dir[i])
      BY <1>4, <1>7 DEF Pointed
    <2>2. dir[i].kind # "linkmap" /\ \E c \in Cells(w) : c.kind = dir[i].kind /\ c.pos = dir[i].pos
      BY <1>7, <2>1 DEF Points
    <2>3. PICK p \in w.parts : Cell(p).kind = dir[i].kind /\ Cell(p).pos = dir[i].pos
      BY <2>2 DEF Cells
    <2>4. Cell(p).kind = p.kind /\ Cell(p).pos = p.pos
      BY <1>1, CellFields DEF Writer
    <2> QED
      BY <1>3, <1>6, <2>2, <2>3, <2>4
  <1>8. ASSUME cctx[1] \in {tids[i] : i \in 1..Len(tids)}
        PROVE  \E p \in w'.parts : p.kind = "cpu" /\ p.pos = context
    <2>1. CpuAt(w, context)
      BY <1>4, <1>8 DEF CrashPointed
    <2>2. PICK p \in w.parts : Cell(p).kind = "cpu" /\ Cell(p).pos = context
      BY <2>1 DEF CpuAt, Cells
    <2>3. Cell(p).kind = p.kind /\ Cell(p).pos = p.pos
      BY <1>1, CellFields DEF Writer
    <2> QED
      BY <1>3, <2>2, <2>3
  <1>9. dir' = dir /\ cctx' = cctx /\ tids' = tids /\ context' = context /\ kNumWriters = 13
    BY <1>2 DEF kNumWriters
  <1> QED
    BY <1>4, <1>5, <1>6, <1>7, <1>8, <1>9 DEF SuccessMeansIntact, NullEntry, Entry

\* Nothing that FileSound speaks of changes.
LEMMA FileSoundStays ==
    ASSUME FileSound, UNCHANGED <<dpc, cctx, tids, k, w, context, dir>>
    PROVE  FileSound'
  <1>1. /\ UNCHANGED dpc /\ UNCHANGED cctx /\ UNCHANGED tids /\ UNCHANGED k /\ UNCHANGED w
        /\ UNCHANGED context /\ UNCHANGED dir
    OBVIOUS
  <1>2. Upcoming' /\ HolesKnown' /\ Pointed' /\ CrashPointed'
    <2>1. Upcoming'
      BY <1>1 DEF FileSound, Upcoming, Fresh
    <2>2. HolesKnown'
      BY <1>1 DEF FileSound, HolesKnown, Pending, Awaited
    <2>3. Pointed'
      BY <1>1 DEF FileSound, Pointed, Points
    <2>4. CrashPointed'
      BY <1>1 DEF FileSound, CrashPointed, CpuAt
    <2> QED
      BY <2>1, <2>2, <2>3, <2>4
  <1> QED
    BY <1>1, <1>2 DEF FileSound, Sound, DirThere, ListOf

\* The file is created.
LEMMA OpenSound ==
    ASSUME OpenFile, dpc' = "header"
    PROVE  FileSound'
  <1>1. w' = NewFile /\ dir' = <<>>
    BY DEF OpenFile, Fail
  <1>2. Sound(w') /\ Cells(w') = {} /\ Holes(w') = {}
    BY <1>1, NewFileSound
  <1>3. Upcoming'
    BY <1>2 DEF Upcoming, Fresh
  <1>4. HolesKnown'
    BY <1>2 DEF HolesKnown
  <1>5. Pointed' /\ CrashPointed'
    <2>1. Pointed'
      <3>1. Len(dir') = 0
        BY <1>1
      <3> QED
        BY <3>1 DEF Pointed
    <2>2. CrashPointed'
      BY DEF CrashPointed
    <2> QED
      BY <2>1, <2>2
  <1>6. Sound(w)'
    BY <1>2 DEF Sound
  <1> QED
    BY <1>1, <1>3, <1>4, <1>5, <1>6 DEF FileSound

\* A step of the writer in one of the stages that write the file.
LEMMA StageKeepsSound ==
    ASSUME DumpShape, IntactInv, dpc \in Reading, Safe(w'), dpc' # "failed",
           \/ WriterStep \/ WriteThread(alive) \/ WriteFile(alive) \/ WriteDSODebugStream(alive)
    PROVE  FileSound'
  <1>0. DumpTypes /\ FileShape /\ w \in Writer
    BY DEF DumpShape, DumpTypes
  <1>g. ASSUME Grown(w, w') PROVE FileSound
    <2>1. Safe(w)
      BY <1>0, <1>g, GrownSafe
    <2> QED
      BY <2>1 DEF IntactInv
  <1>1. CASE WriteHeader
    <2>1. dpc' = "list" /\ Grown(w, w')
      BY <1>0, <1>1, HeaderWritten DEF Wrote
    <2> QED
      BY <1>1, <1>g, <2>1, HeaderSound
  <1>2. CASE ThreadList
    <2>1. dpc' = "threads" /\ Grown(w, w')
      BY <1>0, <1>2, ThreadListWritten DEF Wrote
    <2> QED
      BY <1>2, <1>g, <2>1, ThreadListSound
  <1>3. CASE WriteThread(alive)
    <2>1. dpc' = "threads" /\ Grown(w, w')
      BY <1>0, <1>3, ThreadWritten DEF Wrote
    <2> QED
      BY <1>3, <1>g, <2>1, ThreadSound
  <1>4. CASE ThreadListDone
    BY <1>0, <1>4, <1>g, ThreadListFinished, ThreadsDoneSound
  <1>5. CASE ModuleList
    <2>1. dpc' = "modules" /\ Grown(w, w')
      BY <1>0, <1>5, ModuleListWritten DEF Wrote
    <2> QED
      BY <1>5, <1>g, <2>1, ModuleListSound
  <1>6. CASE WriteModule
    <2>1. dpc' = "modules" /\ Grown(w, w')
      BY <1>0, <1>6, ModuleWritten DEF Wrote
    <2> QED
      BY <1>6, <1>g, <2>1, ModuleSound
  <1>7. CASE ModuleListDone
    BY <1>0, <1>7, <1>g, ModuleListFinished, ModulesDoneSound
  <1>8. CASE WriteMemoryListStream
    <2>1. dpc' = "exception" /\ Grown(w, w')
      BY <1>0, <1>8, MemoryWritten DEF StreamWritten, Wrote
    <2> QED
      BY <1>8, <1>g, <2>1, MemorySound
  <1>9. CASE WriteExceptionStream
    <2>1. dpc' = "system" /\ Grown(w, w')
      BY <1>0, <1>9, ExceptionWritten DEF StreamWritten, Wrote
    <2> QED
      BY <1>9, <1>g, <2>1, ExceptionSound
  <1>10. CASE WriteSystemInfoStream
    <2>1. dpc' = "files" /\ Grown(w, w')
      BY <1>0, <1>10, SystemWritten DEF StreamWritten, Wrote
    <2> QED
      BY <1>10, <1>g, <2>1, SystemSound
  <1>11. CASE WriteFile(alive)
    BY <1>0, <1>11, <1>g, FileWritten, FileStreamSound
  <1>12. CASE FilesDone
    <2>1. w' = w
      BY <1>12 DEF FilesDone
    <2>2. Grown(w, w')
      BY <1>0, <2>1, FollowsSelf DEF Follows
    <2> QED
      BY <1>12, <1>g, <2>2, FilesDoneSound
  <1>13. CASE WriteDSODebugStream(alive)
    BY <1>0, <1>13, <1>g, DebugWritten, DebugSound
  <1>14. CASE Suspended \/ OpenFile \/ DumpDone \/ DumpFailed
    BY <1>14 DEF Suspended, OpenFile, DumpDone, DumpFailed, Reading
  <1> QED
    BY <1>1, <1>2, <1>3, <1>4, <1>5, <1>6, <1>7, <1>8, <1>9, <1>10, <1>11, <1>12, <1>13, <1>14
       DEF WriterStep

\* The other steps of the writer write nothing, except that the file is created.
LEMMA IdleKeepsSound ==
    ASSUME dpc \notin Reading, dpc' \in Reading \cup {"resume"},
           \/ WriterStep \/ WriteThread(alive) \/ WriteFile(alive) \/ WriteDSODebugStream(alive)
           \/ \E ok \in BOOLEAN : DumperInit(ok) /\ (ok => alive) /\ Fault(~ok /\ alive)
    PROVE  FileSound'
  <1>1. CASE OpenFile
    <2>1. dpc' = "header"
      BY <1>1 DEF OpenFile, Fail, Reading
    <2> QED
      BY <1>1, <2>1, OpenSound
  <1>2. CASE Suspended \/ DumpDone \/ DumpFailed
    BY <1>2 DEF Suspended, DumpDone, DumpFailed, Reading, Fail
  <1>3. CASE \E ok \in BOOLEAN : DumperInit(ok) /\ (ok => alive) /\ Fault(~ok /\ alive)
    BY <1>3 DEF DumperInit, Reading, Fail
  <1>4. CASE WriteHeader \/ ThreadList \/ ThreadListDone \/ ModuleList \/ WriteModule \/ ModuleListDone
    BY <1>4 DEF WriteHeader, ThreadList, ThreadListDone, ModuleList, WriteModule, ModuleListDone, Reading
  <1>5. CASE WriteMemoryListStream \/ WriteExceptionStream \/ WriteSystemInfoStream \/ FilesDone
    BY <1>5 DEF WriteMemoryListStream, WriteExceptionStream, WriteSystemInfoStream, FilesDone, Reading
  <1>6. CASE WriteThread(alive) \/ WriteFile(alive) \/ WriteDSODebugStream(alive)
    <2>1. WriteThread(alive) => dpc = "threads"
      BY DEF WriteThread
    <2>2. WriteFile(alive) => dpc = "files"
      BY DEF WriteFile
    <2>3. WriteDSODebugStream(alive) => dpc = "dso"
      BY DEF WriteDSODebugStream
    <2> QED
      BY <1>6, <2>1, <2>2, <2>3 DEF Reading
  <1> QED
    BY <1>1, <1>2, <1>3, <1>4, <1>5, <1>6 DEF WriterStep

\* In the last stage the writer can only finish.
LEMMA DoneOnly ==
    ASSUME Writes, dpc = "resume"
    PROVE  DumpDone
  <1>1. \/ WriterStep \/ WriteThread(alive) \/ WriteFile(alive) \/ WriteDSODebugStream(alive)
        \/ \E ok \in BOOLEAN : DumperInit(ok) /\ (ok => alive) /\ Fault(~ok /\ alive)
    BY DEF Writes
  <1>2. ~WriteThread(alive) /\ ~WriteFile(alive) /\ ~WriteDSODebugStream(alive)
    BY DEF WriteThread, WriteFile, WriteDSODebugStream
  <1>3. ~\E ok \in BOOLEAN : DumperInit(ok) /\ (ok => alive) /\ Fault(~ok /\ alive)
    BY DEF DumperInit
  <1>4. /\ ~Suspended /\ ~OpenFile /\ ~WriteHeader /\ ~ThreadList /\ ~ThreadListDone /\ ~ModuleList
        /\ ~WriteModule /\ ~ModuleListDone
    BY DEF Suspended, OpenFile, WriteHeader, ThreadList, ThreadListDone, ModuleList, WriteModule,
           ModuleListDone
  <1>5. /\ ~WriteMemoryListStream /\ ~WriteExceptionStream /\ ~WriteSystemInfoStream /\ ~FilesDone
        /\ ~DumpFailed
    BY DEF WriteMemoryListStream, WriteExceptionStream, WriteSystemInfoStream, FilesDone, DumpFailed
  <1> QED
    BY <1>1, <1>2, <1>3, <1>4, <1>5 DEF WriterStep

-----------------------------------------------------------------------------
\* The file stays sound.
LEMMA IntactKept ==
    ASSUME CoreInv, IntactInv, [Next]_vars
    PROVE  IntactInv'
  <1>0. DumpShape /\ DumpTypes /\ FileShape
    BY DEF CoreInv, DumpShape
  <1> SUFFICES ASSUME Safe(w'), dpc' \in Reading \cup {"resume"} PROVE FileSound'
    BY DEF IntactInv, Safe, Fits
  <1>q. ASSUME UNCHANGED <<dpc, cctx, tids, k, w, context, dir>> PROVE FileSound'
    <2>1. FileSound
      BY <1>q DEF IntactInv
    <2> QED
      BY <1>q, <2>1, FileSoundStays
  <1>1. CASE AppStep
    <2>1. UNCHANGED <<tids, k, w, context, dir>> /\ (UNCHANGED <<dpc, cctx>> \/ dpc' = "entry")
      BY <1>0, <1>1, AppStepEffect DEF AppEffect
    <2> QED
      BY <1>q, <2>1 DEF Reading
  <1>2. CASE ThreadEntry \/ WaitForContinueSignal \/ ChildKilled
    BY <1>2 DEF ThreadEntry, WaitForContinueSignal, ChildKilled, Reading
  <1>3. CASE Suspend
    <2>1. dpc' = "suspend"
      BY <1>0, <1>3, SuspendOutcome DEF FileShape
    <2> QED
      BY <2>1 DEF Reading
  <1>4. CASE Writes
    <2>1. \/ WriterStep \/ WriteThread(alive) \/ WriteFile(alive) \/ WriteDSODebugStream(alive)
          \/ \E ok \in BOOLEAN : DumperInit(ok) /\ (ok => alive) /\ Fault(~ok /\ alive)
      BY <1>4 DEF Writes
    <2>2. CASE dpc \notin Reading
      BY <2>1, <2>2, IdleKeepsSound
    <2>3. CASE dpc \in Reading
      <3>1. dpc' # "failed"
        BY DEF Reading
      <3>2. ~(\E ok \in BOOLEAN : DumperInit(ok) /\ (ok => alive) /\ Fault(~ok /\ alive))
        BY <2>3 DEF DumperInit, Reading
      <3> QED
        BY <1>0, <2>1, <2>3, <3>1, <3>2, StageKeepsSound
    <2> QED
      BY <2>2, <2>3
  <1>5. CASE UNCHANGED vars
    BY <1>5, <1>q DEF vars, dumpVars
  <1> QED
    BY <1>1, <1>2, <1>3, <1>4, <1>5 DEF Next, AppStep, DumpProcess, Over

\* While a dump is under way there is no result yet.
NoResult == dpc # "off" => verdict # "ok"

\* A dump that was written can be read, if an MDRVA could tell its size.
Readable == Fits(w) => SuccessMeansIntact

\* The dump that was written stays as it is.
LEMMA ReadableKept ==
    ASSUME CoreInv, IntactInv, NoResult, Readable, [Next]_vars
    PROVE  NoResult' /\ Readable'
  <1>0. DumpShape /\ DumpTypes /\ FileShape /\ ProcTypes /\ StolenStopped /\ w \in Writer
    BY DEF CoreInv, ThreadInv, DumpShape, DumpTypes
  <1>q. ASSUME UNCHANGED <<cctx, tids, w, context, dir, verdict>> PROVE Readable'
    BY <1>q DEF Readable, Fits, SuccessMeansIntact
  <1>f. ASSUME verdict' # "ok" PROVE NoResult' /\ Readable'
    BY <1>f DEF NoResult, Readable, SuccessMeansIntact
  <1>1. CASE AppStep
    <2>1. /\ UNCHANGED <<tids, w, context, dir>>
          /\ UNCHANGED <<dpc, cctx, verdict>> \/ verdict' = "none"
      BY <1>0, <1>1, AppStepEffect DEF AppEffect
    <2>2. CASE verdict' = "none"
      BY <1>f, <2>2
    <2>3. CASE UNCHANGED <<dpc, cctx, verdict>>
      BY <1>q, <2>1, <2>3 DEF NoResult
    <2> QED
      BY <2>1, <2>2, <2>3
  <1>2. CASE ThreadEntry \/ WaitForContinueSignal
    <2>1. dpc # "off" /\ verdict' = verdict
      BY <1>2 DEF ThreadEntry, WaitForContinueSignal
    <2> QED
      BY <1>f, <2>1 DEF NoResult
  <1>3. CASE Suspend
    <2>1. dpc # "off" /\ verdict' = verdict
      BY <1>0, <1>3, SuspendOutcome DEF FileShape
    <2> QED
      BY <1>f, <2>1 DEF NoResult
  <1>4. CASE ChildKilled
    BY <1>4, <1>f DEF ChildKilled
  <1>5. CASE Writes
    <2>1. WriterEffect
      BY <1>0, <1>5, WriterStepEffect DEF Writes
    <2>2. verdict # "ok"
      BY <2>1 DEF WriterEffect, NoResult
    <2>3. CASE dpc # "resume"
      BY <1>f, <2>1, <2>2, <2>3 DEF WriterEffect
    <2>4. CASE dpc = "resume"
      <3>1. dpc' = "off" /\ w' = Close(w)
        BY <2>1, <2>4 DEF WriterEffect
      <3>2. SUFFICES ASSUME Fits(w'), ~w'.short PROVE SuccessMeansIntact'
        BY <3>1 DEF NoResult, Readable, Fits, SuccessMeansIntact
      <3>3. w'.size = w.size /\ w'.short = w.short
        BY <1>0, <3>1 DEF Close, Writer
      <3>4. FileSound
        BY <2>4, <3>2, <3>3 DEF IntactInv, Safe, Fits
      <3>5. DumpDone
        BY <1>5, <2>4, DoneOnly
      <3> QED
        BY <1>0, <2>4, <3>4, <3>5, DoneIntact
    <2> QED
      BY <2>3, <2>4
  <1>6. CASE UNCHANGED vars
    BY <1>6, <1>q DEF vars, dumpVars, NoResult
  <1> QED
    BY <1>1, <1>2, <1>3, <1>4, <1>5, <1>6 DEF Next, AppStep, DumpProcess, Over

\* A dump that is reported as written can be read, whatever the crash, the threads and the
\* order in which they stop, unless a write failed: its header, its directory of thirteen
\* entries and the streams are there and nothing was run over.  This is for a size_t of 64
\* bits (arm64-v8a) and a file that is smaller than kInvalidMDRVA; with 32 bits
\* FlushUnallocated runs over the file.
THEOREM DumpsAreIntact == Spec => [](Fits(w) => SuccessMeansIntact)
  <1>1. Init => CoreInv /\ IntactInv /\ NoResult /\ Readable
    <2>1. Init => CoreInv
      BY CoreInit
    <2>2. Init => dpc = "off" /\ verdict = "none"
      BY DEF Init, DumpInit
    <2>3. dpc = "off" /\ verdict = "none" => IntactInv /\ NoResult /\ Readable
      BY DEF IntactInv, Reading, NoResult, Readable, SuccessMeansIntact
    <2> QED
      BY <2>1, <2>2, <2>3
  <1>2. CoreInv /\ IntactInv /\ NoResult /\ Readable /\ [Next]_vars
            => CoreInv' /\ IntactInv' /\ NoResult' /\ Readable'
    BY CoreStep, IntactKept, ReadableKept
  <1>3. Readable => (Fits(w) => SuccessMeansIntact)
    BY DEF Readable
  <1> QED
    BY <1>1, <1>2, <1>3, PTL DEF Spec
=============================================================================
