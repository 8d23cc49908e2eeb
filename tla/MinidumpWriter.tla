--------------------------- MODULE MinidumpWriter ---------------------------
(***************************************************************************)
(* The process that writes the minidump of the process that crashed:       *)
(* WriteMinidumpImpl with LinuxPtraceDumper and MinidumpWriter, from the   *)
(* list of threads to the exit status.  It stops the threads one by one,   *)
(* creates the file, writes thirteen streams and an entry of the directory *)
(* for each, and lets the threads go.                                      *)
(*                                                                         *)
(* The steps interleave with those of the crashed process, which           *)
(* NativeCrash adds; whether ptrace lets a thread be stopped and whether   *)
(* /proc can be read is decided there too, through the parameter ok.       *)
(* Failures of the file system, of /proc and of the kernel draw on one     *)
(* budget, MaxFaults.                                                      *)
(***************************************************************************)
EXTENDS MinidumpFile, Sequences, SequencesExt

CONSTANTS Tids,        \* the threads of the crashed process, as /proc lists them
          Signals,     \* the signals a crash may raise
          Modules,     \* how many mapped files are listed
          MaxFaults    \* bound on the failures of the environment

ASSUME TidsAssumption == Tids \in Seq(STRING) /\ Tids # <<>> /\ IsInjective(Tids)
ASSUME BudgetAssumption == MaxFaults \in Nat /\ Modules \in Nat

Threads == {Tids[i] : i \in 1..Len(Tids)}

VARIABLES
    dpc,       \* the dump process: "off", the handshake's "entry" and "read", then
               \* the stages of WriteMinidumpImpl
    cctx,      \* the crash it was started for: its copy of g_crash_context_
    tids,      \* dumper_->threads_
    k,         \* loop counter of the current stage
    attached,  \* threads stopped with ptrace
    w,         \* the file at the dump's path (minidump_writer_)
    created,   \* that file exists
    blocks,    \* memory_blocks_.size()
    context,   \* crashing_thread_context_: where it lies in the file, 0 when not set
    dir,       \* the directory: kind and position of each stream written
    verdict,   \* the exit status: "none", "ok", "fail"
    faults     \* failures so far

dumpVars == <<dpc, cctx, tids, k, attached, w, created, blocks, context, dir, verdict,
              faults>>

\* The optional streams that are copies of files, in their order.
Files == <<"cpuinfo", "status", "lsb_release", "cmdline", "environ", "auxv", "maps">>
\* Every stream has its place in the directory.
kNumWriters == 13

\* sizeof of the records; sizes of what they point to, chosen to cross pages.
HeaderSize == 32
DirectorySize == 12
ThreadSize == 48
ModuleSize == 108
DescriptorSize == 16
ExceptionSize == 168
SystemSize == 56
LinkMapSize == 12
DebugSize == 24
StackLen == 200
IpLen == 8
CpuSize == 120
CvLen == 24
NameLen == 72
FileLen == 88

Stages == {"off", "entry", "read", "init", "suspend", "open", "header", "list",
           "threads", "modlist", "modules", "memory", "exception", "system", "files",
           "dso", "resume", "failed"}
\* The stages that read the crashed process.
Reading == {"header", "list", "threads", "modlist", "modules", "memory", "exception",
            "system", "files", "dso"}

NoCrash == <<>>
Crash == Threads \X Signals

DumpTypeOK ==
    /\ dpc \in Stages
    /\ cctx \in Crash \cup {NoCrash}
    /\ tids \in Seq(Threads)
    /\ k \in Nat
    /\ attached \in SUBSET Threads
    /\ w.position \in Nat /\ w.size \in Nat /\ w.offset \in Nat
    /\ \A p \in w.parts : p.pos \in Nat /\ p.len \in Nat /\ p.st \in {"hole", "good", "bad"}
    /\ created \in BOOLEAN
    /\ blocks \in Nat
    /\ context \in Nat
    /\ Len(dir) <= kNumWriters
    /\ verdict \in {"none", "ok", "fail"}
    /\ faults \in 0..MaxFaults

DumpInit ==
    /\ dpc = "off"
    /\ cctx = NoCrash
    /\ tids = <<>>
    /\ k = 0
    /\ attached = {}
    /\ w = NewFile
    /\ created = FALSE
    /\ blocks = 0
    /\ context = 0
    /\ dir = <<>>
    /\ verdict = "none"
    /\ faults = 0

Fault(b) == faults' = (IF b THEN faults + 1 ELSE faults) /\ faults' <= MaxFaults
-----------------------------------------------------------------------------
\* A failure: the rest of Dump is skipped.  What the file holds then is not followed.
Fail == dpc' = "failed"
Abandon == Fail /\ w' = NewFile

\* LinuxDumper::Init: ReadAuxv, EnumerateThreads, EnumerateMappings.
DumperInit(ok) ==
    /\ dpc = "init"
    /\ \/ /\ ok
          /\ tids' = Tids
          /\ k' = 1
          /\ dpc' = "suspend"
       \/ ~ok /\ Fail /\ UNCHANGED <<tids, k>>
    /\ UNCHANGED <<cctx, attached, w, created, blocks, context, dir, verdict>>

\* Mutant of ThreadsSuspend: a thread that cannot be stopped is dropped, but the
\* loop counter is not taken back.
ThreadsSuspendSkips(ok) ==
    /\ dpc = "suspend" /\ k <= Len(tids)
    /\ \/ ok /\ attached' = attached \cup {tids[k]} /\ UNCHANGED tids
       \/ ~ok /\ tids' = RemoveAt(tids, k) /\ UNCHANGED attached
    /\ k' = k + 1
    /\ UNCHANGED <<dpc, cctx, w, created, blocks, context, dir, verdict>>

\* ThreadsSuspend, one thread: attach and wait until it stops.  A thread that is
\* gone, or debugged by somebody else, is dropped from the list.
ThreadsSuspend(ok) ==
    /\ dpc = "suspend" /\ k <= Len(tids)
    /\ \/ /\ ok
          /\ attached' = attached \cup {tids[k]}
          /\ k' = k + 1
          /\ UNCHANGED tids
       \/ ~ok /\ tids' = RemoveAt(tids, k) /\ UNCHANGED <<attached, k>>
    /\ UNCHANGED <<dpc, cctx, w, created, blocks, context, dir, verdict>>

\* ThreadsSuspend returns whether any thread is left.
Suspended ==
    /\ dpc = "suspend" /\ k > Len(tids)
    /\ \/ tids # <<>> /\ dpc' = "open"
       \/ tids = <<>> /\ Fail
    /\ UNCHANGED <<cctx, tids, k, attached, w, created, blocks, context, dir, verdict,
                   faults>>

\* Mutant of OpenFile: without O_EXCL.
OpenFileTruncates ==
    /\ dpc = "open"
    /\ \/ /\ created' = TRUE
          /\ w' = NewFile
          /\ blocks' = 0 /\ context' = 0 /\ dir' = <<>>
          /\ dpc' = "header"
          /\ UNCHANGED faults
       \/ /\ Fault(TRUE)
          /\ Fail
          /\ UNCHANGED <<w, created, blocks, context, dir>>
    /\ UNCHANGED <<cctx, tids, k, attached, verdict>>

\* MinidumpFileWriter::Open: a file at the path makes it fail, and so does a
\* directory that is not there.
OpenFile ==
    /\ dpc = "open"
    /\ \/ /\ ~created
          /\ created' = TRUE
          /\ w' = NewFile
          /\ blocks' = 0 /\ context' = 0 /\ dir' = <<>>
          /\ dpc' = "header"
          /\ UNCHANGED faults
       \/ /\ Fault(~created)
          /\ Fail
          /\ UNCHANGED <<w, created, blocks, context, dir>>
    /\ UNCHANGED <<cctx, tids, k, attached, verdict>>
-----------------------------------------------------------------------------
\* How the file system behaves in one stage: how often the file may grow before
\* ftruncate fails (three times is more than any stage needs), or that write fails; with
\* no fault left it does not fail.
Disk == {<<3, FALSE>>} \cup
        (IF faults < MaxFaults THEN ((0..2) \X {FALSE}) \cup {<<3, TRUE>>} ELSE {})
Start(d) == Begin(w, d[1], d[2])
\* The stage met a failure: something could not be allocated, or written.
Failed(v) == ~v.ok \/ (v.short /\ ~w.short)

\* The end of a stage: on to the next, or out.
Then(v, next) ==
    /\ IF v.ok THEN w' = End(v) /\ dpc' = next ELSE Abandon
    /\ UNCHANGED <<attached, verdict>>

\* dir.CopyIndex(dir_index++, &dirent), whose result nobody looks at.
Entered(v) ==
    CopyIndex(v, "dir", 0, Len(dir) + 1, Len(dir) + 1, DirectorySize)
Entry(kind, pos) == [kind |-> kind, pos |-> pos]
NullEntry == Entry("unused", 0)

\* Dump: the header is flushed before anything else is written.
WriteHeader == \E d \in Disk :
    LET a == Allocate(Start(d), "header", 0, HeaderSize, 0, 0)
        b == Allocate(a, "dir", 0, 0, kNumWriters, DirectorySize)
        c == IF a.ok THEN Flush(b, "header", 0, HeaderSize)
             ELSE FlushUnallocated(a, HeaderSize)
    IN /\ dpc = "header"
       /\ Fault(Failed(c))
       /\ Then(c, "list")
       /\ UNCHANGED <<cctx, tids, k, created, blocks, context, dir>>

\* WriteThreadListStream: the list, before its threads.
ThreadList == \E d \in Disk :
    LET a == AllocateList(Start(d), "threads", 4, Len(tids), ThreadSize)
    IN /\ dpc = "list"
       /\ Fault(Failed(a))
       /\ Then(a, "threads")
       /\ k' = 1
       /\ UNCHANGED <<cctx, tids, created, blocks, context, dir>>

\* The state of a thread that is not the crashing one: its registers and what
\* /proc/<pid>/task/<tid>/status says of it.
GetThreadInfoByIndex(v, ok) == IF ok THEN v ELSE [v EXCEPT !.ok = FALSE]

\* A copy of the thread's stack, unless its stack pointer is in no mapping.
FillThreadStack(v, stacked) == IF stacked THEN WriteBlock(v, "stack", k, StackLen) ELSE v

\* One thread of the list: its state (for the crashing thread what the signal handler
\* saved), its stack, for the crashing thread the memory around the instruction pointer
\* if that is in a mapping, its registers, and its element of the list.  A thread whose
\* state cannot be read ends the dump.  A pointer outside every mapping counts as a fault.
WriteThread(ok) == \E d \in Disk, stacked, mapped \in BOOLEAN :
    LET crashing == cctx[1] = tids[k]
        s == IF crashing THEN Start(d) ELSE GetThreadInfoByIndex(Start(d), ok)
        a == FillThreadStack(s, stacked)
        b == IF crashing /\ mapped THEN WriteBlock(a, "ip", 0, IpLen) ELSE a
        c == WriteObject(b, "cpu", k, CpuSize)
        v == CopyIndex(c, "threads", 4, k, k, ThreadSize)
    IN /\ dpc = "threads" /\ k <= Len(tids)
       /\ ~mapped => crashing
       /\ Fault((s.ok /\ Failed(v)) \/ ~stacked \/ ~mapped)
       /\ Then(v, "threads")
       /\ k' = k + 1
       /\ blocks' = blocks + (IF stacked THEN 1 ELSE 0)
                           + (IF crashing /\ mapped THEN 1 ELSE 0)
       /\ context' = IF crashing THEN b.position ELSE context
       /\ UNCHANGED <<cctx, tids, created, dir>>

\* The list is flushed and entered in the directory.
ThreadListDone == \E d \in Disk :
    LET p == PositionOf(w, "threads")
        a == Entered(Flush(Start(d), "threads", p, 4))
    IN /\ dpc = "threads" /\ k > Len(tids)
       /\ Fault(Failed(a))
       /\ w' = End(a)
       /\ dpc' = "modlist"
       /\ dir' = Append(dir, Entry("threads", p))
       /\ UNCHANGED <<cctx, tids, k, attached, created, blocks, context, verdict>>

\* WriteMappings: the list of modules.
ModuleList == \E d \in Disk :
    LET a == AllocateList(Start(d), "modules", 4, Modules, ModuleSize)
    IN /\ dpc = "modlist"
       /\ Fault(Failed(a))
       /\ Then(a, "modules")
       /\ k' = 1
       /\ UNCHANGED <<cctx, tids, created, blocks, context, dir>>

\* The build id, if the file has one, and the name, which must be convertible.
FillRawModule(v, id, valid) ==
    WriteString(IF id THEN WriteBlock(v, "cv", k, CvLen) ELSE v, "module_name", NameLen,
                valid)

\* WriteMappings, one module: what its record refers to, and its element of the list.
WriteModule == \E d \in Disk, id, valid \in BOOLEAN :
    LET b == FillRawModule(Start(d), id, valid)
        c == CopyIndex(b, "modules", 4, k, k, ModuleSize)
    IN /\ dpc = "modules" /\ k <= Modules
       /\ Fault(Failed(c) \/ ~id)
       /\ Then(c, "modules")
       /\ k' = k + 1
       /\ UNCHANGED <<cctx, tids, created, blocks, context, dir>>

\* The module list is flushed and entered; WriteAppMemory has nothing to write.
ModuleListDone == \E d \in Disk :
    LET p == PositionOf(w, "modules")
        a == Entered(Flush(Start(d), "modules", p, 4))
    IN /\ dpc = "modules" /\ k > Modules
       /\ Fault(Failed(a))
       /\ w' = End(a)
       /\ dpc' = "memory"
       /\ dir' = Append(dir, Entry("modules", p))
       /\ UNCHANGED <<cctx, tids, k, attached, created, blocks, context, verdict>>

\* WriteMemoryListStream: a descriptor for each block written so far.
WriteMemoryListStream == \E d \in Disk :
    LET a == AllocateList(Start(d), "memory", 4, blocks, DescriptorSize)
        b == CopyIndex(a, "memory", 4, 1, blocks, DescriptorSize)
        c == IF a.ok THEN Entered(Flush(b, "memory", w.position, 4)) ELSE a
    IN /\ dpc = "memory"
       /\ Fault(Failed(c))
       /\ Then(c, "exception")
       /\ dir' = IF c.ok THEN Append(dir, Entry("memory", w.position)) ELSE dir
       /\ UNCHANGED <<cctx, tids, k, created, blocks, context>>

\* WriteExceptionStream: the crash and the location of the crashing thread's registers.
WriteExceptionStream == \E d \in Disk :
    LET a == WriteObject(Start(d), "exception", 0, ExceptionSize)
        b == IF a.ok THEN Entered(a) ELSE a
    IN /\ dpc = "exception"
       /\ Fault(Failed(b))
       /\ Then(b, "system")
       /\ dir' = IF b.ok THEN Append(dir, Entry("exception", w.position)) ELSE dir
       /\ UNCHANGED <<cctx, tids, k, created, blocks, context>>

\* The name and version of the system, as a string.
WriteOSInformation(v) == WriteString(v, "version", NameLen, TRUE)

\* WriteSystemInfoStream: the record is flushed after WriteOSInformation, which may
\* fail without consequence.
WriteSystemInfoStream == \E d \in Disk :
    LET a == AllocateList(Start(d), "system", SystemSize, 0, 0)
        b == WriteOSInformation(a)
        c == IF a.ok THEN Flush([b EXCEPT !.ok = TRUE], "system", w.position, SystemSize)
             ELSE a
        e == IF a.ok THEN Entered(c) ELSE c
    IN /\ dpc = "system"
       /\ Fault(Failed(e) \/ ~b.ok)
       /\ Then(e, "files")
       /\ k' = 1
       /\ dir' = IF e.ok THEN Append(dir, Entry("system", w.position)) ELSE dir
       /\ UNCHANGED <<cctx, tids, created, blocks, context>>

\* Android has no /etc/lsb-release; /proc/<pid> goes when the process is gone (live).
Unreadable(live) == {"lsb_release"} \cup
                    (IF live THEN {} ELSE {"status", "cmdline", "environ", "auxv", "maps"})

\* The content of one file, as a block of the dump.
CopyFile(d, readable) ==
    IF readable THEN WriteBlock(Start(d), Files[k], 0, FileLen)
    ELSE [Start(d) EXCEPT !.ok = FALSE]

\* WriteFile and WriteProcFile: the stream is a copy of the file; one that cannot be
\* read, is empty or does not fit gets a null entry in the directory.
WriteFile(live) == \E d \in Disk, readable \in BOOLEAN :
    LET a == CopyFile(d, readable)
        b == Entered([a EXCEPT !.ok = TRUE])
        absent == Files[k] \in Unreadable(live)
    IN /\ dpc = "files" /\ k <= Len(Files)
       /\ absent => ~readable
       /\ Fault((~a.ok /\ ~absent) \/ Failed(b))
       /\ w' = End(b)
       /\ dir' = Append(dir, IF a.ok THEN Entry(Files[k], w.position) ELSE NullEntry)
       /\ k' = k + 1
       /\ UNCHANGED <<dpc, cctx, tids, attached, created, blocks, context, verdict>>

FilesDone ==
    /\ dpc = "files" /\ k > Len(Files)
    /\ dpc' = "dso"
    /\ UNCHANGED <<cctx, tids, k, attached, w, created, blocks, context, dir, verdict,
                   faults>>

\* WriteDSODebugStream: an array with an element for each library (here at most
\* one), its name, and the debug record; any failure gives a null entry.
WriteDSODebugStream(live) == \E d \in Disk, dynamic \in BOOLEAN, libs \in {0, 1} :
    LET a == Allocate(Start(d), "linkmap", 0, 0, libs, LinkMapSize)
        b == IF libs = 0 THEN Start(d) ELSE WriteString(a, "dso_name", NameLen, TRUE)
        c == CopyIndex(b, "linkmap", 0, 1, libs, LinkMapSize)
        e == AllocateList(c, "debug", DebugSize, 1, FileLen)
        f == IF e.ok THEN Flush(CopyIndex(e, "debug", DebugSize, 1, 1, FileLen), "debug",
                                c.position, DebugSize)
             ELSE e
        v == IF dynamic THEN f ELSE [Start(d) EXCEPT !.ok = FALSE]
        x == Entered([v EXCEPT !.ok = TRUE])
    IN /\ dpc = "dso"
       /\ dynamic => live
       /\ Fault((live /\ ~v.ok) \/ Failed(x) \/ libs = 0)
       /\ w' = End(x)
       /\ dir' = Append(dir, IF v.ok THEN Entry("debug", c.position) ELSE NullEntry)
       /\ dpc' = "resume"
       /\ UNCHANGED <<cctx, tids, k, attached, created, blocks, context, verdict>>

\* The end of Dump: ThreadsResume lets go of every thread, ~MinidumpWriter closes the
\* file, and the process exits with the result.
DumpDone ==
    /\ dpc = "resume"
    /\ w' = Close(w)
    /\ dpc' = "off" /\ verdict' = "ok"
    /\ attached' = {} /\ k' = 0 /\ blocks' = 0
    /\ UNCHANGED <<cctx, tids, created, context, dir, faults>>

\* The same after a failure.
DumpFailed ==
    /\ dpc = "failed"
    /\ dpc' = "off" /\ verdict' = "fail"
    /\ attached' = {} /\ tids' = <<>> /\ k' = 0 /\ blocks' = 0
    /\ dir' = IF w = NewFile THEN <<>> ELSE dir
    /\ context' = IF w = NewFile THEN 0 ELSE context
    /\ UNCHANGED <<cctx, w, created, faults>>

\* What the dump process does by itself, without the crashed process.
WriterStep ==
    \/ Suspended \/ OpenFile \/ WriteHeader \/ ThreadList \/ ThreadListDone
    \/ ModuleList \/ WriteModule \/ ModuleListDone \/ WriteMemoryListStream
    \/ WriteExceptionStream \/ WriteSystemInfoStream \/ FilesDone \/ DumpDone
    \/ DumpFailed
-----------------------------------------------------------------------------
\* A dump that is reported as written can be read: the header, the directory and
\* every stream it points to are there, nothing they refer to was run over by another
\* write (of the link map only what a null entry has given up may be), and
\* the exception refers to the registers of the thread that crashed, if that thread
\* could be stopped at all.  (Excepted: a write that failed.  Dump does not look at
\* the results of Copy.)
SuccessMeansIntact ==
    verdict = "ok" /\ ~w.short =>
        /\ \A p \in w.parts : p.kind \in {"header", "dir", "threads", "modules", "memory",
                                          "stack", "cpu"} => p.st = "good"
        /\ Cardinality({p \in w.parts : p.kind = "dir"}) = Len(dir)
        /\ Len(dir) = kNumWriters
        /\ \A i \in 1..kNumWriters :
               dir[i] # NullEntry =>
                   /\ \E p \in w.parts : p.kind = dir[i].kind /\ p.pos = dir[i].pos
                   /\ \A p \in w.parts : p.kind = dir[i].kind => p.st = "good"
        /\ \A p \in w.parts :
               p.st = "bad" => p.kind \in {"linkmap", "dso_name"} /\ dir[kNumWriters] = NullEntry
        /\ cctx[1] \in {tids[i] : i \in 1..Len(tids)} =>
               \E p \in w.parts : p.kind = "cpu" /\ p.pos = context
=============================================================================
