---------------------------- MODULE NativeCrash ----------------------------
(***************************************************************************)
(* A native crash of the application, from the signal to the death of the  *)
(* process: google_breakpad's ExceptionHandler as bugly.cpp sets it up,    *)
(* NativeAirbag beside it, and the dump process it clones, whose steps are *)
(* those of MinidumpWriter.                                                *)
(*                                                                         *)
(* Any thread may crash at any time, also while another one is being       *)
(* handled; the process may be killed from outside; the dump process waits *)
(* at a pipe until it may ptrace, and stops the threads while it writes.   *)
(*                                                                         *)
(* The kernel is external: signal dispositions, ptrace, the pipe, clone.   *)
(* "system" stands for the handler Android installs in every process,      *)
(* which writes the tombstone and lets the signal kill the process.        *)
(***************************************************************************)
EXTENDS MinidumpWriter

CONSTANTS Main,            \* the thread that runs initNativeCrash and openNativeAirbag
          SIGABRT,         \* retriggered with tgkill even when the kernel sent it
          FaultSignals,    \* signals that an instruction can raise
          Airbags          \* the signals of the calls of openNativeAirbag, in order

ASSUME MainAssumption == Main \in Threads /\ "nobody" \notin Threads
ASSUME SignalAssumption == SIGABRT \in Signals \ FaultSignals /\ FaultSignals \subseteq Signals
ASSUME AirbagsAssumption == Airbags \in Seq(Signals)

VARIABLES
    cause,               \* why the process died: "none" while it lives
    frozen,              \* the process is stopped by a SIGSTOP nobody will undo
    tombstone,           \* the system's handler has seen a crash
    disp,                \* the disposition of each signal
    old_handlers,        \* the dispositions breakpad saved
    handlers_installed,
    mutex,               \* holder of g_handler_stack_mutex_, or "nobody"
    pc, sig, kind,       \* of each thread: where it is, its signal, and whether an
                         \* instruction ("fault") or a call ("raise") caused it
    ctx,                 \* g_crash_context_
    pipe,                \* fdes: made?, the byte in it, the child's copy of the write end
    ptracer,             \* the child may ptrace us (PR_SET_PTRACER)
    config, old,         \* NativeAirbag: airBagConfig.signal and the saved disposition
    opens,               \* calls of openNativeAirbag so far
    stolen,              \* threads that ptrace found stopping for their own signal
    first,               \* history: the first crash that breakpad handled
    reported,            \* history: the crash whose dump was reported as written
    tampered             \* history: NativeAirbag set a disposition after breakpad had
                         \* restored them

procVars == <<cause, frozen, tombstone>>
handlerVars == <<disp, old_handlers, handlers_installed, mutex>>
threadVars == <<pc, sig, kind>>
pipeVars == <<pipe, ptracer>>
airbagVars == <<config, old, opens>>
histVars == <<first, reported, tampered>>
vars == <<dumpVars, procVars, handlerVars, threadVars, ctx, pipeVars, airbagVars, stolen,
          histVars>>

NoSignal == "none"
Dispositions == {"system", "default", "breakpad", "airbag"}
HandlerStages == {"lock", "generate", "allow", "continue", "wait", "restore", "default",
                  "retrigger"}
Locked == {"install", "generate", "allow", "continue", "wait", "restore", "default"}
alive == cause = "none"

Init ==
    /\ DumpInit
    /\ cause = "none" /\ frozen = FALSE /\ tombstone = FALSE
    /\ disp = [s \in Signals |-> "system"]
    /\ old_handlers = disp
    /\ handlers_installed = FALSE
    /\ mutex = "nobody"
    /\ pc = [t \in Threads |-> IF t = Main THEN "ctor" ELSE "run"]
    /\ sig = [t \in Threads |-> NoSignal]
    /\ kind = [t \in Threads |-> "raise"]
    /\ ctx = NoCrash
    /\ pipe = [made |-> FALSE, byte |-> FALSE, childW |-> FALSE]
    /\ ptracer = FALSE
    /\ config = NoSignal /\ old = "system" /\ opens = 0
    /\ stolen = {}
    /\ first = NoCrash /\ reported = NoCrash /\ tampered = FALSE

\* A thread can take a step: the process lives and nobody has stopped the thread.
Runs(t) == alive /\ ~frozen /\ t \notin attached
At(t, place) == Runs(t) /\ pc[t] = place
Goto(t, place) == pc' = [pc EXCEPT ![t] = place]

\* The process is gone, and its memory, handlers and threads with it.
Gone(why) ==
    /\ cause' = why
    /\ frozen' = FALSE
    /\ disp' = [s \in Signals |-> "system"] /\ old_handlers' = disp'
    /\ handlers_installed' = FALSE
    /\ mutex' = "nobody"
    /\ pc' = [t \in Threads |-> "gone"]
    /\ sig' = [t \in Threads |-> NoSignal] /\ kind' = [t \in Threads |-> "raise"]
    /\ ctx' = NoCrash
    /\ config' = NoSignal /\ old' = "system" /\ opens' = 0
    /\ attached' = {} /\ stolen' = {}
    /\ UNCHANGED <<dpc, cctx, tids, k, w, created, blocks, context, dir, verdict,
                   pipeVars, histVars>>

\* An operation of the kernel fails.
KernelFails == Fault(TRUE) /\ UNCHANGED <<dpc, cctx, tids, k, attached, w, created, blocks,
                                          context, dir, verdict>>
-----------------------------------------------------------------------------
(* The ExceptionHandler's constructor, called once from Application.onCreate. *)

\* It takes the mutex and saves the handlers there are.
Construct ==
    /\ At(Main, "ctor") /\ mutex = "nobody"
    /\ mutex' = Main
    /\ old_handlers' = disp
    /\ Goto(Main, "install")
    /\ UNCHANGED <<dumpVars, procVars, disp, handlers_installed, sig, kind, ctx,
                   pipeVars, airbagVars, stolen, histVars>>

\* InstallHandlersLocked, one signal of its loop.
InstallHandler(s) ==
    /\ At(Main, "install") /\ disp[s] # "breakpad"
    /\ disp' = [disp EXCEPT ![s] = "breakpad"]
    /\ UNCHANGED <<dumpVars, procVars, old_handlers, handlers_installed, mutex,
                   threadVars, ctx, pipeVars, airbagVars, stolen, histVars>>

\* The handler goes on the stack, and the mutex is released.
Constructed ==
    /\ At(Main, "install") /\ \A s \in Signals : disp[s] = "breakpad"
    /\ handlers_installed' = TRUE
    /\ mutex' = "nobody"
    /\ Goto(Main, "run")
    /\ UNCHANGED <<dumpVars, procVars, disp, old_handlers, sig, kind, ctx, pipeVars,
                   airbagVars, stolen, histVars>>
-----------------------------------------------------------------------------
(* Crashes, and the signals they cause. *)

\* A thread's instruction faults, or it raises a signal (abort, raise).
Crashes(t, s, kd) ==
    /\ At(t, "run")
    /\ kd = "fault" => s \in FaultSignals
    /\ sig' = [sig EXCEPT ![t] = s]
    /\ kind' = [kind EXCEPT ![t] = kd]
    /\ Goto(t, "signal")
    /\ UNCHANGED <<dumpVars, procVars, handlerVars, ctx, pipeVars, airbagVars, stolen,
                   histVars>>

\* The signal is delivered to the handler installed for it at that moment.
Deliver(t) ==
    LET h == disp[sig[t]]
    IN /\ At(t, "signal")
       /\ h \in {"breakpad", "airbag"}
       /\ Goto(t, IF h = "breakpad" THEN "lock" ELSE "airbag")
       /\ UNCHANGED <<dumpVars, procVars, handlerVars, sig, kind, ctx, pipeVars, airbagVars,
                      stolen, histVars>>

\* The system's handler and the default action end the process.
Die(t) ==
    LET h == disp[sig[t]]
    IN /\ At(t, "signal")
       /\ h \in {"system", "default"}
       /\ Gone("signal")
       /\ tombstone' = (h = "system")
       /\ UNCHANGED faults

\* The process is killed from outside.
Kill == alive /\ Gone("kill") /\ UNCHANGED <<tombstone, faults>>
-----------------------------------------------------------------------------
(* NativeAirbag. *)

\* openNativeAirbag stores the configuration first ...
OpenNativeAirbag ==
    /\ At(Main, "run") /\ opens < Len(Airbags)
    /\ opens' = opens + 1
    /\ config' = Airbags[opens']
    /\ Goto(Main, "open")
    /\ UNCHANGED <<dumpVars, procVars, handlerVars, sig, kind, ctx, pipeVars, old, stolen,
                   histVars>>

\* ... and then installs its handler, saving the one it replaces in the only place it
\* has; without memory or an alternate stack it gives up.
InstallAirbag ==
    /\ At(Main, "open")
    /\ Goto(Main, "run")
    /\ \/ /\ old' = disp[config]
          /\ disp' = [disp EXCEPT ![config] = "airbag"]
          /\ tampered' = (tampered \/ (first # NoCrash /\ ~handlers_installed))
          /\ UNCHANGED dumpVars
       \/ KernelFails /\ UNCHANGED <<old, disp, tampered>>
    /\ UNCHANGED <<procVars, old_handlers, handlers_installed, mutex, sig, kind, ctx,
                   pipeVars, config, opens, stolen, first, reported>>

\* sig_handler swallows the configured signal: a call of raise returns, an instruction
\* that faulted faults again.  For any other signal it puts the saved handler back and
\* raises the signal again.
AirbagHandler(t) ==
    /\ At(t, "airbag")
    /\ \/ /\ sig[t] = config
          /\ Goto(t, IF kind[t] = "raise" THEN "run" ELSE "signal")
          /\ UNCHANGED <<disp, kind, tampered>>
       \/ /\ sig[t] # config
          /\ disp' = [disp EXCEPT ![sig[t]] = old]
          /\ tampered' = (tampered \/ (first # NoCrash /\ ~handlers_installed))
          /\ kind' = [kind EXCEPT ![t] = "raise"]
          /\ Goto(t, "signal")
    /\ UNCHANGED <<dumpVars, procVars, old_handlers, handlers_installed, mutex, sig,
                   ctx, pipeVars, airbagVars, stolen, first, reported>>
-----------------------------------------------------------------------------
(* ExceptionHandler::SignalHandler, on the thread that crashed. *)

\* Mutant of HandleSignal: without the mutex.
HandleSignalUnlocked(t) ==
    /\ At(t, "lock")
    /\ mutex' = t
    /\ ctx' = <<t, sig[t]>>
    /\ first' = IF first = NoCrash THEN ctx' ELSE first
    /\ Goto(t, "generate")
    /\ UNCHANGED <<dumpVars, procVars, disp, old_handlers, handlers_installed, sig,
                   kind, pipeVars, airbagVars, stolen, reported, tampered>>

\* It waits for the mutex; HandleSignal then fills g_crash_context_.  (The
\* mutex is free only when the constructor has put its handler on the stack.)
HandleSignal(t) ==
    /\ At(t, "lock") /\ mutex = "nobody"
    /\ mutex' = t
    /\ ctx' = <<t, sig[t]>>
    /\ first' = IF first = NoCrash THEN ctx' ELSE first
    /\ Goto(t, "generate")
    /\ UNCHANGED <<dumpVars, procVars, disp, old_handlers, handlers_installed, sig,
                   kind, pipeVars, airbagVars, stolen, reported, tampered>>

\* GenerateDump clones the dump process.  Without a pipe it carries on; without a
\* stack or a clone there is no dump.
GenerateDump(t) ==
    /\ At(t, "generate")
    /\ \/ \E made \in BOOLEAN :
             /\ Fault(~made)
             /\ pipe' = [made |-> made, byte |-> FALSE, childW |-> made]
             /\ ptracer' = FALSE
             /\ dpc' = "entry" /\ cctx' = ctx /\ verdict' = "none"
             /\ Goto(t, "allow")
             /\ UNCHANGED <<tids, k, attached, w, created, blocks, context, dir>>
       \/ KernelFails /\ Goto(t, "restore") /\ UNCHANGED pipeVars
    /\ UNCHANGED <<procVars, handlerVars, sig, kind, ctx, airbagVars, stolen, histVars>>

\* Mutant of AllowPtrace: the byte is sent and the permission forgotten.
AllowPtraceLate(t) ==
    /\ At(t, "allow")
    /\ pipe' = [pipe EXCEPT !.byte = pipe.made]
    /\ Goto(t, "continue")
    /\ UNCHANGED <<dumpVars, procVars, handlerVars, sig, kind, ctx, ptracer, airbagVars,
                   stolen, histVars>>

\* prctl(PR_SET_PTRACER, child) ...
AllowPtrace(t) ==
    /\ At(t, "allow")
    /\ ptracer' = TRUE
    /\ Goto(t, "continue")
    /\ UNCHANGED <<dumpVars, procVars, handlerVars, sig, kind, ctx, pipe, airbagVars,
                   stolen, histVars>>

\* ... and only then the byte the child waits for.
SendContinueSignalToChild(t) ==
    /\ At(t, "continue")
    /\ pipe' = [pipe EXCEPT !.byte = pipe.made]
    /\ Goto(t, "wait")
    /\ UNCHANGED <<dumpVars, procVars, handlerVars, sig, kind, ctx, ptracer, airbagVars,
                   stolen, histVars>>

\* Mutant of DumpCallback: the usual `return succeeded`.
DumpCallbackTells(succeeded) == succeeded

\* bugly.cpp's DumpCallback.
DumpCallback(succeeded) == FALSE

\* waitpid, and the callback's answer, which is what HandleSignal returns.
WaitChild(t) ==
    /\ At(t, "wait") /\ dpc = "off"
    /\ Goto(t, IF DumpCallback(verdict = "ok") THEN "default" ELSE "restore")
    /\ UNCHANGED <<dumpVars, procVars, handlerVars, sig, kind, ctx, pipeVars, airbagVars,
                   stolen, histVars>>

\* Mutant of Restored: the test of RestoreHandlersLocked, inverted.
RestoredNever == IF handlers_installed THEN disp ELSE old_handlers

\* RestoreHandlersLocked: every disposition becomes what the constructor found.
Restored == IF handlers_installed THEN old_handlers ELSE disp

\* The default action, for one signal.
InstallDefaultHandler(s) == [disp EXCEPT ![s] = "default"]

\* SignalHandler's end: InstallDefaultHandler for a handled signal, the old handlers
\* for one that was not; then the mutex is released.
Restore(t) ==
    /\ Runs(t) /\ pc[t] \in {"restore", "default"}
    /\ disp' = IF pc[t] = "default" THEN InstallDefaultHandler(sig[t]) ELSE Restored
    /\ handlers_installed' = (handlers_installed /\ pc[t] = "default")
    /\ mutex' = "nobody"
    /\ Goto(t, "retrigger")
    /\ UNCHANGED <<dumpVars, procVars, old_handlers, sig, kind, ctx, pipeVars,
                   airbagVars, stolen, histVars>>

\* A signal that was sent, and SIGABRT, is sent again; if that fails the process
\* exits.  A fault occurs again by itself when the handler returns.
Retrigger(t) ==
    /\ At(t, "retrigger")
    /\ Goto(t, "signal")
    /\ UNCHANGED <<dumpVars, procVars, handlerVars, sig, kind, ctx, pipeVars, airbagVars,
                   stolen, histVars>>

RetriggerFails(t) ==
    /\ At(t, "retrigger")
    /\ kind[t] = "raise" \/ sig[t] = SIGABRT
    /\ Gone("exit")
    /\ Fault(TRUE)
    /\ UNCHANGED tombstone

SignalHandler(t) ==
    \/ HandleSignal(t) \/ GenerateDump(t) \/ AllowPtrace(t) \/ SendContinueSignalToChild(t)
    \/ WaitChild(t) \/ Restore(t) \/ Retrigger(t) \/ RetriggerFails(t)
-----------------------------------------------------------------------------
(* The dump process. *)

appVars == <<cause, tombstone, handlerVars, sig, kind, ctx, ptracer, airbagVars, first,
             tampered>>

\* ThreadEntry closes the child's copy of the write end ...
ThreadEntry ==
    /\ dpc = "entry"
    /\ dpc' = "read"
    /\ pipe' = [pipe EXCEPT !.childW = FALSE]
    /\ UNCHANGED <<appVars, pc, frozen, stolen, reported, cctx, tids, k, attached, w,
                   created, blocks, context, dir, verdict, faults>>

\* ... and reads the pipe: read returns with the byte, with an error when there is no
\* pipe, or with the end of the file when nobody holds the write end.  The result is
\* not looked at.
Released == pipe.byte \/ ~pipe.made \/ (~alive /\ ~pipe.childW)
WaitForContinueSignal ==
    /\ dpc = "read"
    /\ Released
    /\ dpc' = "init"
    /\ UNCHANGED <<appVars, pc, frozen, stolen, reported, pipe, cctx, tids, k, attached, w,
                   created, blocks, context, dir, verdict, faults>>

\* PTRACE_ATTACH needs a process and, on some kernels, its permission.
MayAttach == alive /\ ptracer

\* SuspendThread takes the first stop for the one it asked for: a thread about to take
\* a signal of its own stops for that signal, and the SIGSTOP stays pending.
Suspend == \E ok, own \in BOOLEAN :
    /\ ThreadsSuspend(ok)
    /\ ok => MayAttach
    /\ own => ok /\ pc[tids[k]] = "signal"
    /\ Fault(~ok /\ MayAttach)
    /\ stolen' = IF own THEN stolen \cup {tids[k]} ELSE stolen
    /\ UNCHANGED <<appVars, pc, frozen, reported, pipe>>

\* When the threads are let go, a stolen signal is lost (a fault faults again) and the
\* pending SIGSTOP stops the process.
LetGo(lost) ==
    /\ frozen' = (frozen \/ stolen # {})
    /\ pc' = [t \in Threads |-> IF lost /\ t \in stolen /\ kind[t] = "raise" THEN "run"
                                ELSE pc[t]]
    /\ stolen' = {}

\* The other steps of WriteMinidumpImpl.  A dead process has nothing to read; failing
\* to read a living one is a fault.
Writes ==
    /\ \/ WriterStep
       \/ WriteThread(alive)
       \/ WriteFile(alive)
       \/ WriteDSODebugStream(alive)
       \/ \E ok \in BOOLEAN : DumperInit(ok) /\ (ok => alive) /\ Fault(~ok /\ alive)
    /\ reported' = IF verdict' = "ok" /\ verdict # "ok" THEN cctx ELSE reported
    /\ IF dpc' = "off" THEN LetGo(TRUE) ELSE UNCHANGED <<frozen, pc, stolen>>
    /\ UNCHANGED <<appVars, pipe>>

\* The dump process is killed: the kernel detaches its tracees, and their signals are
\* delivered.
ChildKilled ==
    /\ dpc # "off"
    /\ Fault(TRUE)
    /\ dpc' = "off" /\ verdict' = "fail"
    /\ attached' = {} /\ tids' = <<>> /\ k' = 0 /\ blocks' = 0
    /\ w' = (IF dpc \in Reading THEN NewFile ELSE w)
    /\ dir' = (IF dpc \in Reading THEN <<>> ELSE dir)
    /\ context' = (IF dpc \in Reading THEN 0 ELSE context)
    /\ LetGo(FALSE)
    /\ UNCHANGED <<appVars, reported, pipe, cctx, created>>

DumpProcess == ThreadEntry \/ WaitForContinueSignal \/ Suspend \/ Writes
-----------------------------------------------------------------------------
\* What a thread does without anybody asking for it.
ThreadStep(t) ==
    \/ Deliver(t) \/ Die(t) \/ AirbagHandler(t) \/ SignalHandler(t)
    \/ t = Main /\ (Construct \/ (\E s \in Signals : InstallHandler(s)) \/ Constructed
                    \/ InstallAirbag)

\* Nothing is left: the process is gone and so is the dump process.
Over == ~alive /\ dpc = "off" /\ UNCHANGED vars

Next ==
    \/ \E t \in Threads : ThreadStep(t)
    \/ \E t \in Threads, s \in Signals, kd \in {"fault", "raise"} : Crashes(t, s, kd)
    \/ OpenNativeAirbag
    \/ Kill
    \/ DumpProcess \/ ChildKilled
    \/ Over

\* The dump process can take a step: it is there, and not waiting at the pipe.
DumpReady == dpc # "off" /\ (dpc = "read" => Released)

\* A thread that is not stopped goes on, the kernel delivers its signals, and the dump
\* process goes on.  Crashes, kills, faults and the user's clicks may never come.  (The
\* second conjunct is the weak fairness of DumpProcess, written out: DumpReady says when
\* it is enabled, and its steps are those that move its stage or its loop.)
Fairness ==
    /\ \A t \in Threads : WF_vars(ThreadStep(t))
    /\ []<>~DumpReady \/ []<><<dpc # "off">>_<<dpc, k, tids>>

Spec == Init /\ [][Next]_vars /\ Fairness
-----------------------------------------------------------------------------
NativeTypeOK ==
    /\ DumpTypeOK
    /\ cause \in {"none", "signal", "kill", "exit"}
    /\ frozen \in BOOLEAN /\ tombstone \in BOOLEAN
    /\ disp \in [Signals -> Dispositions] /\ old_handlers \in [Signals -> Dispositions]
    /\ handlers_installed \in BOOLEAN
    /\ mutex \in Threads \cup {"nobody"}
    /\ pc \in [Threads -> {"ctor", "install", "run", "open", "signal", "airbag", "gone"}
                          \cup HandlerStages]
    /\ sig \in [Threads -> Signals \cup {NoSignal}]
    /\ kind \in [Threads -> {"fault", "raise"}]
    /\ ctx \in Crash \cup {NoCrash}
    /\ pipe \in [made: BOOLEAN, byte: BOOLEAN, childW: BOOLEAN] /\ ptracer \in BOOLEAN
    /\ config \in Signals \cup {NoSignal} /\ old \in Dispositions /\ opens \in 0..Len(Airbags)
    /\ stolen \subseteq attached
    /\ first \in Crash \cup {NoCrash} /\ reported \in Crash \cup {NoCrash}
    /\ tampered \in BOOLEAN
    /\ \A t \in Threads : pc[t] \in Locked <=> mutex = t

\* The handshake: a dump process that was started with a pipe tries to stop the threads
\* of a living process only after the process has allowed it.
AttachAllowed ==
    dpc \notin {"off", "entry", "read"} /\ pipe.made /\ alive => ptracer

\* The dump is a snapshot: while it is written, every thread it lists is stopped, as
\* long as there are threads.
ThreadsHeldStill ==
    dpc \in Reading /\ alive => \A i \in 1..Len(tids) : tids[i] \in attached

\* A dump that was reported as written stays as it is: no later crash, whose handler
\* was already waiting for the mutex, replaces it or touches its file.
ReportIsFinal ==
    [][reported # NoCrash => UNCHANGED <<w, dir, created, reported>>]_vars

\* A process that dies of a signal dies through the system's handler, so that there is
\* a tombstone too, and not while the dump of its first crash is being written.  (Once
\* NativeAirbag has set a handler after the restoring, breakpad may be entered again, for
\* a crash that looks like the first.)
DeathIsOrderly ==
    cause = "signal" =>
        tombstone /\ (cctx = first /\ first # NoCrash /\ ~tampered => dpc = "off")

\* A crash that reached breakpad comes to an end: the dump process ends, whatever
\* becomes of the process that started it, and leaves no thread stopped; the handlers
\* are restored, the signal is raised again, and the process dies.  (Excepted: a process
\* that a pending SIGSTOP has stopped, and one in which NativeAirbag has set a handler
\* after the restoring.)
CrashEnds ==
    (dpc # "off" \/ \E t \in Threads : pc[t] \in HandlerStages)
        ~> (dpc = "off" /\ attached = {} /\ (~alive \/ frozen \/ tampered))
=============================================================================
