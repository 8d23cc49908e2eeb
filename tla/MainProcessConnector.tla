------------------------ MODULE MainProcessConnector ------------------------
(***************************************************************************)
(* How the :remoteweb process gets hold of the main process's binder:      *)
(* CommandDispatcher.initAidlConnect and MainProcessConnector.             *)
(*                                                                         *)
(* Threads: one init thread per web view created (initAidlConnect), the    *)
(* web process's main thread (the ServiceConnection callbacks), and one    *)
(* binder thread per death of the main process (binderDied).  Android's    *)
(* activity manager and binder driver are outside the repository: a bound  *)
(* connection is told of each new incarnation of the service once, a dead  *)
(* process is restarted, and every linked recipient is told of the death.  *)
(***************************************************************************)
EXTENDS Integers, FiniteSets

CONSTANTS Inits,      \* the threads initAidlConnect may start
          MaxDeaths,  \* bound on the deaths of the main process
          NoBinder    \* a null binder reference

ASSUME DeathsAssumption == MaxDeaths \in Nat
ASSUME NoBinderAssumption == NoBinder \notin Nat

VARIABLES
    mainUp,      \* is the main process alive?
    gen,         \* which incarnation of it is, or was last, alive
    bound,       \* has bindService been called?
    delivered,   \* the incarnation onServiceConnected was last called with, 0 for none
    linked,      \* incarnations the death recipient is linked to
    died,        \* incarnations whose death has not been handled yet
    iWebToMain,  \* MainProcessConnector.iWebToMain
    latch,       \* mConnectBinderPoolCountDownLatch's count
    instance,    \* MainProcessConnector.sInstance is set
    uiPc,        \* main thread: "idle", or "link" inside onServiceConnected
    pc,          \* init threads
    got,         \* the binder an init thread has read
    rpc,         \* binder threads, by the incarnation whose death they handle
    webAidl,     \* CommandDispatcher.webAidlInterface
    crashed,     \* an uncaught exception has ended the web process
    late         \* history: a death was handled when the next incarnation had
                 \* already been announced

platform  == <<mainUp, gen, bound, delivered, linked, died>>
connector == <<iWebToMain, latch, instance, uiPc>>
threads   == <<pc, got, rpc>>
connVars  == <<platform, connector, threads, webAidl, crashed, late>>

Gens == 1..(MaxDeaths + 1)

TypeOK ==
    /\ mainUp \in BOOLEAN
    /\ gen \in Gens
    /\ bound \in BOOLEAN
    /\ delivered \in Gens \cup {0}
    /\ linked \in SUBSET Gens
    /\ died \in SUBSET Gens
    /\ iWebToMain \in Gens \cup {NoBinder}
    /\ latch \in {0, 1}
    /\ instance \in BOOLEAN
    /\ uiPc \in {"idle", "link"}
    /\ pc \in [Inits -> {"off", "get", "await", "read", "set", "done"}]
    /\ got \in [Inits -> Gens \cup {NoBinder}]
    /\ rpc \in [Gens -> {"idle", "lock", "await", "done"}]
    /\ webAidl \in Gens \cup {NoBinder}
    /\ crashed \in BOOLEAN
    /\ late \in BOOLEAN

ConnInit ==
    /\ mainUp = TRUE
    /\ gen = 1
    /\ bound = FALSE
    /\ delivered = 0
    /\ linked = {}
    /\ died = {}
    /\ iWebToMain = NoBinder
    /\ latch = 0
    /\ instance = FALSE
    /\ uiPc = "idle"
    /\ pc = [t \in Inits |-> "off"]
    /\ got = [t \in Inits |-> NoBinder]
    /\ rpc = [g \in Gens |-> "idle"]
    /\ webAidl = NoBinder
    /\ crashed = FALSE
    /\ late = FALSE

Goto(t, l) == pc' = [pc EXCEPT ![t] = l]
RGoto(g, l) == rpc' = [rpc EXCEPT ![g] = l]

\* The connector's monitor: connectToMainProcessService holds it while it awaits.
MonitorFree == (\A t \in Inits : pc[t] # "await") /\ (\A g \in Gens : rpc[g] # "await")
-----------------------------------------------------------------------------
\* BaseWebView.init: initAidlConnect starts a thread unless it has the binder.
InitAidlConnect(t) ==
    /\ ~crashed /\ pc[t] = "off"
    /\ Goto(t, IF webAidl = NoBinder THEN "get" ELSE "done")
    /\ UNCHANGED <<platform, connector, got, rpc, webAidl, crashed, late>>

\* getInstance: the instance is there.
InstanceThere(t) ==
    /\ ~crashed /\ pc[t] = "get" /\ instance
    /\ Goto(t, "read")
    /\ UNCHANGED <<platform, connector, got, rpc, webAidl, crashed, late>>

\* getInstance: the first thread, alone under the class lock, constructs it;
\* connectToMainProcessService makes the latch, binds and awaits.
Construct(t) ==
    /\ ~crashed /\ pc[t] = "get" /\ ~instance
    /\ MonitorFree
    /\ latch' = 1
    /\ bound' = TRUE
    /\ Goto(t, "await")
    /\ UNCHANGED <<mainUp, gen, delivered, linked, died, iWebToMain, instance, uiPc,
                   got, rpc, webAidl, crashed, late>>

\* The latch opens: the constructor returns and the instance is published.
Constructed(t) ==
    /\ ~crashed /\ pc[t] = "await" /\ latch = 0
    /\ instance' = TRUE
    /\ Goto(t, "read")
    /\ UNCHANGED <<platform, iWebToMain, latch, uiPc, got, rpc, webAidl, crashed,
                   late>>

\* getIWebAidlInterface: iWebToMain.asBinder(), a NullPointerException in a
\* thread nobody guards if the binder has been taken back.
ReadBinder(t) ==
    /\ ~crashed /\ pc[t] = "read"
    /\ crashed' = (iWebToMain = NoBinder)
    /\ got' = [got EXCEPT ![t] = iWebToMain]
    /\ Goto(t, "set")
    /\ UNCHANGED <<platform, connector, rpc, webAidl, late>>

\* webAidlInterface = ...
SetWebAidl(t) ==
    /\ ~crashed /\ pc[t] = "set"
    /\ webAidl' = got[t]
    /\ Goto(t, "done")
    /\ UNCHANGED <<platform, connector, got, rpc, crashed, late>>

\* Mutant of OnServiceConnected: a binder already there is kept.
OnServiceConnectedKeeps ==
    /\ ~crashed /\ uiPc = "idle"
    /\ bound /\ mainUp /\ delivered # gen
    /\ delivered' = gen
    /\ iWebToMain' = IF iWebToMain = NoBinder THEN gen ELSE iWebToMain
    /\ uiPc' = "link"
    /\ UNCHANGED <<mainUp, gen, bound, linked, died, latch, instance, threads,
                   webAidl, crashed, late>>

\* onServiceConnected, first half: iWebToMain = asInterface(service).
OnServiceConnected ==
    /\ ~crashed /\ uiPc = "idle"
    /\ bound /\ mainUp /\ delivered # gen
    /\ delivered' = gen
    /\ iWebToMain' = gen
    /\ uiPc' = "link"
    /\ UNCHANGED <<mainUp, gen, bound, linked, died, latch, instance, threads,
                   webAidl, crashed, late>>

\* Mutant of LinkToDeath: countDown is forgotten.
LinkToDeathNoCountDown ==
    /\ ~crashed /\ uiPc = "link" /\ iWebToMain # NoBinder
    /\ uiPc' = "idle"
    /\ linked' = IF mainUp /\ iWebToMain = gen THEN linked \cup {gen} ELSE linked
    /\ UNCHANGED <<mainUp, gen, bound, delivered, died, iWebToMain, latch, instance,
                   threads, webAidl, crashed, late>>

\* onServiceConnected, second half: linkToDeath on what the field now holds; a
\* dead binder throws RemoteException, which is caught; then countDown.
LinkToDeath ==
    /\ ~crashed /\ uiPc = "link"
    /\ uiPc' = "idle"
    /\ \/ /\ iWebToMain = NoBinder
          /\ crashed' = TRUE
          /\ UNCHANGED <<linked, latch>>
       \/ /\ iWebToMain # NoBinder
          /\ linked' = IF mainUp /\ iWebToMain = gen THEN linked \cup {gen} ELSE linked
          /\ latch' = 0
          /\ UNCHANGED crashed
    /\ UNCHANGED <<mainUp, gen, bound, delivered, died, iWebToMain, instance,
                   threads, webAidl, late>>

\* Does unlinkToDeath on what the field holds throw?  On null, and where the recipient is
\* not linked yet to a living process.
UnlinkThrows ==
    iWebToMain = NoBinder \/ (mainUp /\ iWebToMain = gen /\ iWebToMain \notin linked)

\* binderDied: unlinks whatever binder the field holds, clears the field and asks for
\* the monitor.  An exception ends it and stays in the binder thread.
BinderDied(g) ==
    /\ ~crashed /\ g \in died /\ rpc[g] = "idle"
    /\ died' = died \ {g}
    /\ linked' = linked \ {iWebToMain}
    /\ iWebToMain' = IF UnlinkThrows THEN iWebToMain ELSE NoBinder
    /\ RGoto(g, IF UnlinkThrows THEN "done" ELSE "lock")
    /\ late' = (late \/ delivered > g)
    /\ UNCHANGED <<mainUp, gen, bound, delivered, latch, instance, uiPc, pc, got,
                   webAidl, crashed>>

\* connectToMainProcessService from binderDied: a new latch, the same connection.
Rebind(g) ==
    /\ ~crashed /\ rpc[g] = "lock"
    /\ MonitorFree
    /\ latch' = 1
    /\ RGoto(g, "await")
    /\ late' = (late \/ delivered > g)
    /\ UNCHANGED <<platform, iWebToMain, instance, uiPc, pc, got, webAidl, crashed>>

\* The latch opens and binderDied returns.
Rebound(g) ==
    /\ ~crashed /\ rpc[g] = "await" /\ latch = 0
    /\ RGoto(g, "done")
    /\ UNCHANGED <<platform, connector, pc, got, webAidl, crashed, late>>

\* The main process dies; a linked recipient will be told.
MainDies ==
    /\ mainUp /\ gen <= MaxDeaths
    /\ mainUp' = FALSE
    /\ died' = IF gen \in linked THEN died \cup {gen} ELSE died
    /\ UNCHANGED <<gen, bound, delivered, linked, connector, threads, webAidl,
                   crashed, late>>

\* Its service is started again.
MainRestarts ==
    /\ ~mainUp
    /\ mainUp' = TRUE
    /\ gen' = gen + 1
    /\ UNCHANGED <<bound, delivered, linked, died, connector, threads, webAidl,
                   crashed, late>>

InitStep(t) ==
    InstanceThere(t) \/ Construct(t) \/ Constructed(t) \/ ReadBinder(t) \/ SetWebAidl(t)
RecipientStep(g) == BinderDied(g) \/ Rebind(g) \/ Rebound(g)
UiStep == OnServiceConnected \/ LinkToDeath

ConnNext ==
    \/ \E t \in Inits : InitAidlConnect(t) \/ InitStep(t)
    \/ \E g \in Gens : RecipientStep(g)
    \/ UiStep
    \/ MainDies
    \/ MainRestarts

\* Threads that can run do; a dead service is restarted (BIND_AUTO_CREATE).
ConnFairness ==
    /\ \A t \in Inits : WF_connVars(InitStep(t))
    /\ \A g \in Gens : WF_connVars(RecipientStep(g))
    /\ WF_connVars(UiStep)
    /\ WF_connVars(MainRestarts)

ConnSpec == ConnInit /\ [][ConnNext]_connVars /\ ConnFairness
-----------------------------------------------------------------------------
\* binderDied and connectToMainProcessService never block for ever unless a death
\* is handled late: while a thread awaits the latch, the main process is down, or
\* its current incarnation is still to be announced, or the announcement is being
\* handled.  (A late binderDied takes back the new binder and awaits an
\* announcement that has already been made.)
NoStuckWaiter ==
    ~late /\ latch = 1 /\ ~MonitorFree => ~mainUp \/ delivered # gen \/ uiPc = "link"

\* The connector recovers from every death that is not handled late: once bound it
\* holds, again and again, the binder of the living main process.  A null binder may
\* bring the web process down, but only when the main process has died: the first
\* connection is never lost on the way to the init threads.
Reconnects ==
    bound ~> (mainUp /\ iWebToMain = gen) \/ late \/ (crashed /\ (gen > 1 \/ ~mainUp))
=============================================================================
