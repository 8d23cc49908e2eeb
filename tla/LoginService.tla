---------------------------- MODULE LoginService ----------------------------
(***************************************************************************)
(* Signing in through the remote user service: ServerMocker (the binding   *)
(* and its death recipient), LoginModel, LoginPresenter and LoginFragment  *)
(* in the app; UserManagerService in its own process.                      *)
(*                                                                         *)
(* Threads: the app's main thread (clicks, coroutines, ServiceConnection   *)
(* callbacks, onDestroy) and one binder thread per death of the service    *)
(* (binderDied).  Android's activity manager and binder driver are outside *)
(* the repository: a bound connection is told of each incarnation of the   *)
(* service once, not again when it is bound again; a dead service that is  *)
(* still bound is started again; the connection is told of a death before  *)
(* it is told of the next incarnation, the death recipient at any time.    *)
(***************************************************************************)
EXTENDS Integers, FiniteSets

CONSTANTS Clicks,     \* clicks on the login button
          MaxDeaths,  \* bound on the deaths of the service
          NoBinder    \* a null binder reference

ASSUME LoginDeathsAssumption == MaxDeaths \in Nat
ASSUME LoginNoBinderAssumption == NoBinder \notin Nat

VARIABLES
    serverUp,      \* is the service's process alive?
    gen,           \* which incarnation of it is, or was last, alive
    bound,         \* is mConnection bound?
    delivered,     \* the incarnation mConnection was last told of, 0 for none
    disconnect,    \* is onServiceDisconnected still to be called?
    linked,        \* incarnations the death recipient is linked to
    died,          \* incarnations whose binderDied is still to be called
    registered,    \* incarnations that hold onUserListener
    iUserManager,  \* ServerMocker.iUserManager
    isBind,        \* ServerMocker.isBind
    mainPc,        \* main thread: "free", "link" in onServiceConnected, "unbind"
    rpc,           \* binder threads, by the incarnation whose death they handle
    lost,          \* history: incarnations whose binder the handler of an earlier
                   \* death has taken back
    login,         \* each click's attempt
    target,        \* the incarnation a blocked onLogin was sent to
    destroyed,     \* the fragment is destroyed
    raced,         \* history: did unBinder run while binderDied was going to bind?
    crashed        \* an exception nobody catches has ended the app

platform == <<serverUp, gen, bound, delivered, disconnect, linked, died, registered>>
mocker   == <<iUserManager, isBind>>
threads  == <<mainPc, rpc, lost>>
ui       == <<login, target, destroyed, raced, crashed>>
vars     == <<platform, mocker, threads, ui>>

Gens == 1..(MaxDeaths + 1)

TypeOK ==
    /\ serverUp \in BOOLEAN
    /\ gen \in Gens \cup {0}
    /\ bound \in BOOLEAN
    /\ delivered \in Gens \cup {0}
    /\ disconnect \in BOOLEAN
    /\ linked \in SUBSET Gens
    /\ died \in SUBSET Gens
    /\ registered \in SUBSET Gens
    /\ iUserManager \in Gens \cup {NoBinder}
    /\ isBind \in BOOLEAN
    /\ mainPc \in {"free", "link", "unbind"}
    /\ rpc \in [Gens -> {"idle", "unlink", "forget", "bind", "done"}]
    /\ lost \in SUBSET Gens
    /\ login \in [Clicks -> {"idle", "delay", "call", "SUCCESS", "INVALID_INFO",
                             "CONN_ERROR", "cancelled"}]
    /\ target \in Gens \cup {NoBinder}
    /\ destroyed \in BOOLEAN
    /\ raced \in BOOLEAN
    /\ crashed \in BOOLEAN

Init ==
    /\ serverUp = FALSE
    /\ gen = 0
    /\ bound = FALSE
    /\ delivered = 0
    /\ disconnect = FALSE
    /\ linked = {}
    /\ died = {}
    /\ registered = {}
    /\ iUserManager = NoBinder
    /\ isBind = FALSE
    /\ mainPc = "free"
    /\ rpc = [g \in Gens |-> "idle"]
    /\ lost = {}
    /\ login = [c \in Clicks |-> "idle"]
    /\ target = NoBinder
    /\ destroyed = FALSE
    /\ raced = FALSE
    /\ crashed = FALSE

Alive(b) == b # NoBinder /\ serverUp /\ b = gen
\* onLogin is a synchronous call on the main thread: nothing else runs there.
MainFree == ~crashed /\ mainPc = "free" /\ \A c \in Clicks : login[c] # "call"
\* Has every death handler run its course, or none begun?
HandlersQuiet == died = {} /\ \A g \in Gens : rpc[g] \in {"idle", "done"}
-----------------------------------------------------------------------------
\* binderRemoteServer: bindService binds, or returns false, which nobody looks at, or
\* throws, which is caught.
BinderRemoteServer ==
    \/ bound' = TRUE /\ isBind' = TRUE
    \/ isBind' = TRUE /\ UNCHANGED bound
    \/ UNCHANGED <<bound, isBind>>

\* A click: LoginPresenter.onLogin, LoginModel.onLogin up to its delay.
Click(c) ==
    /\ MainFree /\ ~destroyed /\ login[c] = "idle"
    /\ BinderRemoteServer
    /\ login' = [login EXCEPT ![c] = "delay"]
    /\ UNCHANGED <<serverUp, gen, delivered, disconnect, linked, died, registered,
                   iUserManager, threads, target, destroyed, raced, crashed>>

\* Mutant of CallLogin: the main thread calls without asking for the binder.
CallLoginUnguarded(c) ==
    /\ MainFree /\ login[c] = "delay"
    /\ crashed' = ~Alive(iUserManager)
    /\ login' = [login EXCEPT ![c] = "call"]
    /\ target' = iUserManager
    /\ UNCHANGED <<platform, mocker, threads, destroyed, raced>>

\* After the delay: no binder is CODE_CONN_ERROR, a dead one throws a
\* DeadObjectException that nobody catches, a living one is called.
CallLogin(c) ==
    /\ MainFree /\ login[c] = "delay"
    /\ crashed' = (iUserManager # NoBinder /\ ~Alive(iUserManager))
    /\ login' = [login EXCEPT ![c] = IF iUserManager = NoBinder THEN "CONN_ERROR" ELSE "call"]
    /\ target' = iUserManager
    /\ UNCHANGED <<platform, mocker, threads, destroyed, raced>>

\* UserManagerService.onLogin answers.
LoginReturns(c) ==
    /\ ~crashed /\ login[c] = "call" /\ Alive(target)
    /\ \E code \in {"SUCCESS", "INVALID_INFO"} : login' = [login EXCEPT ![c] = code]
    /\ UNCHANGED <<platform, mocker, threads, target, destroyed, raced, crashed>>

\* The service dies under the call: the exception nobody catches.
LoginThrows(c) ==
    /\ ~crashed /\ login[c] = "call" /\ ~Alive(target)
    /\ crashed' = TRUE
    /\ UNCHANGED <<platform, mocker, threads, login, target, destroyed, raced>>

\* onServiceConnected, first half: iUserManager = asInterface(service).
OnServiceConnected ==
    /\ MainFree /\ bound /\ serverUp /\ delivered # gen
    /\ ~disconnect
    /\ delivered' = gen
    /\ iUserManager' = gen
    /\ mainPc' = "link"
    /\ UNCHANGED <<serverUp, gen, bound, disconnect, linked, died, registered, isBind,
                   rpc, lost, ui>>

\* onServiceConnected, second half: the listener is registered with what the field
\* holds by now and the recipient linked to the service that was announced, unless
\* a RemoteException says that it is dead.
SetListeners ==
    /\ ~crashed /\ mainPc = "link"
    /\ mainPc' = "free"
    /\ registered' = IF Alive(iUserManager) THEN registered \cup {iUserManager}
                                              ELSE registered
    /\ linked' = IF Alive(delivered) THEN linked \cup {delivered} ELSE linked
    /\ UNCHANGED <<serverUp, gen, bound, delivered, disconnect, died, mocker, rpc, lost,
                   ui>>

\* Mutant of OnServiceDisconnected: it gives up the binding as well.
OnServiceDisconnectedUnbinds ==
    /\ MainFree /\ disconnect
    /\ disconnect' = FALSE
    /\ iUserManager' = NoBinder
    /\ bound' = FALSE
    /\ isBind' = FALSE
    /\ delivered' = 0
    /\ UNCHANGED <<serverUp, gen, linked, died, registered, threads, ui>>

\* onServiceDisconnected forgets the binder; the binding itself stays.
OnServiceDisconnected ==
    /\ MainFree /\ disconnect
    /\ disconnect' = FALSE
    /\ iUserManager' = NoBinder
    /\ UNCHANGED <<serverUp, gen, bound, delivered, linked, died, registered, isBind,
                   threads, ui>>

\* binderDied: returns at once if iUserManager is null already.
BinderDied(g) ==
    /\ ~crashed /\ g \in died
    /\ died' = died \ {g}
    /\ rpc' = [rpc EXCEPT ![g] = IF iUserManager = NoBinder THEN "done" ELSE "unlink"]
    /\ UNCHANGED <<serverUp, gen, bound, delivered, disconnect, linked, registered, mocker,
                   mainPc, lost, ui>>

\* Is unlinkToDeath on b a NoSuchElementException?
NotLinked(b) == Alive(b) /\ b \notin linked

\* unlinkToDeath on what the field holds by now.  Its exception ends the handler; the
\* binder thread survives it.
UnlinkToDeath(g) ==
    /\ ~crashed /\ rpc[g] = "unlink"
    /\ linked' = linked \ {iUserManager}
    /\ rpc' = [rpc EXCEPT ![g] = IF NotLinked(iUserManager) THEN "done" ELSE "forget"]
    /\ UNCHANGED <<serverUp, gen, bound, delivered, disconnect, died, registered, mocker,
                   mainPc, lost, ui>>

\* iUserManager = null, whichever incarnation's binder it is.
ForgetBinder(g) ==
    /\ ~crashed /\ rpc[g] = "forget"
    /\ iUserManager' = NoBinder
    /\ lost' = lost \cup ({iUserManager} \cap (g + 1)..gen)
    /\ rpc' = [rpc EXCEPT ![g] = "bind"]
    /\ UNCHANGED <<platform, isBind, mainPc, ui>>

\* binderRemoteServer from binderDied.
Rebind(g) ==
    /\ ~crashed /\ rpc[g] = "bind"
    /\ BinderRemoteServer
    /\ rpc' = [rpc EXCEPT ![g] = "done"]
    /\ UNCHANGED <<serverUp, gen, delivered, disconnect, linked, died, registered,
                   iUserManager, mainPc, lost, ui>>

\* Mutant of Destroy: unBinder keeps the listener at the service.
DestroyKeepsListener ==
    /\ MainFree /\ ~destroyed
    /\ destroyed' = TRUE
    /\ login' = [c \in Clicks |-> IF login[c] = "delay" THEN "cancelled" ELSE login[c]]
    /\ mainPc' = IF isBind THEN "unbind" ELSE "free"
    /\ raced' = (raced \/ ~HandlersQuiet)
    /\ UNCHANGED <<platform, mocker, rpc, lost, target, crashed>>

\* onDestroy: the scope cancels waiting coroutines; execRelease, unBinder: the
\* listener and the recipient are taken back from a living service.  A recipient that
\* a late binderDied has just unlinked is an exception nobody catches.
Destroy ==
    /\ MainFree /\ ~destroyed
    /\ destroyed' = TRUE
    /\ login' = [c \in Clicks |-> IF login[c] = "delay" THEN "cancelled" ELSE login[c]]
    /\ mainPc' = IF isBind THEN "unbind" ELSE "free"
    /\ raced' = (raced \/ ~HandlersQuiet)
    /\ crashed' = (isBind /\ NotLinked(iUserManager))
    /\ \/ /\ isBind /\ Alive(iUserManager)
          /\ registered' = registered \ {iUserManager}
          /\ linked' = linked \ {iUserManager}
          /\ iUserManager' = IF crashed' THEN iUserManager ELSE NoBinder
       \/ /\ ~(isBind /\ Alive(iUserManager))
          /\ UNCHANGED <<registered, linked, iUserManager>>
    /\ UNCHANGED <<serverUp, gen, bound, delivered, disconnect, died, isBind, rpc, lost,
                   target>>

\* The rest of unBinder: unbindService, after which the connection hears nothing.
Unbind ==
    /\ ~crashed /\ mainPc = "unbind"
    /\ mainPc' = "free"
    /\ bound' = FALSE
    /\ isBind' = FALSE
    /\ delivered' = 0
    /\ disconnect' = FALSE
    /\ raced' = (raced \/ ~HandlersQuiet)
    /\ UNCHANGED <<serverUp, gen, linked, died, registered, iUserManager, rpc, lost,
                   login, target, destroyed, crashed>>
-----------------------------------------------------------------------------
\* A service somebody is bound to is started, also after it has died.
ServerStarts ==
    /\ bound /\ ~serverUp /\ gen <= MaxDeaths
    /\ serverUp' = TRUE
    /\ gen' = gen + 1
    /\ UNCHANGED <<bound, delivered, disconnect, linked, died, registered, mocker, threads, ui>>

\* Its process dies: RemoteCallbackList forgets the listener, the connection and
\* the linked recipient will be told.
ServerDies ==
    /\ serverUp /\ gen <= MaxDeaths
    /\ serverUp' = FALSE
    /\ registered' = registered \ {gen}
    /\ died' = IF gen \in linked THEN died \cup {gen} ELSE died
    /\ disconnect' = (disconnect \/ (bound /\ delivered = gen))
    /\ UNCHANGED <<gen, bound, delivered, linked, mocker, threads, ui>>

LoginStep(c) == CallLogin(c) \/ LoginReturns(c) \/ LoginThrows(c)
MainStep == OnServiceConnected \/ SetListeners \/ OnServiceDisconnected \/ Unbind
RecipientStep(g) == BinderDied(g) \/ UnlinkToDeath(g) \/ ForgetBinder(g) \/ Rebind(g)

Next ==
    \/ \E c \in Clicks : Click(c) \/ LoginStep(c)
    \/ MainStep
    \/ \E g \in Gens : RecipientStep(g)
    \/ Destroy
    \/ ServerStarts
    \/ ServerDies

\* Threads that can run do; the service is started when bound.  Nobody has to
\* click or to leave, and the service need not die.
Fairness ==
    /\ \A c \in Clicks : WF_vars(LoginStep(c))
    /\ WF_vars(MainStep)
    /\ \A g \in Gens : WF_vars(RecipientStep(g))
    /\ WF_vars(ServerStarts)

Spec == Init /\ [][Next]_vars /\ Fairness
-----------------------------------------------------------------------------
\* After unBinder nothing is left behind, in whatever order deaths, reconnections and
\* the leaving come: no binding, unless unBinder ran while a binderDied was on its way
\* to bind again, and no listener at a living service but one whose binder the handler
\* of an earlier death had taken back.
ReleaseIsClean ==
    destroyed /\ mainPc # "unbind" /\ ~raced => ~bound /\ registered \subseteq lost

\* A service that died under a login may bring the app down.
CrashedByDeath == crashed /\ (gen > 1 \/ ~serverUp)

\* The binding heals: a screen that has bound the service holds, again and again,
\* the living incarnation's binder, until it is left or a death brings the app down.
\* Only the handler of an earlier death, coming after the announcement, keeps it from
\* the incarnation whose binder it takes back, and from no later one.
\* (The last incarnation the bound allows does not die.)
BindingHeals == bound ~> Alive(iUserManager) \/ destroyed \/ CrashedByDeath \/ gen \in lost

\* Every login ends with a code, or is cancelled with its screen, or ends with the app
\* when the service has died: never because of a binding that is not there yet, was
\* taken back or was bound twice.
LoginEnds ==
    \A c \in Clicks : login[c] = "delay" ~>
        \/ login[c] \in {"SUCCESS", "INVALID_INFO", "CONN_ERROR", "cancelled"}
        \/ CrashedByDeath
=============================================================================
