---------------------------- MODULE CommandBridge ----------------------------
(***************************************************************************)
(* The bridge from a page's JavaScript to native commands, on top of the   *)
(* connection MainProcessConnector models: webview.js keeps one callback   *)
(* per call, BaseWebView.takeNativeAction posts the call to the JavaBridge *)
(* thread, CommandDispatcher.exec runs it there or sends it to the main    *)
(* process, and the answer is posted to the UI thread, which fires the     *)
(* callback.                                                               *)
(*                                                                         *)
(* A callback name is a time stamp and a random number: the model takes    *)
(* names to be unique and uses the number of the call instead.             *)
(***************************************************************************)
EXTENDS MainProcessConnector, Sequences

CONSTANT MaxCalls  \* bound on the calls the pages make

ASSUME CallsAssumption == MaxCalls \in Nat

VARIABLES
    calls,      \* the command of each call: "login", "silent", "dialog" or "remote"
    callbacks,  \* webviewjs.callbacks: calls whose callback the page still holds
    bridge,     \* calls posted to the JavaBridge thread
    running,    \* the call that thread is blocked in, 0 for none
    target,     \* the main process a blocked remote call was sent to
    dialogs,    \* calls whose dialog is open
    ui,         \* answers posted to the UI thread
    fired,      \* history: callbacks invoked, in order
    kept,       \* calls whose callback returned false and stays registered
    ended,      \* calls that will get no answer: a toast, a dismissed dialog
    lost        \* remote calls that never reached the main process, or died there

bridgeVars == <<calls, callbacks, bridge, running, target, dialogs, ui, fired, kept,
                ended, lost>>
vars == <<connVars, bridgeVars>>

Call == 1..MaxCalls
\* The commands the web process has (LoginCommand; ToastCommand and the title
\* command, which give no answer; ShowDialogCommand), and any other command.
Kind == {"login", "silent", "dialog", "remote"}
Elements(s) == {s[i] : i \in 1..Len(s)}

BridgeTypeOK ==
    /\ TypeOK
    /\ calls \in Seq(Kind)
    /\ callbacks \in SUBSET Call
    /\ bridge \in Seq(Call)
    /\ running \in Call \cup {0}
    /\ target \in Gens \cup {NoBinder}
    /\ dialogs \in SUBSET Call
    /\ ui \in Seq(Call)
    /\ fired \in Seq(Call)
    /\ kept \in SUBSET Call
    /\ ended \in SUBSET Call
    /\ lost \in SUBSET Call

Init ==
    /\ ConnInit
    /\ calls = <<>>
    /\ callbacks = {}
    /\ bridge = <<>>
    /\ running = 0
    /\ target = NoBinder
    /\ dialogs = {}
    /\ ui = <<>>
    /\ fired = <<>>
    /\ kept = {}
    /\ ended = {}
    /\ lost = {}

MainAlive(b) == b # NoBinder /\ mainUp /\ b = gen
-----------------------------------------------------------------------------
\* takeNativeActionWithCallback: registers the callback, then takeNativeAction
\* posts the request to the JavaBridge thread.
TakeNativeAction(k) ==
    /\ ~crashed /\ Len(calls) < MaxCalls
    /\ calls' = Append(calls, k)
    /\ callbacks' = callbacks \cup {Len(calls) + 1}
    /\ bridge' = Append(bridge, Len(calls) + 1)
    /\ UNCHANGED <<running, target, dialogs, ui, fired, kept, ended, lost>>

\* The JavaBridge thread takes the next request: exec.
NextRequest(k) ==
    /\ ~crashed /\ running = 0 /\ bridge # <<>> /\ calls[Head(bridge)] = k
    /\ bridge' = Tail(bridge)

\* LoginCommand.exec sleeps on the JavaBridge thread.
ExecLogin ==
    /\ NextRequest("login")
    /\ running' = Head(bridge)
    /\ UNCHANGED <<calls, callbacks, target, dialogs, ui, fired, kept, ended, lost>>

\* Mutant of LoginDone: onResult is not in a finally block, and an interrupted
\* sleep skips it.
LoginDoneInterrupted ==
    /\ ~crashed /\ running # 0 /\ calls[running] = "login"
    /\ running' = 0
    /\ UNCHANGED <<calls, callbacks, bridge, target, dialogs, ui, fired, kept, ended,
                   lost>>

\* Its finally block gives the answer.
LoginDone ==
    /\ ~crashed /\ running # 0 /\ calls[running] = "login"
    /\ ui' = Append(ui, running)
    /\ running' = 0
    /\ UNCHANGED <<calls, callbacks, bridge, target, dialogs, fired, kept, ended, lost>>

\* ToastCommand.exec and the title command never call onResult.
ExecSilent ==
    /\ NextRequest("silent")
    /\ ended' = ended \cup {Head(bridge)}
    /\ UNCHANGED <<calls, callbacks, running, target, dialogs, ui, fired, kept, lost>>

\* ShowDialogCommand.exec: shows a dialog, or returns without one (no content, or
\* a fourth button).
ExecDialog ==
    /\ NextRequest("dialog")
    /\ \/ dialogs' = dialogs \cup {Head(bridge)} /\ UNCHANGED ended
       \/ ended' = ended \cup {Head(bridge)} /\ UNCHANGED dialogs
    /\ UNCHANGED <<calls, callbacks, running, target, ui, fired, kept, lost>>

\* A button of the dialog is clicked; its looper is the JavaBridge thread's.
ClickDialog(c) ==
    /\ ~crashed /\ c \in dialogs /\ running = 0
    /\ dialogs' = dialogs \ {c}
    /\ ui' = Append(ui, c)
    /\ UNCHANGED <<calls, callbacks, bridge, running, target, fired, kept, ended, lost>>

\* The dialog is dismissed without a button: nobody is told.
DismissDialog(c) ==
    /\ ~crashed /\ c \in dialogs /\ running = 0
    /\ dialogs' = dialogs \ {c}
    /\ ended' = ended \cup {c}
    /\ UNCHANGED <<calls, callbacks, bridge, running, target, ui, fired, kept, lost>>

\* exec, not a command of this process: handleWebAction on the cached binder, if
\* there is one; the call blocks until the main process returns.
ExecRemote ==
    /\ NextRequest("remote")
    /\ MainAlive(webAidl)
    /\ running' = Head(bridge)
    /\ target' = webAidl
    /\ UNCHANGED <<calls, callbacks, dialogs, ui, fired, kept, ended, lost>>

\* Mutant of ExecRemoteFails: the request is left at the head of the queue.
ExecRemoteBlocks ==
    /\ ~crashed /\ running = 0 /\ bridge # <<>> /\ calls[Head(bridge)] = "remote"
    /\ ~MainAlive(webAidl)
    /\ UNCHANGED bridgeVars

\* exec without a binder does nothing; on a dead one, which the dispatcher keeps
\* when the connector has long bound the next, the RemoteException is caught and
\* logged.  Nobody answers the page.
ExecRemoteFails ==
    /\ NextRequest("remote")
    /\ ~MainAlive(webAidl)
    /\ lost' = lost \cup {Head(bridge)}
    /\ UNCHANGED <<calls, callbacks, running, target, dialogs, ui, fired, kept, ended>>

\* execMainProcessCommand: the main process has no such command either and
\* answers NO_METHOD through ICallbackFromMainToWeb.
RemoteReply ==
    /\ ~crashed /\ running # 0 /\ calls[running] = "remote" /\ MainAlive(target)
    /\ ui' = Append(ui, running)
    /\ running' = 0
    /\ UNCHANGED <<calls, callbacks, bridge, target, dialogs, fired, kept, ended, lost>>

\* The main process dies under the call: RemoteException, caught.
RemoteDies ==
    /\ ~crashed /\ running # 0 /\ calls[running] = "remote" /\ ~MainAlive(target)
    /\ lost' = lost \cup {running}
    /\ running' = 0
    /\ UNCHANGED <<calls, callbacks, bridge, target, dialogs, ui, fired, kept, ended>>

\* Mutant of HandleCallback: the last answer posted is run first.
HandleCallbackLast ==
    /\ ~crashed /\ ui # <<>>
    /\ ui' = SubSeq(ui, 1, Len(ui) - 1)
    /\ fired' = Append(fired, ui[Len(ui)])
    /\ callbacks' = callbacks \ {ui[Len(ui)]}
    /\ UNCHANGED <<calls, bridge, running, target, dialogs, kept, ended, lost>>

\* The UI thread: handleCallback evaluates webviewjs.callback, which fires the
\* callback if the page still has it and deletes it unless it returns false.
HandleCallback ==
    /\ ~crashed /\ ui # <<>>
    /\ ui' = Tail(ui)
    /\ \/ /\ Head(ui) \in callbacks
          /\ fired' = Append(fired, Head(ui))
          /\ \/ callbacks' = callbacks \ {Head(ui)} /\ UNCHANGED kept
             \/ kept' = kept \cup {Head(ui)} /\ UNCHANGED callbacks
       \/ Head(ui) \notin callbacks /\ UNCHANGED <<callbacks, fired, kept>>
    /\ UNCHANGED <<calls, bridge, running, target, dialogs, ended, lost>>

\* loadUrl, goBack or a link: the new page starts with no callbacks; requests and
\* answers under way go on.
Reload ==
    /\ ~crashed /\ callbacks # {}
    /\ callbacks' = {}
    /\ UNCHANGED <<calls, bridge, running, target, dialogs, ui, fired, kept, ended, lost>>

JavaBridgeStep ==
    \/ ExecLogin \/ LoginDone \/ ExecSilent \/ ExecDialog
    \/ ExecRemote \/ ExecRemoteFails \/ RemoteReply \/ RemoteDies

BridgeNext ==
    \/ \E k \in Kind : TakeNativeAction(k)
    \/ JavaBridgeStep
    \/ \E c \in dialogs : ClickDialog(c) \/ DismissDialog(c)
    \/ HandleCallback
    \/ Reload

Next == \/ ConnNext /\ UNCHANGED bridgeVars
        \/ BridgeNext /\ UNCHANGED connVars

\* The JavaBridge thread and the UI thread run what is posted to them; users and
\* pages owe nothing.
Spec == /\ Init /\ [][Next]_vars
        /\ ConnFairness
        /\ WF_vars(JavaBridgeStep /\ UNCHANGED connVars)
        /\ WF_vars(HandleCallback /\ UNCHANGED connVars)
-----------------------------------------------------------------------------
\* Answers that do not wait for a user reach the page in the order of its calls,
\* and no callback fires twice: two queues on two threads and a call to another
\* process lie between.
AnswersInCallOrder ==
    \A i, j \in 1..Len(fired) :
        /\ i < j /\ "dialog" \notin {calls[fired[i]], calls[fired[j]]} =>
               fired[i] < fired[j]
        /\ i # j => fired[i] # fired[j]

\* No callback is forgotten: one the page still holds has its call queued,
\* running or answered, or is one of the cases the code leaves unanswered: a
\* command without an answer, a dismissed dialog, a callback that asked to stay,
\* or a remote call that was lost.
CallbacksAccountedFor ==
    \A c \in callbacks :
        \/ c \in Elements(bridge) \cup Elements(ui) \cup dialogs \cup {running}
        \/ c \in ended /\ calls[c] \in {"silent", "dialog"}
        \/ c \in lost /\ calls[c] = "remote"
        \/ c \in kept

\* Every login and remote call ends: its callback fires, or its page is gone, or
\* it was lost on the way to the main process, or the web process has crashed.
\* No death of the main process leaves the JavaBridge thread blocked.
CallsEnd ==
    \A c \in Call :
        c \in Elements(bridge) /\ calls[c] \in {"login", "remote"} ~>
            c \notin callbacks \/ c \in kept \cup lost \/ crashed
=============================================================================
