# DripStone: TLA+ specifications, model checking and proofs

DripStone is a modular Android application: an app shell, a `core` library (MVVM
base classes, logging, task flow, preferences), a `webview` module that runs in a
process of its own, a `usercenter` that signs in through a service in a third
process, an `optimize` module with run-time monitors, an `optimize-crash` module
that captures native crashes with Breakpad, and `study` and `demo` modules. The repository has no documentation besides its (Chinese) comments; where
a property states a promise, it is the promise of such a comment, quoted in
`PROJECT.json`.

This directory holds a TLA+ model of the parts that have a protocol: state shared
by several threads, processes or callbacks. Everything is modelled at the level of
its control (each state change, guard and early return, in order); data is
abstracted to what the properties distinguish.

## 1. Inventory

| Part | State | Operations | Interacts with | What is hard |
|---|---|---|---|---|
| Explicit locks (`study/thread/CustomLock`, `CustomReenterLock`) | AQS state, exclusive owner, wait queue | lock, tryLock, timed and interruptible lock, unlock | their clients in `ThreadAction` | every read and write interleaves; lost wakeups; a release that is several steps |
| Paged lists (`core/base/mvvm`, `collect/cook`, `collect/news`) | page number, refresh mark, list, cache, view status, spinner | open, refresh, load more, retry, answers, resume, recreate, leave | Retrofit/RxJava answers, LiveData, the view | answers out of order, to a model that was replaced, empty or failed; gestures that never stop |
| Connection web process → main process (`MainProcessConnector`) | instance, latch, monitor, binder, death link | getInstance, connect, onServiceConnected, binderDied | bridge below, Android's binding | a latch awaited under a monitor; the main process dying at any step |
| Command bridge (`CommandDispatcher`, `BaseWebView`, `webview.js`, commands) | the page's callbacks, queues of two threads, the call in flight, dialogs | takeNativeAction, exec (local or remote), handleCallback, reload | the connector, AIDL, dialogs | calls lost with a process, answers after a reload, order over two queues |
| Login (`ServerMocker`, `LoginModel`, `LoginPresenter`, `UserManagerService`) | binding, listeners, logins under way | click, bind, login, death, unbind | Android's binding, coroutines | two reactions to one death, one of them late; leaving during a rebind |
| Network speed monitor (`DeviceBandwidthSampler`, `ConnectionClassManager`, `NetSpeedMonitorImpl`, `NetSpeedFragment`) | sampling mark, handler queue, last byte count, average, pending quality, listeners, tries | start, stop, handleMessage, addSample, addBandwidth, notify, register, remove | the downloads of the screen | two threads sample at once, unsynchronised fields, a listener list read without a lock, retries |
| Logging to files (`BaseLogger`, `LogHelper`, preferences) | queue, two files, current file and its saved mark, write count | config, d/i/w/e, take, size check, switch, write | preferences, file system | a process killed between the steps of a switch; failing files; start order |
| Task flow (`core/efficiency/taskflow`, `demo/taskflow`) | nodes by id, recent node, callback per node, disposed mark | start, startWithNode, revert, continueWork, addNode, dispose, onCompleted | taskers (dialogs, activities), LiveData | late, repeated and reentrant reports; nodes added or replaced at work |
| Native crash capture (`optimize-crash`: `bugly.cpp`, `NativeAirbag.cpp`, Breakpad's `ExceptionHandler`, `MinidumpWriter`, `LinuxPtraceDumper`, `MinidumpFileWriter`) | signal dispositions (current and saved), handler mutex, crash context, pipe, traced threads, the file's position, size and content | construct, SignalHandler, GenerateDump, the dump process and its streams, restore, retrigger, openNativeAirbag | the kernel (signals, ptrace, clone), the file system, Android's own crash handler | several threads crash at once; a second process stops the first; either may be killed; every write may fail; 32-bit arithmetic |
| Activity results, LiveData bus, leak watcher, block and ANR monitors, connection release, crash handler, image progress, thread exercises | maps of callbacks, sticky values, watched references, … | | | see the plan |
| Skins, hot fix, plugins, build plugins, widgets, sharing, the parts of Breakpad that are not compiled | | | | reflection, byte code, user interface, vendored code: not modelled |

What makes each part correct: locks exclude and wake; a list's page number agrees
with the list and its spinner stops; every web view gets the living binder and no
callback is forgotten; a binding heals and is released; a quality is shown only
after enough samples; a crash leaves one readable report and ends; the newest log lines survive a kill; a flow
runs its nodes once and in order. `PROJECT.json` lists the hazards at their lines,
each with the properties that would catch it, or a note why none does yet.

## 2. Modules

| Module | Models | Notes |
|---|---|---|
| `Mutex` | abstract specification of a lock | one holder at a time, acquire and release |
| `AqsSync` | what both locks inherit from AQS | state, owner, and where each thread is |
| `CustomLock` | `CustomLock.java` | refines `Mutex`; the AQS queue and park permits are external |
| `CustomReenterLock` | `CustomReenterLock.java` | each access to state and owner is a step; retry at any time stands for the queue |
| `MvvmPaging` | MVVM base classes, recipe list and news list | three constants choose the screen: predefined data, whether a request carries the page number, and what retry does |
| `MainProcessConnector` | the connector and `initAidlConnect` | one thread per web view, the main thread, one binder thread per death |
| `CommandBridge` | bridge and commands | **extends and composes** `MainProcessConnector`: its steps interleave with the connector's and use its binder |
| `LoginService` | `usercenter/login` and `UserManagerService` | main thread and one binder thread per death |
| `NetSpeed` | network speed monitor and its screen | main thread and `ParseThread` |
| `DiskLogger` | `BaseLogger`, `LogHelper`, preferences | kill and restart; preferences and logger are started in either order, as the applications do |
| `TaskFlow` | `TaskFlow`, `TaskNode`, the demo's use | a call stack for taskers that call back |
| `MinidumpFile` | `MinidumpFileWriter`, the MDRVA classes | functions on a file record; the widths of `MDRVA` and `size_t` are constants |
| `MinidumpWriter` | `WriteMinidumpImpl`, `LinuxPtraceDumper` | extends `MinidumpFile`; the dump process |
| `NativeCrash` | `ExceptionHandler`, `bugly.cpp`, `NativeAirbag.cpp` | **extends and composes** `MinidumpWriter`: the threads of the crashed process interleave with the dump process, which stops them |
| `LockProofs` | theorems about the two explicit locks | extends `CustomLock` and `CustomReenterLock` |
| `MvvmPagingProofs`, `NetSpeedProofs`, `DiskLoggerProofs`, `TaskFlowProofs`, `LoginServiceProofs` | theorems about one module each | see section 5 |
| `CommandBridgeProofs` | theorems about the connection and the bridge on top of it | extends `CommandBridge` |
| `NativeCrashProofs` | theorems about the crashed process and its dump process | extends `NativeCrash` |
| `MC*` | instances for TLC | constants only; no definition is replaced |

State and actions keep the names of the code where TLA+ allows it. Each action
models a whole handler, or, where threads interleave inside one, the stretch
between two accesses to shared state. Variables marked *history* (`raced`,
`overlapped`, `doubled`, `written`, …) record what happened; no guard reads them.
They let a property say precisely in which situations the code is sound. An
operator whose comment begins with *Mutant of* is a faulty variant of the action
after it, used to show that a property can fail.

How the state corresponds to the code, module by module:

* **CustomLock.** `pc` is the line of `Sync` a thread is about to execute;
  `TryAcquireWins`/`TryAcquireLoses` are the CAS, `SetOwner`, `ReleaseState` and
  `ClearOwner` the assignments after it. `NotFirst`, `Unparked`, `GiveUp` and
  `UnparkFirst` are AQS.
* **CustomReenterLock.** `GetState`/`Decrement` and `Reenter`/`Increment` split the
  two non-atomic updates of the state; `raced` becomes true when a CAS falls
  between a release's last `setState` and the clearing of the owner. Definitions
  that would have the name of one of `CustomLock`'s begin with `Reenter`
  (`ReenterSpec`, `ReenterLock`, `ReenterExclusion`), so that one proof module can
  extend both locks.
* **MvvmPaging.** An entry of `dataList` is the page an answer carried and whether
  it came from the cache. `Load` is a request, `AnswerData`/`AnswerEmpty`/
  `AnswerFail` the three outcomes for the current model, `StaleSuccess`/`StaleFail`
  those for a model that `Recreate` has replaced. `Asked` is the page a request
  carries: the recipe list sends `pageNumber`, the news list none.
* **MainProcessConnector.** Binders are the numbers of the main process's
  incarnations. `Construct` holds the monitor while it awaits the latch;
  `Rebind`/`Rebound` are the same wait inside `binderDied`. `UnlinkThrows` is the
  `unlinkToDeath` of a binder the recipient is not linked to.
* **CommandBridge.** A call is its number; its kind (login, silent, dialog, remote)
  is the command. `bridge` and `ui` are the two threads' queues, `callbacks` what
  the page still holds, `lost` the remote calls that failed.
* **LoginService.** `login[c]` is a login's progress; `rpc[g]` the binder thread
  that handles the death of incarnation `g`. Its `binderDied` is four steps, one for
  each access to `iUserManager` (the test, `UnlinkToDeath`, `ForgetBinder`, `Rebind`),
  and comes at any time after the death, also after the next incarnation was
  announced; an `unlinkToDeath` of a binder it is not linked to ends it. `lost`
  records the incarnations whose binder the handler of an earlier death has taken
  back. `BinderRemoteServer` has three outcomes: `bindService` binds, answers false
  (`isBind` is set all the same) or throws.
* **NetSpeed.** A byte count is abstracted to the session it was read in. The
  moving average may take any of `Averages`: every value is reached from some
  sample. `addBandwidth` runs under its lock and is one step; the notification
  is a second step because the listeners' list is not under that lock.
* **DiskLogger.** A message is its number, a file the sequence of its messages, and
  its size their number. The switch is four steps, with a kill possible between any
  two. A file deleted while open is `Gone`: it takes writes and cannot be read.
* **TaskFlow.** A node is an object with an id; `callBack[n]` is the index its
  callback captured. `stack` holds the taskers that have not returned.
* **MinidumpFile.** The file is a set of parts (a record, or an element of an array),
  each with its bytes' position and length and whether it was never written, written
  by its own object, or run over by another write. Allocation, growth by pages, the
  bound check of `Copy`, the seek and the flush in `~TypedMDRVA` are those of the
  code, with arithmetic modulo the width of `size_t`. After a failed write the content
  is no longer followed (`short`).
* **MinidumpWriter.** `dpc` is the stage of the dump: list the threads, stop them one
  by one, create the file, then one step for each stream, thread, module and file of
  `/proc`, with the directory entry that follows it. In each step the file system may
  refuse to grow the file at any of its allocations, or to write.
* **NativeCrash.** `pc[t]` is where a thread is: running, with a signal to be
  delivered, in the airbag's handler, or at a stage of `SignalHandler` between two
  accesses to state that others see. `disp` is the kernel's table of handlers, with
  "system" for the one Android installs, which writes the tombstone. The mutex, the
  pipe with its two write ends, the permission to ptrace and the exit status are
  variables of their own. A thread that ptrace holds takes no step.

## 3. Runs

| Run | Shows | Bounds |
|---|---|---|
| `custom_lock` | exclusion, no lost wakeup, progress, refinement of `Mutex` | three threads: holder, first waiter and one behind it, the least with a queue that matters; no other bound, deadlock is checked |
| `reenter_lock` | outside the release's window the lock is exclusive, does not throw and counts right | two threads, nesting 3, state up to 5 (lost updates could raise it for ever) |
| `reenter_exclusion` | *violated*: two threads inside | nesting 2 |
| `paging` | page number, order of the pages and spinner of the recipe list (predefined data, requests carry the page number, retry loads more) | five requests: enough for a first page, a refresh overtaking a load, and a retry after a failure or a replacement |
| `connector` | no stuck waiter, and reconnection or a crash caused by a death, unless a death is handled late | two web views, two deaths: one may fall into the recovery from the other |
| `command_bridge` | order of answers, no forgotten callback, calls end | one web view, one death, two calls: order needs two |
| `login` | clean release and healing, unless the late handler of a death takes back the new binder; every login ends | two clicks, two deaths: the second may come while the handler of the first is late |
| `net_speed` | sampling sound unless raced, qualities earned, downloads end | averages in two bands with one inside the hysteresis (100, 160, 300 kbps), two samples to a change instead of five, one retry instead of ten, two clicks |
| `disk_logger` | newest messages readable, files bounded and in order, no message disappears on its way, queue emptied | files of two messages checked every second write, nine messages (each file is reused), two kills |
| `task_flow` | order, late reports, dispose, finish, what the listener knows, a flow ends | two nodes, one to insert, one to replace, one silent; four calls |
| `native_crash` | handshake before ptrace, the listed threads stopped while they are dumped, a report that says it was written is readable and final, an orderly death, and every crash ends | two threads (the second may crash during the first one's dump), two signals (one that an instruction raises, one that is only sent), two calls of `openNativeAirbag` with different signals, one module, one library, one failure, a kill at any point; records of their real sizes on pages of 128 bytes, so that stages cross pages by one, two and three allocations; 64-bit `size_t` (20 bits against 16 of an `MDRVA`) |
| `dump_intact` | *violated*: a dump reported as written whose thread list is overwritten | as above with `size_t` as wide as `MDRVA` (armeabi-v7a), no airbag |

The bounds limit how often the environment acts (requests, clicks, deaths, kills,
calls), never what a handler does. `CHECK_DEADLOCK FALSE` appears where the system
may rest: no more clicks, all messages written, the flow finished. `native_crash`
checks deadlock: the only rest is `Over`, both processes gone. The type invariants of
the locks are proved (section 5) and not repeated in the runs.

Every property of a passing run has a mutant of a mapped definition that breaks it.

### Findings

Two runs show a disagreement between the code and its own comment; the lines are
in `PROJECT.json`.

1. `reenter_exclusion` – in `tryRelease` the state is 0 while the releaser is still
   the owner; a CAS in that window lets two threads in.
2. `dump_intact` – in the 32-bit build the bound check of `MinidumpFileWriter::Copy`
   wraps for the invalid position. The destructor of a record whose allocation has
   failed flushes there; the refused seek looks like a success, and the record is
   written where the last write ended. The dump is nevertheless reported as written.
   The trace: `ftruncate` fails for the debug record, no library was listed before it,
   and the zeros reach from the directory's last entry into the thread list's count.

The models also contain these behaviours, which the properties of the passing runs
set apart (by a history variable or an alternative in the conclusion) instead of
denying them:

* a `binderDied` that comes after the next announcement takes back the new binder
  and waits for ever, holding the connector's monitor (`late` in
  `MainProcessConnector`);
* the same order in `ServerMocker`: the late `binderDied` forgets the new binder and
  binds a connection that is bound already, which is not announced again; logins end
  with `CODE_CONN_ERROR` until the service dies once more, and `unBinder` leaves the
  listener with the service (`lost` in `LoginService`; without this exception TLC
  refutes both `ReleaseIsClean` and `BindingHeals`);
* `CommandDispatcher` keeps the first binder: after a death every remote call is
  lost although the connector has reconnected (`lost` in `CommandBridge`);
* `ServerMocker.binderDied` returns without binding again when
  `onServiceDisconnected` came first, against its comment; the binding heals
  nevertheless because the old connection is announced the next incarnation;
* `sPreviousBytes` is read twice without a lock, so that an interval may be counted
  that is not of one session (`mixed` in `NetSpeed`);
* a logger that is configured before the preferences are initialised, as in the demo
  application, may find no file and drop every message (`early` in `DiskLogger`);
* a second report, or `revert` at the first node, makes a task flow run nodes twice
  or crash (`doubled`, `crashed` in `TaskFlow`);
* a refresh asks for the page after the last answer, because `pageNumber` is reset by
  the answer and not by the refresh (`refreshed` in `MvvmPaging`);
* the sampler's handler posts its next message after a stop has removed the messages
  (`late` and `raced` in `NetSpeed`);
* `SuspendThread` takes a thread's stop for its own signal for the stop it asked for;
  the `SIGSTOP` stays pending and stops the whole process when the dump lets go
  (`stolen`, `frozen` in `NativeCrash`);
* an airbag that is opened, or restores its one saved handler, after Breakpad has
  restored the handlers makes a dying process swallow its fault for ever (`tampered`);
  a fault that the airbag swallows recurs for ever in any case, since its handler
  returns to the faulting instruction;
* the results of most `Copy` calls are ignored, so that a dump with a failed write is
  reported as written (`short` in `MinidumpFile`).

## 4. Fairness

Weak fairness of a thread's next step stands for the scheduler: a runnable thread
runs. Beyond that:

* a request is answered (Retrofit has timeouts; an error is an answer too) –
  `MvvmPaging`;
* a process that is bound with `BIND_AUTO_CREATE` is started again –
  `MainProcessConnector`, `LoginService`;
* `NetSpeed` assumes strong fairness of the main thread: it waits for a lock that
  the `ParseThread` takes and frees once a second, so it finds it free again and
  again; a download ends because its stream ends or throws;
* `TaskFlow` assumes that a task that was started reports; that is the contract of
  `Tasker`. One node of the run is silent, and `FlowEnds` says that a flow may come
  to rest there;
* `NativeCrash`: a thread that is not stopped runs and the kernel delivers its
  signals; the dump process runs unless it waits at the pipe. The latter is written
  out (`DumpReady` infinitely often false, or infinitely many steps) because the
  enabledness of its actions is expensive to evaluate; it is the same as weak fairness
  as long as the dump process has a step whenever `DumpReady` holds, which a deadlock
  check without the two kills has confirmed. Threads are not made to crash, and
  neither process is made to be killed;
* nothing makes a user click, log, give up a lock, answer a dialog or leave, and
  nothing makes a process die, be killed or a file operation fail.

`CustomReenterLock` has no fairness and no liveness property: its queue is
abstracted.

## 5. Proofs

The theorems hold for every value of the constants that satisfies the named
assumptions: bounds, sizes and counts are naturals, and positive where the code
divides or compares by them; the markers for "nothing" are not values of what they
stand in for; `SizeMod >= RvaMod`; a screen has predefined data or refreshes on retry;
the nodes a flow starts with are finitely many, with different natural numbers as ids; `Main` is a
thread; `SIGABRT` is a signal that no instruction raises; the airbag is opened for
signals. TLC evaluates each assumption on its runs.

* `LockProofs`, for `CustomLock`: `TypeCorrect`, `Exclusion`, `Refinement`, `NoLostWakeup`.
  Exclusion follows from how a step moves the set of holders (`HoldersStep`):
  a CAS adds one to an empty set, `setState(0)` removes it, nothing else touches it.
  `Refinement` uses the same lemma: those two steps are `Acquire` and `Release`, all
  others stutter. `NoStrandedWaiter` is not inductive alone, because a step may take
  a thread out of the middle of the queue: the strengthening is
  `TypeOK /\ MutualExclusion /\ QueueOK /\ NoStrandedWaiter`, where `QueueOK` says
  that the queue lists waiting threads, each once.
* `LockProofs`, for `CustomReenterLock`: `ReenterTypeCorrect`, `WindowIsOnlyDefect`.
  The strengthening
  `OneInside` says that, while no race has happened, either the lock is free and
  everyone is outside, or exactly one thread is inside and state, owner and the
  value it has read agree with its nesting (`HolderKnows`). `ReleasersHold` is
  needed for the types: a releasing thread holds the lock at least once, so that
  its nesting does not become negative even after a race.
* `MvvmPagingProofs`: `TypeCorrect`, `PageCount`, `SpinnerHasRequest`,
  `PagesInOrder`. `PageCount` needs `FreshScreen` (a screen without cached data
  shows content only after an answer) and `ClearedIdle`; `PagesInOrder` needs
  `OneRequest` (without overlap and refresh the request in flight of a screen that
  asks for pages carries the current page number). The news list, which the run does
  not instantiate, is another setting of the three constants and covered too; since it
  asks for no page, `PagesInOrder` says nothing of it.
* `NetSpeedProofs`: `TypeCorrect`, `EarnedChange`, `SessionsSound`,
  `DownloadsSampled`. The two threads share their program counters' values, so that
  the types need `Places`: which of them each thread's code can reach.
  `ChangeIsEarned` compares a history of agreeing samples with the counter of the
  code; `PendingIsCounted` ties the two while a change is pending. `SoundUnlessRaced`
  needs `Session` (while no stop has raced a sample, there is one chain of messages
  exactly while sampling is on, and what a thread has read is of the session that is
  on); `DownloadIsSampled` needs `Covered`, which holds after a race too.
* `CommandBridgeProofs`, for the connection alone: `ConnTypeCorrect`,
  `WaitersAreWoken`. Why somebody waits is known only through the order of
  announcements: `Announced` (the binder held is the last one announced, and only
  announced incarnations are linked or have their death handled), `DeadIsDead`,
  `BoundByConstructor` and `AnnouncedIsKept`. For the bridge on top of it:
  `BridgeTypeCorrect`, `NoCallbackForgotten`, `CallbacksInOrder`, and
  `WaitersAreWokenUnderCalls`, by a step-by-step simulation: a step of the composed
  specification is a step of the connection or leaves it alone. `AnswersInCallOrder`
  speaks only of what has reached the page; it is inductive as the last stage of
  `Pipeline`: the fired answers, the UI queue, the call that blocks the thread and the
  bridge's queue are each in order, each before the next, and no call is in two.
* `DiskLoggerProofs`: `TypeCorrect`, `WrittenInOrder`, `NothingIsLost`, `DiskSound`,
  `SizesBounded`, `NewestAreOnDisk`, `FilesAreInOrder`. The three properties of the
  files follow from `Disk`: `SwitchPhase` says what each step of a switch has done, so
  that a kill there is harmless; `Sizes` bounds the open file by the writes since its
  check; `Suffix` says that the two files together are the end of the sequence of
  written messages, all of it or at least as much as one file takes. `NewestOnDisk`
  alone says nothing of the file a switch is about to delete.
* `TaskFlowProofs`: `TypeCorrect`, `QuietOnceDisposed`, `LateReportsSafe`,
  `ListenerIsTold`, `RunsSound`, `RunsAreInOrder`, `FinishIsEarned`. `FlowShape` (the
  nodes are in the order of their ids, none after dispose) rests on lemmas about
  `Rank`, by which `Sorted` stands for the order of a `SparseArray`. `OneRun` says that
  a run ends with the recent node, that only its nodes call back, and that each owes
  one report at most: without it a step cannot tell a report that moves the flow on
  from a second one. `OwnIndex` adds that the index a callback captured is the node's
  own as long as none is added below.
* `NativeCrashProofs`: `TypeCorrect`, `SnapshotIsStill`, `ReportsAreFinal`,
  `AttachIsAllowed`, `DeathsAreOrderly`. The base is `CoreInv`: `DumpShape` (the types
  of the dump process, the file with header, directory and lists at every stage, and
  the number of directory entries each stage has) and `ThreadInv` (types of the
  process, the mutex and the place of its holder, which thread has a signal). On it
  rest `HeldSoFar` (the threads before the loop's counter are stopped, also when one
  was taken out of the list), `ReportedDone` (a report that was announced is
  complete, and an existing file is never opened again), `HandInv` (the byte in the pipe implies the permission; the
  thread that started the dump waits for it) and `OrderInv`: nobody asks for the
  default action; the handlers are being installed, installed, or restored; and once
  they are restored no thread handles the first crash again. The last part fails after
  NativeAirbag has set a handler behind Breakpad's back, which is why
  `DeathIsOrderly` excepts `tampered` from its second half: with three airbags and
  three signals TLC finds a process that dies while a crash equal to the first is being
  dumped a second time.
  `DumpsAreIntact` proves `SuccessMeansIntact` under `Fits(w)`: `SizeMod` exceeds `RvaMod`
  by the largest record (true of 64-bit `size_t`), and the file is smaller than
  `kInvalidMDRVA`. Without the first the property is false (`dump_intact`). The proof
  sees a file as the places of its objects (`Cells`) and those not written yet (`Holes`).
  `Sound` says that places do not overlap and end below the position, which is within the
  size. `Allocate` puts a place behind the others; a `Copy` that covers whole places of
  its own kind takes them from `Holes` and touches nothing else (`CopyOwn`); flushing an
  object that could not be allocated writes nothing (`FlushNothing`, the step that fails
  with 32 bits). The inductive invariant `IntactInv` says of each stage (`FileSound`)
  which holes there are (`HolesKnown`: later entries of the directory, the rest of the
  stage's list, or a link map that was given up), that every entry of the directory
  points to a place (`Pointed`) and, once the crashing thread is written, that its
  registers are where the exception will say (`CrashPointed`). TLC has checked it on
  the instance of `native_crash` before it was proved. When the last stage ends no hole
  is left but in a link map, and the thirteen directory records are counted by a
  bijection.
* `LoginServiceProofs`: `TypeCorrect`, `NothingLeftBehind`. `ReleaseIsClean` speaks only
  of a screen that is gone. Its strengthening `Released` says, as long as unBinder has not
  raced a death handler, why leaving undoes everything: a screen that was told of the
  living incarnation holds its binder, or has had it taken back by the handler of an
  earlier death (`lost`); only such a screen, or a binder taken back, is registered with
  it; and after `onDestroy` no death handler is on its way to bind again (`Calm`), nor
  will one find a binder that sends it there. `Past` orders the incarnations (what was
  announced, linked or is being handled is not of the future; an incarnation whose death
  is handled is dead) and says that a bound connection has `isBind` set. No order of
  deaths, handlers and announcements is excluded.

Only model-checked:

* all liveness properties (`SomeoneGetsIn`, `SpinnerStops`, `Reconnects`, `CallsEnd`,
  `BindingHeals`, `LoginEnds`, `DownloadsEnd`, `QueueDrains`, `FlowEnds`, `CrashEnds`),
  since the prover handles neither fairness nor `ENABLED`;
* the 32-bit side of `SuccessMeansIntact`, which the run `dump_intact` refutes, and dumps
  in which a write failed, of which the property does not speak.

No module with a theorem uses a RECURSIVE operator, which the prover cannot use, and no
theorem rests on induction over data.

## 6. Limits

* The Java memory model is not modelled: accesses are sequentially consistent. The
  double-checked singletons without `volatile` (`CommandsManager`) are therefore
  outside its reach.
* Android's activity manager and binder driver are external; a death is delivered
  to a death recipient at any time after it happened, before or after the next
  announcement. To a `ServiceConnection` the system tells the death of an incarnation
  before it announces the next (`LoadedApk` does both on the main thread), which is why
  `LoginService.OnServiceConnected` waits for `disconnect` and for nothing else.
* The check in `UserManagerService.onBind` is left out: `onBind` is not called from
  another process, so `checkCallingOrSelfPermission` asks about the service's own
  process, whose manifest holds the permission. A failing `sigaction` while Breakpad's
  handlers are installed, and a `File.delete` that answers false without an exception, are not
  modelled. Calls that `TaskFlow` refuses with an exception change nothing and are
  actions that are not enabled. The logger is one process, although the demo's `:remote` process
  shares its files; a message and its line end are one write.
* Callback names of a page are taken to be distinct (`webview.js` makes them from the
  time and a random number). Dates are not modelled, nor the one `SimpleDateFormat`
  that every logging thread shares.
* Native crash capture is modelled as this application uses it: one handler that is
  never removed, no filter, a callback that answers false, a path (not a descriptor),
  no size limit, no sanitising, no principal mapping. The repair of a handler that was
  set without `SA_SIGINFO`, the work-around for file systems without `ftruncate`,
  microdumps and the out-of-process client are unreachable then. The application opens
  the airbag for SIGSEGV only; the run uses a second signal, as the interface allows.
  Android's handler is taken to end the process. The threads of the process are fixed
  while it is dumped.
* Of the 153,000 lines of C and C++ in the repository, nearly all are a vendored copy
  of Breakpad (processor, tools, symbol dumpers for four systems, unit tests) of which
  `breakpad/CMakeLists.txt` compiles twenty-one files; of these the four that carry the
  protocol are modelled, and the rest convert text, parse ELF and `/proc` or wrap
  system calls. The application's own logic is Java and Kotlin.
* User interface, parsing, formatting, other vendored and generated code are left out.

## 7. Plan

1. More of the system, in this order: the leak watcher (two maps without a lock,
   one executor per object, the reference queue), connection release, activity
   results (random request codes, loss of callbacks with the process), the LiveData
   bus (sticky values), block and ANR monitors (watch dog against the looper), the
   exercises of `ThreadAction` (deadlock and its two solutions, ordered run,
   producers and consumers), image progress, the crash handler's main loop.
2. Existing modules: several processes in `DiskLogger`.
3. Abstract specifications: an at-most-once callback for `CommandBridge`, a bounded
   log with a durable tail for `DiskLogger`, a sequencer for `TaskFlow`, each as a
   refinement.
4. Proofs: the refinements of item 3.
