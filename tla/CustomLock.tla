----------------------------- MODULE CustomLock -----------------------------
(***************************************************************************)
(* The exclusive lock of study/thread/CustomLock.java: a Sync built on     *)
(* java.util.concurrent's AbstractQueuedSynchronizer (AQS).                *)
(*                                                                         *)
(* Every volatile access and every compare-and-set of Sync is a step of    *)
(* its own, so that the steps of two threads interleave inside tryAcquire  *)
(* and tryRelease.  AQS itself is outside the repository: it appears as    *)
(* the wait queue, and as the park permits its release() hands out.        *)
(***************************************************************************)
EXTENDS AqsSync, Naturals, Sequences, FiniteSets

VARIABLES
    queue,   \* AQS wait queue, first waiter first
    permit,  \* threads LockSupport.unpark has given a permit
    timed    \* threads whose call may give up: a deadline or an interrupt ends it

vars == <<state, owner, queue, permit, timed, pc>>

\* "idle"     outside the lock           "own"      CAS won, owner not yet set
\* "cas"      in lock(), before the CAS  "ownTry"   the same inside tryLock()
\* "try"      in tryLock(), before CAS   "held"     between lock and unlock
\* "queued"   in the wait queue          "relState" in unlock(), before setState
\* "park"     about to park              "relOwner" state is 0, owner not cleared
\* "wake"     released, to unpark the first waiter
PC == {"idle", "cas", "try", "queued", "park", "own", "held",
       "relState", "relOwner", "wake"}

TypeOK ==
    /\ state \in {0, 1}
    /\ owner \in Threads \cup {NoThread}
    /\ queue \in Seq(Threads)
    /\ permit \in SUBSET Threads
    /\ timed \in SUBSET Threads
    /\ pc \in [Threads -> PC]

\* The sequence q with its i-th element taken out.
Without(q, i) == SubSeq(q, 1, i - 1) \o SubSeq(q, i + 1, Len(q))

Init ==
    /\ state = 0
    /\ owner = NoThread
    /\ queue = <<>>
    /\ permit = {}
    /\ timed = {}
    /\ pc = [t \in Threads |-> "idle"]
-----------------------------------------------------------------------------
\* lock(): enters sync.acquire(1).
Lock(t) ==
    /\ pc[t] = "idle"
    /\ timed' = timed \ {t}
    /\ Goto(t, "cas")
    /\ UNCHANGED <<state, owner, queue, permit>>

\* tryLock(time, unit) and lockInterruptibly(): acquire that may be abandoned.
LockAbandonable(t) ==
    /\ pc[t] = "idle"
    /\ timed' = timed \cup {t}
    /\ Goto(t, "cas")
    /\ UNCHANGED <<state, owner, queue, permit>>

\* tryLock(): one tryAcquire, no queueing.
TryLock(t) ==
    /\ pc[t] = "idle"
    /\ Goto(t, "try")
    /\ UNCHANGED <<state, owner, queue, permit, timed>>

\* Mutant of TryAcquireWins: the state is set without comparing it first.
BlindAcquire(t) ==
    /\ pc[t] \in {"cas", "try"}
    /\ state' = 1
    /\ Goto(t, "own")
    /\ UNCHANGED <<owner, queue, permit, timed>>

\* tryAcquire: compareAndSetState(0, 1) succeeds, from any of its callers.  A
\* waiter that gets in leaves the queue (AQS setHead).
TryAcquireWins(t) ==
    /\ \/ pc[t] \in {"cas", "try"} /\ UNCHANGED queue
       \/ pc[t] = "queued" /\ queue # <<>> /\ Head(queue) = t /\ queue' = Tail(queue)
    /\ state = 0
    /\ state' = 1
    /\ Goto(t, "own")
    /\ UNCHANGED <<owner, permit, timed>>

\* tryAcquire: the CAS fails.  acquire(1) enqueues the thread, a waiter goes to
\* park, and tryLock() returns false.
TryAcquireLoses(t) ==
    /\ state = 1
    /\ \/ pc[t] = "cas" /\ queue' = Append(queue, t) /\ Goto(t, "queued")
       \/ /\ pc[t] = "queued" /\ queue # <<>> /\ Head(queue) = t
          /\ Goto(t, "park") /\ UNCHANGED queue
       \/ pc[t] = "try" /\ Goto(t, "idle") /\ UNCHANGED queue
    /\ UNCHANGED <<state, owner, permit, timed>>

\* AQS: a waiter that is not first has nothing to try and parks.
NotFirst(t) ==
    /\ pc[t] = "queued" /\ queue # <<>> /\ Head(queue) # t
    /\ Goto(t, "park")
    /\ UNCHANGED <<state, owner, queue, permit, timed>>

\* LockSupport.park returns once there is a permit, which it consumes.
Unparked(t) ==
    /\ pc[t] = "park" /\ t \in permit
    /\ permit' = permit \ {t}
    /\ Goto(t, "queued")
    /\ UNCHANGED <<state, owner, queue, timed>>

\* AQS cancelAcquire: the deadline passes, or the thread is interrupted, while it
\* waits.  A waiter that leaves the front wakes the one behind it.
GiveUp(t) ==
    /\ pc[t] \in {"queued", "park"} /\ t \in timed
    /\ \E i \in 1..Len(queue) :
          /\ queue[i] = t
          /\ queue' = Without(queue, i)
          /\ permit' = (permit \ {t}) \cup
                         IF i = 1 /\ Len(queue) > 1 THEN {queue[2]} ELSE {}
    /\ Goto(t, "idle")
    /\ UNCHANGED <<state, owner, timed>>

\* setExclusiveOwnerThread(currentThread); tryAcquire returns true.
SetOwner(t) ==
    /\ pc[t] = "own"
    /\ owner' = t
    /\ Goto(t, "held")
    /\ UNCHANGED <<state, queue, permit, timed>>

\* unlock(): the state check of tryRelease passes.
Unlock(t) ==
    /\ pc[t] = "held"
    /\ state # 0
    /\ Goto(t, "relState")
    /\ UNCHANGED <<state, owner, queue, permit, timed>>

\* setState(0): from here another thread's CAS can succeed.
ReleaseState(t) ==
    /\ pc[t] = "relState"
    /\ state' = 0
    /\ Goto(t, "relOwner")
    /\ UNCHANGED <<owner, queue, permit, timed>>

\* Mutant of ClearOwner: tryRelease returns false, so release() wakes nobody.
ClearOwnerReturnsFalse(t) ==
    /\ pc[t] = "relOwner"
    /\ owner' = NoThread
    /\ Goto(t, "idle")
    /\ UNCHANGED <<state, queue, permit, timed>>

\* setExclusiveOwnerThread(null), which may erase the next holder's name.
ClearOwner(t) ==
    /\ pc[t] = "relOwner"
    /\ owner' = NoThread
    /\ Goto(t, "wake")
    /\ UNCHANGED <<state, queue, permit, timed>>

\* AQS release: unparks the first waiter.
UnparkFirst(t) ==
    /\ pc[t] = "wake"
    /\ permit' = IF queue = <<>> THEN permit ELSE permit \cup {Head(queue)}
    /\ Goto(t, "idle")
    /\ UNCHANGED <<state, owner, queue, timed>>

Step(t) ==
    \/ TryAcquireWins(t) \/ TryAcquireLoses(t) \/ NotFirst(t) \/ Unparked(t)
    \/ SetOwner(t) \/ Unlock(t) \/ ReleaseState(t) \/ ClearOwner(t)
    \/ UnparkFirst(t)

Next == \E t \in Threads :
    Lock(t) \/ LockAbandonable(t) \/ TryLock(t) \/ GiveUp(t) \/ Step(t)

\* A thread inside lock, tryLock or unlock, or inside its critical section,
\* keeps running; nothing makes an idle thread call lock().
Fairness == \A t \in Threads : WF_vars(Step(t))

Spec == Init /\ [][Next]_vars /\ Fairness
-----------------------------------------------------------------------------
\* The threads the lock considers in: tryAcquire has succeeded and tryRelease
\* has not yet given the state back.
Holders == {t \in Threads : pc[t] \in {"own", "held", "relState"}}

\* Exclusion: however the steps of tryAcquire and tryRelease interleave, two
\* threads are never both past lock() and before unlock()'s setState(0), and the
\* state says 1 exactly while someone is in.
MutualExclusion ==
    /\ \A t, u \in Holders : t = u
    /\ state = 1 <=> Holders # {}

\* No lost wakeup: when the lock is free and threads are queued, the first of
\* them is about to retry or has a permit to, or a releasing thread is still on
\* its way to unpark it.  tryRelease must return true for this.
NoStrandedWaiter ==
    state = 0 /\ queue # <<>> =>
        \/ pc[Head(queue)] = "queued"
        \/ Head(queue) \in permit
        \/ \E t \in Threads : pc[t] \in {"relOwner", "wake"}

\* The wait queue lists each waiting thread once, and only waiting threads: what
\* NoStrandedWaiter needs to be inductive.
QueueOK ==
    /\ \A i \in 1..Len(queue) : pc[queue[i]] \in {"queued", "park"}
    /\ \A i, j \in 1..Len(queue) : queue[i] = queue[j] => i = j

\* Progress of the lock as a whole: when some thread waits in the queue, some
\* thread gets in or the queue drains (waiters that may give up did).  A given
\* waiter may starve: acquire(1) barges ahead of the queue.
SomeoneGetsIn == queue # <<>> ~> (\E t \in Threads : pc[t] = "held") \/ queue = <<>>

\* The lock implements the abstract mutex: the holder is whoever won the CAS.
Abstract == INSTANCE Mutex WITH
    holder <- IF Holders = {} THEN NoThread ELSE CHOOSE t \in Holders : TRUE

\* CustomLock implements Mutex.
ImplementsMutex == Abstract!Spec
=============================================================================
