-------------------------- MODULE CustomReenterLock --------------------------
(***************************************************************************)
(* The reentrant lock of study/thread/CustomReenterLock.java.  Each access *)
(* to the AQS state and to exclusiveOwnerThread is a step of its own.      *)
(*                                                                         *)
(* AQS is outside the repository.  Its queue only decides when a thread    *)
(* that lost tries again, so here a thread in lock() may retry at any      *)
(* time; CustomLock models the queue and the wakeups.  What this lock has  *)
(* in common with CustomLock by name is called Reenter... here, so that    *)
(* LockProofs can speak of both.                                           *)
(***************************************************************************)
EXTENDS AqsSync, Integers

CONSTANTS MaxDepth,  \* bound on nested lock() calls; ThreadAction.reenter nests 4
          MaxState   \* bound on the state, which lost updates could raise for ever

ASSUME BoundAssumption == MaxDepth \in Nat \ {0} /\ MaxState \in Nat \ {0}

VARIABLES
    read,    \* the value a thread got from getState(), 0 once it is used
    depth,   \* how many lock() calls of the thread are not yet released
    raced    \* history: has a CAS ever won while a release was under way?

reenterVars == <<state, owner, pc, read, depth, raced>>

\* "run" outside any call; "cas", "own", "other", "inc" inside tryAcquire;
\* "check", "get", "dec", "test", "clear" inside tryRelease; "thrown" ended by
\* an IllegalMonitorStateException.
ReenterPC == {"run", "cas", "own", "other", "inc",
              "check", "get", "dec", "test", "clear", "thrown"}

ReenterTypeOK ==
    /\ state \in Int
    /\ owner \in Threads \cup {NoThread}
    /\ pc \in [Threads -> ReenterPC]
    /\ read \in [Threads -> Int]
    /\ depth \in [Threads -> Nat]
    /\ raced \in BOOLEAN

\* A thread that has given the state back but has not finished with the owner.
Releasing(t) == pc[t] \in {"test", "clear"}

ReenterInit ==
    /\ state = 0
    /\ owner = NoThread
    /\ pc = [t \in Threads |-> "run"]
    /\ read = [t \in Threads |-> 0]
    /\ depth = [t \in Threads |-> 0]
    /\ raced = FALSE
-----------------------------------------------------------------------------
\* lock(), tryLock(), tryLock(time, unit), lockInterruptibly(): all begin with
\* tryAcquire.
ReenterLock(t) ==
    /\ pc[t] = "run" /\ depth[t] < MaxDepth /\ state < MaxState
    /\ Goto(t, "cas")
    /\ UNCHANGED <<state, owner, read, depth, raced>>

\* tryAcquire: compareAndSetState(0, 1) succeeds ...
CasWins(t) ==
    /\ pc[t] = "cas" /\ state = 0
    /\ state' = 1
    /\ raced' = (raced \/ \E u \in Threads : Releasing(u))
    /\ Goto(t, "own")
    /\ UNCHANGED <<owner, read, depth>>

\* ... and setExclusiveOwnerThread(currentThread) follows.
ReenterSetOwner(t) ==
    /\ pc[t] = "own"
    /\ owner' = t
    /\ depth' = [depth EXCEPT ![t] = @ + 1]
    /\ Goto(t, "run")
    /\ UNCHANGED <<state, read, raced>>

\* tryAcquire: the compare-and-set fails.
CasLoses(t) ==
    /\ pc[t] = "cas" /\ state # 0
    /\ Goto(t, "other")
    /\ UNCHANGED <<state, owner, read, depth, raced>>

\* Mutant of Reenter: the owner is not asked for.
ReenterUnchecked(t) ==
    /\ pc[t] = "other"
    /\ read' = [read EXCEPT ![t] = state]
    /\ Goto(t, "inc")
    /\ UNCHANGED <<state, owner, depth, raced>>

\* getExclusiveOwnerThread() is this thread: read the state to count it up.
Reenter(t) ==
    /\ pc[t] = "other" /\ owner = t
    /\ read' = [read EXCEPT ![t] = state]
    /\ Goto(t, "inc")
    /\ UNCHANGED <<state, owner, depth, raced>>

\* setState(getState() + 1)
Increment(t) ==
    /\ pc[t] = "inc"
    /\ state' = read[t] + 1
    /\ read' = [read EXCEPT ![t] = 0]
    /\ depth' = [depth EXCEPT ![t] = @ + 1]
    /\ Goto(t, "run")
    /\ UNCHANGED <<owner, raced>>

\* tryAcquire returns false: lock() will try again, the others may give up.
NotMine(t) ==
    /\ pc[t] = "other" /\ owner # t
    /\ \E l \in {"cas", "run"} : Goto(t, l)
    /\ UNCHANGED <<state, owner, read, depth, raced>>

\* unlock() by a thread that has locked: tryRelease asks for the owner.
ReenterUnlock(t) ==
    /\ pc[t] = "run" /\ depth[t] > 0
    /\ Goto(t, IF owner = t THEN "check" ELSE "thrown")
    /\ UNCHANGED <<state, owner, read, depth, raced>>

\* if (getState() == 0) throw new IllegalMonitorStateException()
CheckState(t) ==
    /\ pc[t] = "check"
    /\ Goto(t, IF state = 0 THEN "thrown" ELSE "get")
    /\ UNCHANGED <<state, owner, read, depth, raced>>

\* The getState() of setState(getState() - 1) ...
GetState(t) ==
    /\ pc[t] = "get"
    /\ read' = [read EXCEPT ![t] = state]
    /\ Goto(t, "dec")
    /\ UNCHANGED <<state, owner, depth, raced>>

\* ... and the setState.  The lock is given back here.
Decrement(t) ==
    /\ pc[t] = "dec"
    /\ state' = read[t] - 1
    /\ read' = [read EXCEPT ![t] = 0]
    /\ depth' = [depth EXCEPT ![t] = @ - 1]
    /\ Goto(t, "test")
    /\ UNCHANGED <<owner, raced>>

\* if (getState() == 0): a second read, after the lock was given back.
TestState(t) ==
    /\ pc[t] = "test"
    /\ Goto(t, IF state = 0 THEN "clear" ELSE "run")
    /\ UNCHANGED <<state, owner, read, depth, raced>>

\* setExclusiveOwnerThread(null)
ReenterClearOwner(t) ==
    /\ pc[t] = "clear"
    /\ owner' = NoThread
    /\ Goto(t, "run")
    /\ UNCHANGED <<state, read, depth, raced>>

ReenterNext == \E t \in Threads :
    \/ ReenterLock(t) \/ CasWins(t) \/ ReenterSetOwner(t) \/ CasLoses(t)
    \/ Reenter(t) \/ Increment(t) \/ NotMine(t)
    \/ ReenterUnlock(t) \/ CheckState(t) \/ GetState(t) \/ Decrement(t)
    \/ TestState(t) \/ ReenterClearOwner(t)

ReenterSpec == ReenterInit /\ [][ReenterNext]_reenterVars
-----------------------------------------------------------------------------
\* Threads between a successful tryAcquire and their last setState in tryRelease.
Inside == {t \in Threads : depth[t] > 0}

\* Exclusion, what the class comment promises ("a reentrant lock built on AQS"):
\* no two threads are between lock() and unlock() at the same time.
ReenterExclusion == \A t, u \in Inside : t = u

\* unlock() by a thread that holds the lock never throws
\* IllegalMonitorStateException.
NoThrow == \A t \in Threads : pc[t] # "thrown"

\* The window between the last setState and setExclusiveOwnerThread(null) is the
\* only defect: as long as no CAS of another thread falls into it, the lock is
\* exclusive, a holder's unlock never throws, and the count equals the holder's
\* nesting.
SafeOutsideWindow ==
    ~raced => /\ ReenterExclusion
              /\ NoThrow
              /\ \A t \in Inside : pc[t] = "run" => owner = t /\ state = depth[t]
=============================================================================
