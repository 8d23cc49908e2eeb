------------------------------ MODULE AqsSync -------------------------------
(***************************************************************************)
(* What the Sync of both explicit locks of study/thread inherits from      *)
(* java.util.concurrent's AbstractQueuedSynchronizer (AQS), which is       *)
(* outside the repository: the state word and the exclusive owner.  The    *)
(* threads that use a lock are at a place in the lock's code.              *)
(***************************************************************************)
CONSTANTS Threads,  \* the threads that share the lock
          NoThread  \* a null Thread reference

ASSUME NoThreadAssumption == NoThread \notin Threads

VARIABLES
    state,   \* AQS state: 0 free, otherwise held
    owner,   \* AQS exclusiveOwnerThread
    pc       \* where each thread is

Goto(t, l) == pc' = [pc EXCEPT ![t] = l]
=============================================================================
