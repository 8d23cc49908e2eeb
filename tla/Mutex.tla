------------------------------- MODULE Mutex --------------------------------
(***************************************************************************)
(* What an exclusive lock promises: at most one holder; a free lock is     *)
(* taken by one thread; only the holder gives it back.                     *)
(***************************************************************************)
CONSTANTS Threads, NoThread

VARIABLE holder

Init == holder = NoThread

Acquire(t) == holder = NoThread /\ holder' = t

Release(t) == holder = t /\ holder' = NoThread

Next == \E t \in Threads : Acquire(t) \/ Release(t)

Spec == Init /\ [][Next]_holder
=============================================================================
