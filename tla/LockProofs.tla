----------------------------- MODULE LockProofs -----------------------------
(***************************************************************************)
(* Proofs about the two explicit locks: CustomLock, for every set of       *)
(* threads, and CustomReenterLock, for every set of threads, any nesting   *)
(* and any bound on the state.  AqsSync's state, owner and pc are those of *)
(* the one lock in the theorems about Spec, of the other in those about    *)
(* ReenterSpec.                                                            *)
(***************************************************************************)
EXTENDS CustomLock, CustomReenterLock, SequenceTheorems, TLAPS
-----------------------------------------------------------------------------
(* CustomLock. *)

\* Taking one element out of a sequence keeps the others, in order.
LEMMA WithoutProperties ==
  ASSUME NEW S, NEW q \in Seq(S), NEW i \in 1..Len(q)
  PROVE  /\ Without(q, i) \in Seq(S)
         /\ Len(Without(q, i)) = Len(q) - 1
         /\ \A k \in 1..(Len(q) - 1) :
              Without(q, i)[k] = IF k < i THEN q[k] ELSE q[k + 1]
<1> DEFINE a == SubSeq(q, 1, i - 1)
           b == SubSeq(q, i + 1, Len(q))
<1>0. Len(q) \in Nat
  BY LenProperties
<1>1. /\ a \in Seq(S) /\ Len(a) = i - 1
      /\ \A k \in 1..(i - 1) : a[k] = q[k]
  BY <1>0, SubSeqProperties
<1>2. /\ b \in Seq(S) /\ Len(b) = Len(q) - i
      /\ \A k \in 1..(Len(q) - i) : b[k] = q[i + k]
  BY <1>0, SubSeqProperties
<1> HIDE DEF a, b
<1>3. /\ a \o b \in Seq(S) /\ Len(a \o b) = Len(a) + Len(b)
      /\ \A k \in 1..(Len(a) + Len(b)) :
           (a \o b)[k] = IF k <= Len(a) THEN a[k] ELSE b[k - Len(a)]
  BY <1>1, <1>2, ConcatProperties
<1>4. \A k \in 1..(Len(q) - 1) : (a \o b)[k] = IF k < i THEN q[k] ELSE q[k + 1]
  <2> SUFFICES ASSUME NEW k \in 1..(Len(q) - 1)
               PROVE  (a \o b)[k] = IF k < i THEN q[k] ELSE q[k + 1]
    OBVIOUS
  <2>1. CASE k < i
    BY <1>0, <1>1, <1>2, <1>3, <2>1
  <2>2. CASE ~(k < i)
    <3>1. k - (i - 1) \in 1..(Len(q) - i) /\ i + (k - (i - 1)) = k + 1
      BY <1>0, <2>2
    <3>2. (a \o b)[k] = b[k - (i - 1)]
      BY <1>0, <1>1, <1>2, <1>3, <2>2
    <3>3. b[k - (i - 1)] = q[i + (k - (i - 1))]
      BY <1>2, <3>1
    <3>4. QED BY <2>2, <3>1, <3>2, <3>3
  <2>3. QED BY <2>1, <2>2
<1>5. Len(a \o b) = Len(q) - 1
  BY <1>0, <1>1, <1>2, <1>3
<1>6. Without(q, i) = a \o b
  BY DEF a, b, Without
<1>7. QED BY <1>3, <1>4, <1>5, <1>6

\* What every step of one thread does to the program counters and the typing.
LEMMA TypeStep == TypeOK /\ [Next]_vars => TypeOK'
<1> SUFFICES ASSUME TypeOK, [Next]_vars PROVE TypeOK'
  OBVIOUS
<1> USE DEF TypeOK, PC, Goto
<1>1. CASE UNCHANGED vars
  BY <1>1 DEF vars
<1>2. ASSUME NEW t \in Threads, GiveUp(t) PROVE TypeOK'
  <2>1. PICK i \in 1..Len(queue) :
          /\ queue[i] = t
          /\ queue' = Without(queue, i)
          /\ permit' = (permit \ {t}) \cup
                         IF i = 1 /\ Len(queue) > 1 THEN {queue[2]} ELSE {}
    BY <1>2 DEF GiveUp
  <2>2. queue' \in Seq(Threads)
    BY <2>1, WithoutProperties
  <2>3. permit' \in SUBSET Threads
    <3>1. Len(queue) > 1 => queue[2] \in Threads
      BY ElementOfSeq
    <3>2. QED BY <2>1, <3>1
  <2>4. QED BY <1>2, <2>2, <2>3 DEF GiveUp
<1>3. ASSUME NEW t \in Threads, Lock(t) \/ LockAbandonable(t) \/ TryLock(t)
      PROVE TypeOK'
  BY <1>3 DEF Lock, LockAbandonable, TryLock
<1>4. ASSUME NEW t \in Threads, TryAcquireWins(t) PROVE TypeOK'
  <2>1. queue' \in Seq(Threads)
    BY <1>4, HeadTailProperties DEF TryAcquireWins
  <2>2. QED BY <1>4, <2>1 DEF TryAcquireWins
<1>5. ASSUME NEW t \in Threads, TryAcquireLoses(t) PROVE TypeOK'
  <2>1. queue' \in Seq(Threads)
    BY <1>5, AppendProperties DEF TryAcquireLoses
  <2>2. QED BY <1>5, <2>1 DEF TryAcquireLoses
<1>6. ASSUME NEW t \in Threads, UnparkFirst(t) PROVE TypeOK'
  <2>1. queue # <<>> => Head(queue) \in Threads
    BY HeadTailProperties
  <2>2. QED BY <1>6, <2>1 DEF UnparkFirst
<1>7. ASSUME NEW t \in Threads,
             NotFirst(t) \/ Unparked(t) \/ SetOwner(t) \/ Unlock(t)
             \/ ReleaseState(t) \/ ClearOwner(t)
      PROVE TypeOK'
  BY <1>7 DEF NotFirst, Unparked, SetOwner, Unlock, ReleaseState, ClearOwner
<1>8. QED
  BY <1>1, <1>2, <1>3, <1>4, <1>5, <1>6, <1>7 DEF Next, Step

\* CustomLock keeps its types: the state stays 0 or 1, every queue entry is a
\* thread.
THEOREM TypeCorrect == Spec => []TypeOK
<1>1. Init => TypeOK
  BY EmptySeq DEF Init, TypeOK, PC
<1>2. QED BY <1>1, TypeStep, PTL DEF Spec

\* How a step moves the set of holders, which is all that exclusion is about:
\* a winning CAS on a free lock adds one, setState(0) by a holder removes it, and
\* every other step leaves both the holders and the state alone.
LEMMA HoldersStep ==
  ASSUME TypeOK, [Next]_vars
  PROVE  \/ \E t \in Threads : /\ state = 0 /\ state' = 1
                               /\ Holders' = Holders \cup {t}
         \/ \E t \in Holders : state' = 0 /\ Holders' = Holders \ {t}
         \/ state' = state /\ Holders' = Holders
<1> USE DEF TypeOK, PC, Goto, Holders
<1>1. CASE UNCHANGED vars
  BY <1>1 DEF vars
<1>2. ASSUME NEW t \in Threads, TryAcquireWins(t)
      PROVE state = 0 /\ state' = 1 /\ Holders' = Holders \cup {t}
  BY <1>2 DEF TryAcquireWins
<1>3. ASSUME NEW t \in Threads, ReleaseState(t)
      PROVE t \in Holders /\ state' = 0 /\ Holders' = Holders \ {t}
  BY <1>3 DEF ReleaseState
<1>4. ASSUME NEW t \in Threads,
             \/ Lock(t) \/ LockAbandonable(t) \/ TryLock(t) \/ GiveUp(t)
             \/ TryAcquireLoses(t) \/ NotFirst(t) \/ Unparked(t)
             \/ ClearOwner(t) \/ UnparkFirst(t)
      PROVE state' = state /\ Holders' = Holders
  BY <1>4 DEF Lock, LockAbandonable, TryLock, GiveUp, TryAcquireLoses, NotFirst,
              Unparked, ClearOwner, UnparkFirst
<1>5. ASSUME NEW t \in Threads, SetOwner(t) \/ Unlock(t)
      PROVE state' = state /\ Holders' = Holders
  BY <1>5 DEF SetOwner, Unlock
<1>6. QED
  BY <1>1, <1>2, <1>3, <1>4, <1>5 DEF Next, Step

LEMMA ExclusionStep == TypeOK /\ MutualExclusion /\ [Next]_vars => MutualExclusion'
<1> SUFFICES ASSUME TypeOK, MutualExclusion, [Next]_vars PROVE MutualExclusion'
  OBVIOUS
<1>1. state \in {0, 1}
  BY DEF TypeOK
<1>2. QED BY <1>1, HoldersStep DEF MutualExclusion

\* Exclusion of CustomLock for any set of threads: whatever the interleaving of
\* tryAcquire, tryRelease, timeouts and wakeups, at most one thread is in.
THEOREM Exclusion == Spec => []MutualExclusion
<1>1. Init => MutualExclusion
  BY DEF Init, MutualExclusion, Holders
<1>2. QED BY <1>1, TypeCorrect, ExclusionStep, PTL DEF Spec

\* CustomLock implements the abstract mutex: winning the CAS is Acquire,
\* setState(0) is Release, and every other step stutters.
THEOREM Refinement == Spec => ImplementsMutex
<1> DEFINE h == IF Holders = {} THEN NoThread ELSE CHOOSE t \in Holders : TRUE
<1>1. Init => Abstract!Init
  BY DEF Init, Holders, Abstract!Init
<1>2. TypeOK /\ MutualExclusion /\ [Next]_vars => [Abstract!Next]_h
  <2> SUFFICES ASSUME TypeOK, MutualExclusion, [Next]_vars
               PROVE [Abstract!Next]_h
    OBVIOUS
  <2>1. ASSUME NEW t \in Threads,
               state = 0, state' = 1, Holders' = Holders \cup {t}
        PROVE  Abstract!Acquire(t)
    <3>1. Holders = {}
      BY <2>1 DEF MutualExclusion
    <3>2. Holders' = {t}
      BY <2>1, <3>1
    <3>3. h = NoThread /\ h' = t
      BY <3>1, <3>2
    <3>4. QED BY <3>3 DEF Abstract!Acquire
  <2>2. ASSUME NEW t \in Holders, state' = 0, Holders' = Holders \ {t}
        PROVE  t \in Threads /\ Abstract!Release(t)
    <3>1. Holders = {t}
      BY <2>2 DEF MutualExclusion
    <3>2. Holders' = {}
      BY <2>2, <3>1
    <3>3. h = t /\ h' = NoThread
      BY <3>1, <3>2
    <3>4. QED BY <3>3 DEF Abstract!Release, Holders
  <2>3. ASSUME state' = state, Holders' = Holders
        PROVE  h' = h
    BY <2>3
  <2>4. QED BY <2>1, <2>2, <2>3, HoldersStep DEF Abstract!Next
<1>3. QED
  BY <1>1, <1>2, TypeCorrect, Exclusion, PTL DEF Spec, ImplementsMutex, Abstract!Spec

\* The queue stays a duplicate-free list of waiting threads.
LEMMA QueueStep == TypeOK /\ QueueOK /\ [Next]_vars => QueueOK'
<1> SUFFICES ASSUME TypeOK, QueueOK, [Next]_vars PROVE QueueOK'
  OBVIOUS
<1> USE DEF TypeOK, PC, Goto, QueueOK
<1>0. \A i \in 1..Len(queue) : queue[i] \in Threads
  BY ElementOfSeq
<1>1. CASE UNCHANGED vars
  BY <1>1 DEF vars
<1>2. ASSUME NEW t \in Threads, GiveUp(t) PROVE QueueOK'
  <2>1. PICK i \in 1..Len(queue) :
          /\ queue[i] = t
          /\ queue' = Without(queue, i)
    BY <1>2 DEF GiveUp
  <2>2. /\ Len(queue') = Len(queue) - 1
        /\ \A k \in 1..(Len(queue) - 1) :
             queue'[k] = IF k < i THEN queue[k] ELSE queue[k + 1]
    <3>1. queue \in Seq(Threads)
      OBVIOUS
    <3> HIDE DEF TypeOK, QueueOK
    <3>2. QED BY <2>1, <3>1, WithoutProperties
  <2>3. pc' = [pc EXCEPT ![t] = "idle"]
    BY <1>2 DEF GiveUp
  <2>4. ASSUME NEW k \in 1..Len(queue')
        PROVE  \E m \in 1..Len(queue) :
                 queue'[k] = queue[m] /\ m # i /\ m = (IF k < i THEN k ELSE k + 1)
    BY <2>2, LenProperties
  <2>5. ASSUME NEW k \in 1..Len(queue') PROVE pc'[queue'[k]] \in {"queued", "park"}
    <3>1. PICK m \in 1..Len(queue) : queue'[k] = queue[m] /\ m # i
      BY <2>4
    <3>2. queue[m] \in Threads /\ queue[m] # t
      BY <1>0, <2>1, <3>1
    <3>3. pc'[queue[m]] = pc[queue[m]]
      BY <2>3, <3>2
    <3> QED BY <3>1, <3>3
  <2>6. ASSUME NEW j \in 1..Len(queue'), NEW k \in 1..Len(queue'), queue'[j] = queue'[k]
        PROVE  j = k
    <3>1. PICK m \in 1..Len(queue) : queue'[j] = queue[m] /\ m = (IF j < i THEN j ELSE j + 1)
      BY <2>4
    <3>2. PICK n \in 1..Len(queue) : queue'[k] = queue[n] /\ n = (IF k < i THEN k ELSE k + 1)
      BY <2>4
    <3>3. m = n
      BY <2>6, <3>1, <3>2
    <3> QED BY <3>1, <3>2, <3>3
  <2>7. QED BY <2>5, <2>6
<1>3. ASSUME NEW t \in Threads,
             \/ Lock(t) \/ LockAbandonable(t) \/ TryLock(t) \/ NotFirst(t)
             \/ Unparked(t)
      PROVE QueueOK'
  BY <1>0, <1>3 DEF Lock, LockAbandonable, TryLock, NotFirst, Unparked
<1>4. ASSUME NEW t \in Threads,
             SetOwner(t) \/ Unlock(t) \/ ReleaseState(t) \/ ClearOwner(t)
             \/ UnparkFirst(t)
      PROVE QueueOK'
  BY <1>0, <1>4 DEF SetOwner, Unlock, ReleaseState, ClearOwner, UnparkFirst
<1>5. ASSUME NEW t \in Threads, TryAcquireWins(t) PROVE QueueOK'
  <2>1. CASE pc[t] \in {"cas", "try"} /\ UNCHANGED queue
    BY <1>0, <1>5, <2>1 DEF TryAcquireWins
  <2>2. CASE queue # <<>> /\ Head(queue) = t /\ queue' = Tail(queue)
    <3>1. /\ Len(queue') = Len(queue) - 1 /\ queue[1] = t
          /\ \A k \in 1..Len(queue') : queue'[k] = queue[k + 1]
      BY <2>2, HeadTailProperties
    <3>2. pc' = [pc EXCEPT ![t] = "own"]
      BY <1>5 DEF TryAcquireWins
    <3>3. Len(queue) \in Nat /\ Len(queue) > 0
      BY <2>2, EmptySeq, LenProperties
    <3>4. QED BY <1>0, <3>1, <3>2, <3>3
  <2>3. QED BY <1>5, <2>1, <2>2 DEF TryAcquireWins
<1>6. ASSUME NEW t \in Threads, TryAcquireLoses(t) PROVE QueueOK'
  <2>1. CASE pc[t] = "cas" /\ queue' = Append(queue, t) /\ Goto(t, "queued")
    <3>1. /\ Len(queue') = Len(queue) + 1 /\ queue'[Len(queue) + 1] = t
          /\ \A k \in 1..Len(queue) : queue'[k] = queue[k]
      BY <2>1, AppendProperties
    <3>2. \A k \in 1..Len(queue) : queue[k] # t
      BY <2>1
    <3>3. QED BY <1>0, <2>1, <3>1, <3>2, LenProperties
  <2>2. CASE pc[t] # "cas"
    BY <1>0, <1>6, <2>2 DEF TryAcquireLoses
  <2>3. QED BY <1>6, <2>1, <2>2 DEF TryAcquireLoses
<1>7. QED
  BY <1>1, <1>2, <1>3, <1>4, <1>5, <1>6 DEF Next, Step

LEMMA StrandedStep ==
  TypeOK /\ MutualExclusion /\ QueueOK /\ NoStrandedWaiter /\ [Next]_vars
    => NoStrandedWaiter'
<1> SUFFICES ASSUME TypeOK, MutualExclusion, QueueOK, NoStrandedWaiter, [Next]_vars
             PROVE NoStrandedWaiter'
  OBVIOUS
<1> USE DEF TypeOK, PC, Goto, NoStrandedWaiter
<1>0. queue # <<>> => /\ Len(queue) \in Nat /\ Len(queue) > 0
                      /\ Head(queue) = queue[1] /\ Head(queue) \in Threads
                      /\ pc[Head(queue)] \in {"queued", "park"}
  BY HeadTailProperties, EmptySeq, LenProperties DEF QueueOK
<1>1. CASE UNCHANGED vars
  BY <1>1 DEF vars
<1>2. ASSUME NEW t \in Threads, GiveUp(t) PROVE NoStrandedWaiter'
  <2>1. PICK i \in 1..Len(queue) :
          /\ queue[i] = t
          /\ queue' = Without(queue, i)
          /\ permit' = (permit \ {t}) \cup
                         IF i = 1 /\ Len(queue) > 1 THEN {queue[2]} ELSE {}
    BY <1>2 DEF GiveUp
  <2>2. /\ queue' \in Seq(Threads) /\ Len(queue') = Len(queue) - 1
        /\ \A k \in 1..(Len(queue) - 1) :
             queue'[k] = IF k < i THEN queue[k] ELSE queue[k + 1]
    BY <2>1, WithoutProperties
  <2>3. pc' = [pc EXCEPT ![t] = "idle"] /\ state' = state /\ pc[t] \in {"queued", "park"}
    BY <1>2 DEF GiveUp
  <2>4. Len(queue) \in Nat /\ Len(queue) > 0 /\ queue # <<>>
    BY <2>1, LenProperties, EmptySeq
  <2>5. CASE i = 1
    <3>1. queue' # <<>> => /\ Len(queue) > 1 /\ Head(queue') = queue[2]
                           /\ queue[2] \in permit'
      BY <2>1, <2>2, <2>4, <2>5, HeadTailProperties, EmptySeq
    <3>2. QED BY <3>1
  <2>6. CASE i # 1
    <3>1. /\ Head(queue') = queue[1] /\ queue[1] # t /\ queue[1] \in Threads
          /\ Head(queue) = queue[1]
      BY <1>0, <2>1, <2>2, <2>4, <2>6, HeadTailProperties, EmptySeq DEF QueueOK
    <3>2. permit' = permit \ {t}
      BY <2>1, <2>6
    <3>3. QED BY <1>0, <2>3, <2>4, <3>1, <3>2
  <2>7. QED BY <2>5, <2>6
<1>3. ASSUME NEW t \in Threads,
             \/ Lock(t) \/ LockAbandonable(t) \/ TryLock(t) \/ NotFirst(t)
             \/ Unparked(t)
      PROVE NoStrandedWaiter'
  BY <1>0, <1>3 DEF Lock, LockAbandonable, TryLock, NotFirst, Unparked
<1>4. ASSUME NEW t \in Threads,
             SetOwner(t) \/ Unlock(t) \/ ReleaseState(t) \/ ClearOwner(t)
      PROVE NoStrandedWaiter'
  BY <1>0, <1>4 DEF SetOwner, Unlock, ReleaseState, ClearOwner
<1>5. ASSUME NEW t \in Threads, UnparkFirst(t) PROVE NoStrandedWaiter'
  BY <1>0, <1>5 DEF UnparkFirst
<1>6. ASSUME NEW t \in Threads, TryAcquireWins(t) PROVE NoStrandedWaiter'
  BY <1>6 DEF TryAcquireWins
<1>7. ASSUME NEW t \in Threads, TryAcquireLoses(t) PROVE NoStrandedWaiter'
  BY <1>7 DEF TryAcquireLoses
<1>8. QED
  BY <1>1, <1>2, <1>3, <1>4, <1>5, <1>6, <1>7 DEF Next, Step

\* No lost wakeup in CustomLock, for any number of threads and however calls time
\* out: a free lock never has a first waiter that nobody is going to wake.
THEOREM NoLostWakeup == Spec => []NoStrandedWaiter
<1> DEFINE IInv == TypeOK /\ MutualExclusion /\ QueueOK /\ NoStrandedWaiter
<1>1. Init => IInv
  BY EmptySeq, LenProperties
  DEF Init, TypeOK, PC, MutualExclusion, Holders, QueueOK, NoStrandedWaiter
<1>2. IInv /\ [Next]_vars => IInv'
  BY TypeStep, ExclusionStep, QueueStep, StrandedStep
<1>3. IInv => NoStrandedWaiter
  OBVIOUS
<1>4. QED BY <1>1, <1>2, <1>3, PTL DEF Spec
-----------------------------------------------------------------------------
(* CustomReenterLock. *)

\* A thread on its way through tryRelease still has a lock() to release.
ReleasersHold == \A t \in Threads : pc[t] \in {"check", "get", "dec"} => depth[t] > 0

\* A thread that neither holds the lock nor touches its state.
Outside(t) == pc[t] \in {"run", "cas", "other"} /\ depth[t] = 0

\* What the thread that is inside the lock knows, by where it is.
HolderKnows(t) ==
    \/ pc[t] = "own" /\ state = 1 /\ owner = NoThread /\ depth[t] = 0
    \/ /\ pc[t] \in {"run", "cas", "other", "check", "get"}
       /\ depth[t] > 0 /\ owner = t /\ state = depth[t]
    \/ /\ pc[t] \in {"inc", "dec"}
       /\ depth[t] > 0 /\ owner = t /\ state = depth[t] /\ read[t] = state
    \/ pc[t] = "test" /\ owner = t /\ state = depth[t]
    \/ pc[t] = "clear" /\ owner = t /\ state = 0 /\ depth[t] = 0

\* Outside the window the lock is free and everyone outside, or one thread is in
\* it and everyone else outside.
OneInside ==
    \/ state = 0 /\ owner = NoThread /\ \A u \in Threads : Outside(u)
    \/ \E t \in Threads : HolderKnows(t) /\ \A u \in Threads \ {t} : Outside(u)

\* Every step keeps the types and the releasing threads' claim.
LEMMA ReenterTypeStep ==
    ReenterTypeOK /\ ReleasersHold /\ [ReenterNext]_reenterVars => ReenterTypeOK' /\ ReleasersHold'
  <1> SUFFICES ASSUME ReenterTypeOK, ReleasersHold, [ReenterNext]_reenterVars
               PROVE  ReenterTypeOK' /\ ReleasersHold'
    OBVIOUS
  <1> USE DEF ReenterTypeOK, ReleasersHold, ReenterPC, Goto
  <1>1. CASE UNCHANGED reenterVars
    BY <1>1 DEF reenterVars
  <1>2. ASSUME NEW t \in Threads,
               \/ ReenterLock(t) \/ CasLoses(t) \/ NotMine(t)
               \/ ReenterUnlock(t) \/ CheckState(t) \/ TestState(t)
        PROVE  ReenterTypeOK' /\ ReleasersHold'
    BY <1>2 DEF ReenterLock, CasLoses, NotMine, ReenterUnlock, CheckState, TestState
  <1>3. ASSUME NEW t \in Threads, CasWins(t) PROVE ReenterTypeOK' /\ ReleasersHold'
    <2>1. raced' \in BOOLEAN
      BY <1>3, Zenon DEF CasWins
    <2> QED
      BY <1>3, <2>1 DEF CasWins
  <1>4. ASSUME NEW t \in Threads, ReenterSetOwner(t) \/ ReenterClearOwner(t)
        PROVE  ReenterTypeOK' /\ ReleasersHold'
    BY <1>4 DEF ReenterSetOwner, ReenterClearOwner
  <1>5. ASSUME NEW t \in Threads, Reenter(t) \/ GetState(t) PROVE ReenterTypeOK' /\ ReleasersHold'
    BY <1>5 DEF Reenter, GetState
  <1>6. ASSUME NEW t \in Threads, Increment(t) PROVE ReenterTypeOK' /\ ReleasersHold'
    BY <1>6 DEF Increment
  <1>7. ASSUME NEW t \in Threads, Decrement(t) PROVE ReenterTypeOK' /\ ReleasersHold'
    BY <1>7 DEF Decrement
  <1> QED
    BY <1>1, <1>2, <1>3, <1>4, <1>5, <1>6, <1>7 DEF ReenterNext

\* The types hold for any threads, nesting and bound; the nesting count of a
\* thread never goes below zero.
THEOREM ReenterTypeCorrect == ReenterSpec => [](ReenterTypeOK /\ ReleasersHold)
  <1>1. ReenterInit => ReenterTypeOK /\ ReleasersHold
    <2> SUFFICES ASSUME ReenterInit PROVE ReenterTypeOK /\ ReleasersHold
      OBVIOUS
    <2>1. raced \in BOOLEAN
      BY Zenon DEF ReenterInit
    <2> QED
      BY <2>1 DEF ReenterInit, ReenterTypeOK, ReleasersHold, ReenterPC
  <1> QED
    BY <1>1, ReenterTypeStep, PTL DEF ReenterSpec

\* As long as no compare-and-set falls into the window of a release, every step
\* leaves at most one thread inside.
LEMMA InsideStep ==
    ReenterTypeOK /\ (~raced => OneInside) /\ [ReenterNext]_reenterVars => (~raced' => OneInside')
  <1> SUFFICES ASSUME ReenterTypeOK, ~raced => OneInside, [ReenterNext]_reenterVars, ~raced'
               PROVE  OneInside'
    OBVIOUS
  <1> USE DEF ReenterTypeOK, ReenterPC, Goto
  <1>1. ~raced
    BY DEF ReenterNext, reenterVars, ReenterLock, CasWins, ReenterSetOwner, CasLoses,
           Reenter, Increment, NotMine,
           ReenterUnlock, CheckState, GetState, Decrement, TestState, ReenterClearOwner
  <1>2. OneInside
    BY <1>1
  <1>3. CASE UNCHANGED reenterVars
    BY <1>2, <1>3 DEF reenterVars, OneInside, HolderKnows, Outside
  <1>4. ASSUME NEW a \in Threads,
               state = 0, owner = NoThread, \A u \in Threads : Outside(u),
               \/ ReenterLock(a) \/ CasWins(a) \/ ReenterSetOwner(a) \/ CasLoses(a)
               \/ Reenter(a) \/ Increment(a) \/ NotMine(a)
               \/ ReenterUnlock(a) \/ CheckState(a) \/ GetState(a) \/ Decrement(a)
               \/ TestState(a) \/ ReenterClearOwner(a)
        PROVE  OneInside'
    <2>1. Outside(a) /\ owner # a
      BY <1>4, NoThreadAssumption
    <2>2. CASE ReenterLock(a)
      BY <1>4, <2>2 DEF ReenterLock, OneInside, Outside
    <2>3. CASE CasWins(a)
      <3>1. HolderKnows(a)'
        BY <1>4, <2>1, <2>3 DEF CasWins, HolderKnows, Outside
      <3>2. \A u \in Threads \ {a} : Outside(u)'
        BY <1>4, <2>3 DEF CasWins, Outside
      <3> QED
        BY <3>1, <3>2 DEF OneInside
    <2>4. CASE NotMine(a)
      BY <1>4, <2>4 DEF NotMine, OneInside, Outside
    <2> QED
      BY <1>4, <2>1, <2>2, <2>3, <2>4
      DEF Outside, ReenterSetOwner, CasLoses, Reenter, Increment, ReenterUnlock,
          CheckState, GetState,
          Decrement, TestState, ReenterClearOwner
  <1>5. ASSUME NEW t \in Threads, HolderKnows(t), \A u \in Threads \ {t} : Outside(u),
               NEW a \in Threads \ {t},
               \/ ReenterLock(a) \/ CasWins(a) \/ ReenterSetOwner(a) \/ CasLoses(a)
               \/ Reenter(a) \/ Increment(a) \/ NotMine(a)
               \/ ReenterUnlock(a) \/ CheckState(a) \/ GetState(a) \/ Decrement(a)
               \/ TestState(a) \/ ReenterClearOwner(a)
        PROVE  OneInside'
    <2>1. Outside(a) /\ owner # a
      BY <1>5, NoThreadAssumption DEF HolderKnows
    <2>2. ~CasWins(a)
      <3> SUFFICES ASSUME CasWins(a) PROVE FALSE
        OBVIOUS
      <3>1. state = 0
        BY DEF CasWins
      <3>2. Releasing(t)
        BY <1>5, <3>1 DEF HolderKnows, Releasing
      <3>3. raced' = (raced \/ \E u \in Threads : Releasing(u))
        BY DEF CasWins
      <3> QED
        BY Zenon, <3>2, <3>3
    <2>3. CASE ReenterLock(a) \/ CasLoses(a) \/ NotMine(a)
      <3>1. HolderKnows(t)'
        BY <1>5, <2>3 DEF ReenterLock, CasLoses, NotMine, HolderKnows
      <3>2. \A u \in Threads \ {t} : Outside(u)'
        BY <1>5, <2>3 DEF ReenterLock, CasLoses, NotMine, Outside
      <3> QED
        BY <3>1, <3>2 DEF OneInside
    <2> QED
      BY <1>5, <2>1, <2>2, <2>3
      DEF Outside, ReenterSetOwner, Reenter, Increment, ReenterUnlock, CheckState,
          GetState, Decrement,
          TestState, ReenterClearOwner
  <1>6. ASSUME NEW t \in Threads, HolderKnows(t), \A u \in Threads \ {t} : Outside(u),
               \/ ReenterLock(t) \/ CasWins(t) \/ ReenterSetOwner(t) \/ CasLoses(t)
               \/ Reenter(t) \/ Increment(t) \/ NotMine(t)
               \/ ReenterUnlock(t) \/ CheckState(t) \/ GetState(t) \/ Decrement(t)
               \/ TestState(t)
        PROVE  OneInside'
    <2>1. \A u \in Threads \ {t} : Outside(u)'
      BY <1>6 DEF Outside, ReenterLock, CasWins, ReenterSetOwner, CasLoses, Reenter,
                  Increment, NotMine,
                  ReenterUnlock, CheckState, GetState, Decrement, TestState
    <2>2. HolderKnows(t)'
      <3>1. CASE ReenterLock(t) \/ CasWins(t) \/ CasLoses(t) \/ NotMine(t)
        BY <1>6, <3>1 DEF HolderKnows, ReenterLock, CasWins, CasLoses, NotMine
      <3>2. CASE ReenterSetOwner(t)
        BY <1>6, <3>2 DEF HolderKnows, ReenterSetOwner
      <3>3. CASE Reenter(t) \/ GetState(t)
        BY <1>6, <3>3 DEF HolderKnows, Reenter, GetState
      <3>4. CASE Increment(t)
        BY <1>6, <3>4 DEF HolderKnows, Increment
      <3>5. CASE ReenterUnlock(t) \/ CheckState(t)
        BY <1>6, <3>5 DEF HolderKnows, ReenterUnlock, CheckState
      <3>6. CASE Decrement(t)
        BY <1>6, <3>6 DEF HolderKnows, Decrement
      <3>7. CASE TestState(t)
        BY <1>6, <3>7 DEF HolderKnows, TestState
      <3> QED
        BY <1>6, <3>1, <3>2, <3>3, <3>4, <3>5, <3>6, <3>7
    <2> QED
      BY <2>1, <2>2 DEF OneInside
  <1>7. ASSUME NEW t \in Threads, HolderKnows(t), \A u \in Threads \ {t} : Outside(u),
               ReenterClearOwner(t)
        PROVE  OneInside'
    BY <1>7 DEF HolderKnows, Outside, ReenterClearOwner, OneInside
  <1> QED
    BY <1>2, <1>3, <1>4, <1>5, <1>6, <1>7 DEF ReenterNext, OneInside

\* One thread inside is exclusion, no exception and a count that is the nesting.
LEMMA InsideIsSafe ==
    ASSUME ReenterTypeOK, OneInside
    PROVE  /\ ReenterExclusion /\ NoThrow
           /\ \A t \in Inside : pc[t] = "run" => owner = t /\ state = depth[t]
  <1> USE DEF ReenterTypeOK, ReenterExclusion, NoThrow, Inside
  <1>1. CASE \A u \in Threads : Outside(u)
    BY <1>1 DEF Outside
  <1>2. ASSUME NEW t \in Threads, HolderKnows(t), \A u \in Threads \ {t} : Outside(u)
        PROVE  /\ ReenterExclusion /\ NoThrow
               /\ \A u \in Inside : pc[u] = "run" => owner = u /\ state = depth[u]
    <2>1. \A u \in Inside : u = t
      <3> SUFFICES ASSUME NEW u \in Threads, depth[u] > 0, u # t PROVE FALSE
        OBVIOUS
      <3>1. depth[u] = 0
        BY <1>2 DEF Outside
      <3> QED
        BY <3>1
    <2>2. NoThrow
      BY <1>2 DEF Outside, HolderKnows
    <2>3. pc[t] = "run" => owner = t /\ state = depth[t]
      BY <1>2 DEF HolderKnows
    <2> QED
      BY <2>1, <2>2, <2>3
  <1> QED
    BY <1>1, <1>2 DEF OneInside

\* The window between tryRelease's last setState and setExclusiveOwnerThread(null)
\* is the reentrant lock's only defect, for any threads and any nesting.
THEOREM WindowIsOnlyDefect == ReenterSpec => []SafeOutsideWindow
  <1>1. ReenterInit => (~raced => OneInside)
    BY DEF ReenterInit, OneInside, Outside
  <1>2. ReenterTypeOK /\ (~raced => OneInside) => SafeOutsideWindow
    BY InsideIsSafe DEF SafeOutsideWindow
  <1> QED
    BY <1>1, <1>2, InsideStep, ReenterTypeCorrect, PTL DEF ReenterSpec
=============================================================================
