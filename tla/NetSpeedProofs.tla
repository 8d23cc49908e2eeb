--------------------------- MODULE NetSpeedProofs ---------------------------
(***************************************************************************)
(* Proofs about NetSpeed, for any set of averages, any number of samples   *)
(* that a change takes, and any bound on the tries and the clicks.         *)
(***************************************************************************)
EXTENDS NetSpeed, TLAPS

\* A thread stands only where its own code takes it; the main thread is in
\* onPostExecute only for a download that is not over, after its stop.
Places ==
    /\ pc["main"] # "repost" /\ pc["parse"] \notin {"final", "post"}
    /\ downloads <= clicks
    /\ pc["main"] # "idle" => ~sampling /\ downloads > 0

\* A change that is pending is one the average stands for: the samples counted
\* for it are samples that agree.  Nothing is pending while the listeners are told.
PendingIsCounted ==
    /\ initiate => Band(avg) = next /\ samples <= agree
    /\ ~initiate => samples <= 1
    /\ \A t \in Thread : pc[t] = "notify" => ~initiate

\* What holds as long as no stop falls into a sample: the chain of messages is
\* there exactly while sampling is on, and what a thread has read and what it has
\* subtracted belong to the session that is on.
Session ==
    /\ Chains = IF sampling THEN 1 ELSE 0
    /\ ~late /\ ~mixed
    /\ prev # "old"
    /\ ~sampling /\ pc["main"] \in {"idle", "post"} => prev = "none"
    /\ \A t \in Thread : pc[t] = "check" => base[t] = prev
    /\ \A t \in Thread : pc[t] \in {"check", "notify", "write"} => seen[t] = "now"

\* What holds whether or not there was such a stop: sampling that is on has its
\* chain, and a download that overlaps no other is sampled.
Covered ==
    /\ sampling => Chains >= 1
    /\ ~overlapped => downloads <= 1
    /\ ~overlapped /\ downloads > 0 /\ pc["main"] = "idle" => sampling

\* mapBandwidthQuality answers one of the five qualities.
LEMMA BandType == ASSUME NEW a \in Int PROVE Band(a) \in Quality
  BY DEF Band, Quality

\* A count that stops at a bound: it stays within it, and moves by one below it.
LEMMA AtMostType ==
    ASSUME NEW m \in Nat, NEW n \in Nat
    PROVE  /\ AtMost(n, m) \in 0..m
           /\ AtMost(n, m) <= n
           /\ n <= m => AtMost(n, m) = n
           /\ n > m => AtMost(n, m) = m
  BY DEF AtMost

\* Starting a session keeps the sampler's types and puts its first message in.
LEMMA StartFacts ==
    ASSUME TypeOK, StartSampling
    PROVE  /\ sampling' = TRUE
           /\ queued' \in Nat
           /\ queued' = IF sampling THEN queued ELSE queued + 1
           /\ prev' \in {"none", "now", "old"}
           /\ base' \in [Thread -> {"none", "now", "old"}]
           /\ seen' \in [Thread -> {"now", "old"}]
           /\ prev = "none" => prev' = "none"
           /\ sampling => prev' = prev /\ base' = base /\ seen' = seen
  BY DEF TypeOK, StartSampling, Thread

\* What addBandwidth does to the classifier: the samples counted for a change that
\* stays pending move by one, a change that is made or dropped leaves one behind, and
\* only a change that was pending and is confirmed once more is made.
BandwidthAdded(t, a) ==
    /\ avg' = a
    /\ agree' \in 0..SamplesToChange
    /\ Band(a) = Band(avg) => agree' = AtMost(agree + 1, SamplesToChange)
    /\ agree' >= 1
    /\ \/ /\ initiate /\ initiate' = FALSE /\ samples' = 1
          /\ current' = next /\ next' = next
          /\ Band(a) = next /\ AtMost(samples + 1, SamplesToChange) = SamplesToChange
          /\ pc' \in {[pc EXCEPT ![t] = "notify"], [pc EXCEPT ![t] = "write"]}
       \/ /\ initiate /\ initiate' = TRUE /\ next' = next /\ current' = current
          /\ Band(a) = next
          /\ samples' = AtMost(samples + 1, SamplesToChange)
          /\ pc' = [pc EXCEPT ![t] = "write"]
       \/ /\ initiate /\ initiate' = FALSE /\ samples' = 1
          /\ next' = next /\ current' = current
          /\ pc' = [pc EXCEPT ![t] = "write"]
       \/ /\ ~initiate /\ initiate' = TRUE /\ samples' = samples
          /\ next' = Band(a) /\ current' = current
          /\ pc' = [pc EXCEPT ![t] = "write"]
       \/ /\ ~initiate /\ initiate' = FALSE /\ samples' = samples
          /\ next' = next /\ current' = current
          /\ pc' = [pc EXCEPT ![t] = "write"]

\* addBandwidth does no more and no less to the classifier than that.
LEMMA AddBandwidthFacts ==
    ASSUME TypeOK, NEW t \in Thread, NEW a \in Averages, AddBandwidth(t, a)
    PROVE  BandwidthAdded(t, a)
  <1> DEFINE fits == Band(a) = next
             count == AtMost(samples + 1, SamplesToChange)
             change == fits /\ count = SamplesToChange /\ SignificantlyOutside(current, a)
  <1>1. avg' = a /\ agree' = IF Band(a) = Band(avg) THEN AtMost(agree + 1, SamplesToChange) ELSE 1
    BY DEF AddBandwidth, AddMeasurement
  <1>2. agree' \in 0..SamplesToChange /\ agree' >= 1
    BY <1>1, AtMostType, CountsAssumption DEF TypeOK
  <1>3. CASE /\ initiate /\ change
             /\ initiate' = FALSE /\ samples' = 1 /\ current' = next
             /\ UNCHANGED next
             /\ Goto(t, IF registered THEN "notify" ELSE "write")
    BY <1>1, <1>2, <1>3 DEF Goto, BandwidthAdded
  <1>4. CASE /\ initiate /\ ~change
             /\ initiate' = fits
             /\ samples' = IF fits THEN count ELSE 1
             /\ UNCHANGED <<next, current>>
             /\ Goto(t, "write")
    <2>1. CASE fits
      <3>1. initiate' = TRUE
        BY <1>4, <2>1, Zenon
      <3> QED
        BY <1>1, <1>2, <1>4, <2>1, <3>1 DEF Goto, BandwidthAdded
    <2>2. CASE ~fits
      <3>1. initiate' = FALSE
        BY <1>4, <2>2, Zenon
      <3> QED
        BY <1>1, <1>2, <1>4, <2>2, <3>1 DEF Goto, BandwidthAdded
    <2> QED
      BY <2>1, <2>2
  <1>5. CASE /\ ~initiate
             /\ initiate' = (current # Band(a))
             /\ next' = IF current # Band(a) THEN Band(a) ELSE next
             /\ UNCHANGED <<samples, current>>
             /\ Goto(t, "write")
    <2>1. CASE current # Band(a)
      <3>1. initiate' = TRUE
        BY <1>5, <2>1, Zenon
      <3> QED
        BY <1>1, <1>2, <1>5, <2>1, <3>1 DEF Goto, BandwidthAdded
    <2>2. CASE current = Band(a)
      <3>1. initiate' = FALSE
        BY <1>5, <2>2, Zenon
      <3> QED
        BY <1>1, <1>2, <1>5, <2>2, <3>1 DEF Goto, BandwidthAdded
    <2> QED
      BY <2>1, <2>2
  <1> QED
    BY <1>3, <1>4, <1>5, Zenon DEF AddBandwidth

\* Every step of every thread keeps the types and the places of the threads.
LEMMA TypeStep == TypeOK /\ Places /\ [Next]_vars => TypeOK' /\ Places'
  <1> SUFFICES ASSUME TypeOK, Places, [Next]_vars PROVE TypeOK' /\ Places'
    OBVIOUS
  <1> USE CountsAssumption, AveragesAssumption DEF Places, Thread, PC, Goto
  <1>1. CASE UNCHANGED vars
    BY <1>1 DEF TypeOK, vars, sampler, classifier, screen, history
  <1>2. CASE Click
    <2>1. overlapped' \in BOOLEAN
      BY <1>2, Zenon DEF Click
    <2>2. StartSampling
      BY <1>2 DEF Click
    <2>3. /\ clicks' \in 0..MaxClicks /\ downloads' \in 0..MaxClicks
          /\ downloads' <= clicks' /\ pc' = pc /\ pc["main"] = "idle"
      BY <1>2 DEF Click, TypeOK
    <2>4. UNCHANGED <<classifier, registered, netSpeed, tries, crashed, agree, raced, late, mixed>>
      BY <1>2 DEF Click
    <2> QED
      BY <2>1, <2>2, <2>3, <2>4, StartFacts DEF TypeOK, classifier
  <1>3. CASE StopSampling
    <2>1. raced' \in BOOLEAN
      BY <1>3, Zenon DEF StopSampling
    <2> QED
      BY <1>3, <2>1 DEF StopSampling, TypeOK, classifier, screen
  <1>4. CASE Post
    <2>1. CASE StartSampling /\ tries < MaxTries /\ tries' = tries + 1 /\ downloads' = downloads
      <3>1. pc' = [pc EXCEPT !["main"] = "idle"] /\ tries' \in 0..MaxTries
        BY <1>4, <2>1 DEF Post, TypeOK
      <3>2. UNCHANGED <<classifier, registered, netSpeed, clicks, crashed, history>>
        BY <1>4 DEF Post
      <3> QED
        BY <2>1, <3>1, <3>2, StartFacts DEF TypeOK, classifier, history
    <2>2. CASE downloads' = downloads - 1 /\ UNCHANGED <<tries, sampler>>
      BY <1>4, <2>2 DEF Post, TypeOK, classifier, sampler, history
    <2> QED
      BY <1>4, <2>1, <2>2 DEF Post
  <1>5. CASE Leave \/ HandleMessage \/ FinalSample \/ Repost
    <2>1. CASE Leave
      BY <2>1 DEF Leave, Unregister, TypeOK, sampler, classifier, history
    <2>2. CASE HandleMessage
      BY <2>2 DEF HandleMessage, TypeOK, classifier, screen, history
    <2>3. CASE FinalSample
      BY <2>3 DEF FinalSample, TypeOK, classifier, screen, history
    <2>4. CASE Repost
      BY <2>4 DEF Repost, TypeOK, classifier, screen, history
    <2> QED
      BY <1>5, <2>1, <2>2, <2>3, <2>4
  <1>6. ASSUME NEW t \in Thread,
               ReadBytes(t) \/ NothingToCount(t) \/ AddGarbage(t) \/ WriteBytes(t)
        PROVE  TypeOK' /\ Places'
    <2>1. CASE ReadBytes(t)
      BY <2>1 DEF ReadBytes, TypeOK, classifier, screen, history
    <2>2. CASE NothingToCount(t)
      BY <2>2 DEF NothingToCount, TypeOK, sampler, classifier, screen, history
    <2>3. CASE AddGarbage(t)
      BY <2>3 DEF AddGarbage, TypeOK, sampler, classifier, screen, history
    <2>4. CASE WriteBytes(t)
      BY <2>4 DEF WriteBytes, TypeOK, classifier, screen, history
    <2> QED
      BY <1>6, <2>1, <2>2, <2>3, <2>4
  <1>7. ASSUME NEW t \in Thread, Notify(t) PROVE TypeOK' /\ Places'
    <2>1. CASE registered
      BY <1>7, <2>1 DEF Notify, ResetManager, TypeOK, Quality, sampler, classifier, history
    <2>2. CASE ~registered
      BY <1>7, <2>2 DEF Notify, TypeOK, sampler, classifier, history
    <2> QED
      BY <2>1, <2>2
  <1>8. ASSUME NEW t \in Thread, NEW a \in Averages, AddBandwidth(t, a)
        PROVE  TypeOK' /\ Places'
    <2>0. Counted(t)
      BY <1>8 DEF AddBandwidth
    <2>1. late' \in BOOLEAN /\ mixed' \in BOOLEAN
      BY <2>0, Zenon DEF Counted
    <2>2. Band(a) \in Quality /\ BandwidthAdded(t, a)
      BY <1>8, BandType, AddBandwidthFacts
    <2>3. agree' \in 0..SamplesToChange /\ avg' \in Averages
      BY <2>2 DEF BandwidthAdded
    <2>4. /\ samples' \in 0..SamplesToChange /\ initiate' \in BOOLEAN
          /\ next' \in Quality /\ current' \in Quality
      <3>1. AtMost(samples + 1, SamplesToChange) \in 0..SamplesToChange
        BY AtMostType DEF TypeOK
      <3>2. samples' \in 0..SamplesToChange
        BY <2>2, <3>1 DEF BandwidthAdded, TypeOK
      <3>3. initiate' \in BOOLEAN
        BY <2>2, Zenon DEF BandwidthAdded
      <3>4. next' \in Quality /\ current' \in Quality
        BY <2>2 DEF BandwidthAdded, TypeOK
      <3> QED
        BY <3>2, <3>3, <3>4
    <2>5. pc' \in [Thread -> PC] /\ pc'["main"] # "repost" /\ pc'["parse"] \notin {"final", "post"}
      BY <2>2 DEF BandwidthAdded, TypeOK
    <2>6. pc[t] # "idle" /\ \A u \in Thread : u # t => pc'[u] = pc[u]
      BY <2>0, <2>2 DEF BandwidthAdded, TypeOK, Counted
    <2>7. UNCHANGED <<sampler, screen, crashed, raced, overlapped>>
      BY <2>0 DEF Counted
    <2> QED
      BY <2>1, <2>3, <2>4, <2>5, <2>6, <2>7 DEF TypeOK, sampler, screen
  <1> QED
    BY <1>1, <1>2, <1>3, <1>4, <1>5, <1>6, <1>7, <1>8
       DEF Next, MainStep, ParseStep, SampleStep

\* The types hold, and no thread leaves its own code, for every size of the
\* instance: the counters of tries, downloads and samples keep their bounds.
THEOREM TypeCorrect == Spec => [](TypeOK /\ Places)
  <1>1. Init => TypeOK /\ Places
    <2> SUFFICES ASSUME Init PROVE TypeOK /\ Places
      OBVIOUS
    <2>1. /\ pc \in [Thread -> PC] /\ pc["main"] = "idle" /\ pc["parse"] = "idle"
          /\ base \in [Thread -> {"none", "now", "old"}]
          /\ seen \in [Thread -> {"now", "old"}]
      BY DEF Init, Thread, PC
    <2>2. /\ sampling \in BOOLEAN /\ initiate \in BOOLEAN /\ registered \in BOOLEAN
          /\ crashed \in BOOLEAN /\ raced \in BOOLEAN /\ overlapped \in BOOLEAN
          /\ late \in BOOLEAN /\ mixed \in BOOLEAN
      BY Zenon DEF Init
    <2>3. /\ next \in Quality /\ current \in Quality /\ netSpeed \in Quality
          /\ prev \in {"none", "now", "old"}
      BY DEF Init, Quality
    <2>4. /\ queued \in Nat /\ avg \in Averages \cup {-1} /\ samples \in 0..SamplesToChange
          /\ tries \in 0..MaxTries /\ downloads \in 0..MaxClicks /\ clicks \in 0..MaxClicks
          /\ agree \in 0..SamplesToChange /\ downloads <= clicks
      BY CountsAssumption DEF Init
    <2> QED
      BY <2>1, <2>2, <2>3, <2>4 DEF TypeOK, Places
  <1> QED
    BY <1>1, TypeStep, PTL DEF Spec

\* Every step keeps the samples counted for a pending change among those that agree.
LEMMA PendingStep ==
    TypeOK /\ PendingIsCounted /\ [Next]_vars => PendingIsCounted'
  <1> SUFFICES ASSUME TypeOK, PendingIsCounted, [Next]_vars PROVE PendingIsCounted'
    OBVIOUS
  <1> USE CountsAssumption, AveragesAssumption
  <1>1. ASSUME UNCHANGED <<classifier, agree>>,
               \A t \in Thread : pc'[t] = "notify" => pc[t] = "notify"
        PROVE  PendingIsCounted'
    BY <1>1 DEF PendingIsCounted, classifier, Band
  <1>2. CASE UNCHANGED vars \/ Click \/ Leave \/ StopSampling \/ Post
    <2>1. UNCHANGED <<classifier, agree>>
      BY <1>2 DEF vars, history, Click, Leave, StopSampling, Post
    <2>2. \A t \in Thread : pc'[t] = "notify" => pc[t] = "notify"
      BY <1>2 DEF vars, Click, Leave, StopSampling, Post, Goto, TypeOK, Thread, PC
    <2> QED
      BY <1>1, <2>1, <2>2
  <1>3. CASE FinalSample \/ HandleMessage \/ Repost
    <2>1. UNCHANGED <<classifier, agree>>
      BY <1>3 DEF history, FinalSample, HandleMessage, Repost
    <2>2. \A t \in Thread : pc'[t] = "notify" => pc[t] = "notify"
      BY <1>3 DEF FinalSample, HandleMessage, Repost, Goto, TypeOK, Thread, PC
    <2> QED
      BY <1>1, <2>1, <2>2
  <1>4. ASSUME NEW t \in Thread,
               ReadBytes(t) \/ NothingToCount(t) \/ AddGarbage(t) \/ WriteBytes(t)
        PROVE  PendingIsCounted'
    <2>1. UNCHANGED <<classifier, agree>>
      BY <1>4 DEF history, ReadBytes, NothingToCount, AddGarbage, WriteBytes
    <2>2. \A u \in Thread : pc'[u] = "notify" => pc[u] = "notify"
      BY <1>4 DEF ReadBytes, NothingToCount, AddGarbage, WriteBytes, Goto, TypeOK, Thread, PC
    <2> QED
      BY <1>1, <2>1, <2>2
  <1>5. ASSUME NEW t \in Thread, Notify(t) PROVE PendingIsCounted'
    <2>1. ~initiate /\ UNCHANGED <<initiate, samples>>
      BY <1>5 DEF Notify, ResetManager, classifier, PendingIsCounted
    <2> QED
      BY <2>1 DEF PendingIsCounted
  <1>6. ASSUME NEW t \in Thread, NEW a \in Averages, AddBandwidth(t, a)
        PROVE  PendingIsCounted'
    <2>0. BandwidthAdded(t, a)
      BY <1>6, AddBandwidthFacts
    <2>1. initiate' => Band(avg)' = next'
      <3>1. Band(avg)' = Band(a)
        BY <2>0 DEF BandwidthAdded, Band
      <3> QED
        BY <2>0, <3>1 DEF BandwidthAdded
    <2>2. initiate' => samples' <= agree'
      <3>1. AtMost(samples + 1, SamplesToChange) <= AtMost(agree + 1, SamplesToChange) \/ samples > agree
        BY DEF AtMost, TypeOK
      <3> QED
        BY <2>0, <3>1 DEF BandwidthAdded, PendingIsCounted, TypeOK
    <2>3. ~initiate' => samples' <= 1
      BY <2>0 DEF BandwidthAdded, PendingIsCounted
    <2>4. \A u \in Thread : pc'[u] = "notify" => ~initiate'
      <3>1. \A u \in Thread : pc[u] # "notify"
        BY <1>6 DEF AddBandwidth, Counted, LockFree
      <3> QED
        BY <2>0, <3>1 DEF BandwidthAdded, TypeOK
    <2> QED
      BY <2>1, <2>2, <2>3, <2>4 DEF PendingIsCounted
  <1> QED
    BY <1>2, <1>3, <1>4, <1>5, <1>6 DEF Thread, Next, MainStep, ParseStep, SampleStep

\* A step that makes a change makes the one that was pending, after as many samples
\* in a row in its band as it takes.
LEMMA ChangeStep ==
    ASSUME TypeOK, PendingIsCounted, [Next]_vars, current' \notin {current, "UNKNOWN"}
    PROVE  agree' >= SamplesToChange /\ current' = Band(avg')
  <1> USE CountsAssumption, AveragesAssumption
  <1>1. \E t \in Thread : \E a \in Averages : AddBandwidth(t, a)
    BY DEF Next, MainStep, ParseStep, SampleStep, Thread, vars, classifier, Click, Leave,
           StopSampling, Post, FinalSample, HandleMessage, Repost, ReadBytes, NothingToCount,
           AddGarbage, WriteBytes, Notify, ResetManager
  <1>2. PICK t \in Thread, a \in Averages : AddBandwidth(t, a)
    BY <1>1
  <1>3. BandwidthAdded(t, a)
    BY <1>2, AddBandwidthFacts
  <1>4. /\ initiate /\ Band(a) = next /\ current' = next /\ avg' = a
        /\ AtMost(samples + 1, SamplesToChange) = SamplesToChange
        /\ Band(a) = Band(avg) => agree' = AtMost(agree + 1, SamplesToChange)
    BY <1>3 DEF BandwidthAdded
  <1>5. Band(avg) = next /\ samples <= agree
    BY <1>4 DEF PendingIsCounted
  <1>6. AtMost(agree + 1, SamplesToChange) = SamplesToChange
    BY <1>4, <1>5 DEF AtMost, TypeOK
  <1> QED
    BY <1>4, <1>5, <1>6

\* The screen is told a quality only after SamplesToChange samples in a row kept the
\* average in its band: addBandwidth counts a pending change from the sample that
\* made it pending, and a reset by a listener never leaves one behind.
THEOREM EarnedChange == Spec => ChangeIsEarned
  <1>1. Init => PendingIsCounted
    BY DEF Init, PendingIsCounted, Thread
  <1>2. TypeOK /\ PendingIsCounted /\ [Next]_vars
          => [current' \notin {current, "UNKNOWN"} =>
                agree' >= SamplesToChange /\ current' = Band(avg')]_vars
    BY ChangeStep
  <1> QED
    BY <1>1, <1>2, TypeCorrect, PendingStep, PTL DEF Spec, ChangeIsEarned

\* Every step that falls into no sample keeps the sessions apart.
LEMMA SessionStep ==
    TypeOK /\ Places /\ (~raced => Session) /\ [Next]_vars => (~raced' => Session')
  <1> SUFFICES ASSUME TypeOK, Places, ~raced => Session, [Next]_vars, ~raced' PROVE Session'
    OBVIOUS
  <1>1. ~raced
    BY DEF Next, MainStep, ParseStep, SampleStep, Thread, vars, history, Click, Leave,
           StopSampling, Post, FinalSample, HandleMessage, Repost, ReadBytes, NothingToCount,
           AddGarbage, WriteBytes, Notify, AddBandwidth, Counted
  <1>2. Session
    BY <1>1
  <1>3. CASE UNCHANGED vars
    BY <1>2, <1>3 DEF Session, Chains, vars, sampler, history
  <1> USE DEF Thread, PC
  <1>4. CASE StartSampling /\ pc["main"] \in {"idle", "post"} /\ pc'["main"] = "idle"
             /\ pc'["parse"] = pc["parse"] /\ UNCHANGED <<late, mixed>>
    <2>1. CASE sampling
      BY <1>2, <1>4, <2>1, StartFacts DEF Session, Chains, TypeOK
    <2>2. CASE ~sampling
      <3>1. queued = 0 /\ pc["parse"] = "idle" /\ prev = "none"
        BY <1>2, <1>4, <2>2 DEF Session, Chains, TypeOK
      <3>2. sampling' = TRUE /\ queued' = 1 /\ prev' = "none"
        BY <1>4, <2>2, <3>1, StartFacts
      <3>3. \A t \in Thread : pc'[t] = "idle"
        BY <1>4, <3>1
      <3>4. Chains' = 1
        BY <3>2, <3>3 DEF Chains
      <3> QED
        BY <1>2, <1>4, <3>2, <3>3, <3>4 DEF Session
    <2> QED
      BY <2>1, <2>2
  <1>5. CASE Click
    BY <1>4, <1>5 DEF Click
  <1>6. CASE Post
    <2>1. CASE StartSampling
      BY <1>4, <1>6, <2>1 DEF Post, Goto, TypeOK, history
    <2>2. CASE UNCHANGED sampler
      BY <1>2, <1>6, <2>2 DEF Post, Goto, Session, Chains, TypeOK, sampler, history
    <2> QED
      BY <1>6, <2>1, <2>2 DEF Post
  <1>7. CASE StopSampling
    <2>1. sampling => pc["parse"] = "idle"
      BY <1>7 DEF StopSampling
    <2>2. CASE sampling
      BY <1>2, <1>7, <2>1, <2>2 DEF StopSampling, Goto, Session, Chains, TypeOK
    <2>3. CASE ~sampling
      BY <1>2, <1>7, <2>1, <2>3 DEF StopSampling, Goto, Session, Chains, TypeOK
    <2> QED
      BY <2>2, <2>3
  <1>8. CASE Leave
    BY <1>2, <1>8 DEF Leave, Session, Chains, sampler, history
  <1>9. CASE HandleMessage
    BY <1>2, <1>9 DEF HandleMessage, Goto, Session, Chains, TypeOK, Places, history
  <1>10. CASE Repost
    BY <1>2, <1>10 DEF Repost, Goto, Session, Chains, TypeOK, Places, history
  <1>11. CASE FinalSample
    BY <1>2, <1>11 DEF FinalSample, Goto, Session, Chains, TypeOK, Places, history
  <1>12. pc["parse"] # "idle" => sampling /\ pc["main"] = "idle"
    BY <1>2 DEF Session, Chains, TypeOK, Places
  <1>13. ASSUME NEW t \in Thread,
                ReadBytes(t) \/ NothingToCount(t) \/ AddGarbage(t) \/ Notify(t) \/ WriteBytes(t)
         PROVE  Session'
    <2>1. CASE ReadBytes(t)
      BY <1>2, <1>12, <2>1 DEF ReadBytes, Goto, Session, Chains, TypeOK, Places, history
    <2>2. CASE NothingToCount(t)
      BY <1>2, <2>2 DEF NothingToCount, Goto, Session, Chains, TypeOK, sampler, history
    <2>3. CASE AddGarbage(t)
      BY <1>2, <2>3 DEF AddGarbage, Goto, Session, Chains, TypeOK, sampler, history
    <2>4. CASE Notify(t)
      BY <1>2, <2>4 DEF Notify, Goto, Session, Chains, TypeOK, sampler, history
    <2>5. CASE WriteBytes(t)
      BY <1>2, <1>12, <2>5 DEF WriteBytes, Goto, Session, Chains, TypeOK, Places, history
    <2> QED
      BY <1>13, <2>1, <2>2, <2>3, <2>4, <2>5
  <1>14. ASSUME NEW t \in Thread, NEW a \in Averages, AddBandwidth(t, a) PROVE Session'
    <2>1. Counted(t) /\ BandwidthAdded(t, a)
      BY <1>14, AddBandwidthFacts DEF AddBandwidth
    <2>2. pc[t] = "check" /\ base[t] = "now" /\ seen[t] = "now"
      BY <1>2, <2>1 DEF Counted, Session, TypeOK
    <2>3. ~mixed'
      BY <1>2, <2>1, <2>2 DEF Counted, Session
    <2>4. ~late'
      BY <1>2, <1>12, <2>1, <2>2 DEF Counted, Session
    <2>5. pc' \in {[pc EXCEPT ![t] = "notify"], [pc EXCEPT ![t] = "write"]}
      BY <2>1 DEF BandwidthAdded
    <2>6. UNCHANGED <<sampling, queued, prev, base, seen>>
      BY <2>1 DEF Counted, sampler
    <2> QED
      BY <1>2, <2>2, <2>3, <2>4, <2>5, <2>6 DEF Session, Chains, TypeOK
  <1> QED
    BY <1>3, <1>5, <1>6, <1>7, <1>8, <1>9, <1>10, <1>11, <1>13, <1>14
       DEF Next, MainStep, ParseStep, SampleStep

\* Unless a stop falls into a sample of the ParseThread, there is one chain of messages
\* at most, nothing is sampled after a stop has returned, and no interval reaches over
\* two sessions: addFinalSample's reset and removeMessages are enough for that.
THEOREM SessionsSound == Spec => []SoundUnlessRaced
  <1>1. Init => (~raced => Session)
    BY DEF Init, Session, Chains, Thread
  <1>2. (~raced => Session) => SoundUnlessRaced
    BY DEF Session, SoundUnlessRaced, Chains
  <1> QED
    BY <1>1, <1>2, TypeCorrect, SessionStep, PTL DEF Spec

\* Every step keeps a download that overlaps no other under sampling.
LEMMA CoveredStep ==
    TypeOK /\ Places /\ Covered /\ [Next]_vars => Covered'
  <1> SUFFICES ASSUME TypeOK, Places, Covered, [Next]_vars PROVE Covered'
    OBVIOUS
  <1> USE DEF Thread, PC, Goto, Covered, Chains, TypeOK, Places
  <1>1. CASE UNCHANGED vars
    BY <1>1 DEF vars, sampler, screen, history
  <1>2. CASE Click
    <2>1. ~overlapped' => ~overlapped /\ downloads <= 0
      BY <1>2 DEF Click
    <2>2. sampling' = TRUE /\ queued' = IF sampling THEN queued ELSE queued + 1
      BY <1>2 DEF Click, StartSampling
    <2>3. downloads' = downloads + 1 /\ pc' = pc
      BY <1>2 DEF Click
    <2> QED
      BY <2>1, <2>2, <2>3
  <1>3. CASE Post
    <2>1. pc' = [pc EXCEPT !["main"] = "idle"] /\ overlapped' = overlapped /\ downloads > 0
      BY <1>3 DEF Post, history
    <2>2. CASE StartSampling /\ downloads' = downloads
      <3>1. sampling' = TRUE /\ queued' = IF sampling THEN queued ELSE queued + 1
        BY <2>2 DEF StartSampling
      <3> QED
        BY <2>1, <2>2, <3>1
    <2>3. CASE UNCHANGED sampler /\ downloads' = downloads - 1
      BY <2>1, <2>3 DEF sampler
    <2> QED
      BY <1>3, <2>2, <2>3 DEF Post
  <1>4. CASE StopSampling
    BY <1>4 DEF StopSampling, screen
  <1>5. CASE Leave
    BY <1>5 DEF Leave, sampler, history
  <1>6. CASE HandleMessage
    BY <1>6 DEF HandleMessage, screen, history
  <1>7. CASE Repost
    BY <1>7 DEF Repost, screen, history
  <1>8. CASE FinalSample
    BY <1>8 DEF FinalSample, screen, history
  <1>9. ASSUME NEW t \in Thread,
               /\ pc[t] \notin {"idle", "final", "post"} /\ UNCHANGED <<sampling, queued, downloads, overlapped>>
               /\ \E l \in PC \ {"idle"} : pc' = [pc EXCEPT ![t] = l]
        PROVE  Covered'
    BY <1>9
  <1>10. ASSUME NEW t \in Thread,
                ReadBytes(t) \/ NothingToCount(t) \/ AddGarbage(t) \/ Notify(t) \/ WriteBytes(t)
         PROVE  Covered'
    BY <1>9, <1>10 DEF ReadBytes, NothingToCount, AddGarbage, Notify, WriteBytes, sampler,
                       screen, history
  <1>11. ASSUME NEW t \in Thread, NEW a \in Averages, AddBandwidth(t, a) PROVE Covered'
    <2>1. Counted(t) /\ BandwidthAdded(t, a)
      BY <1>11, AddBandwidthFacts DEF AddBandwidth
    <2>2. \E l \in PC \ {"idle"} : pc' = [pc EXCEPT ![t] = l]
      BY <2>1 DEF BandwidthAdded
    <2> QED
      BY <1>9, <2>1, <2>2 DEF Counted, sampler, screen
  <1> QED
    BY <1>1, <1>2, <1>3, <1>4, <1>5, <1>6, <1>7, <1>8, <1>10, <1>11
       DEF Next, MainStep, ParseStep, SampleStep

\* A download that overlaps no other is sampled from its start to its stop, each time
\* onPostExecute repeats it too, even after a stop has raced with a sample.
THEOREM DownloadsSampled == Spec => []DownloadIsSampled
  <1>1. Init => Covered
    BY DEF Init, Covered, Chains
  <1>2. Covered => DownloadIsSampled
    BY DEF Covered, DownloadIsSampled
  <1> QED
    BY <1>1, <1>2, TypeCorrect, CoveredStep, PTL DEF Spec
=============================================================================
