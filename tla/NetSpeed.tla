------------------------------ MODULE NetSpeed ------------------------------
(***************************************************************************)
(* The network speed monitor: DeviceBandwidthSampler polls the byte count  *)
(* on its own thread, ConnectionClassManager turns the samples into a      *)
(* connection quality, NetSpeedMonitorImpl passes a change on, and         *)
(* NetSpeedFragment runs the downloads that are being measured.            *)
(*                                                                         *)
(* Threads: the main thread (clicks, onPostExecute, leaving the screen)    *)
(* and the sampler's ParseThread.  addBandwidth runs under a lock and is   *)
(* one step, except that its listener list is read without one.  A byte    *)
(* count is abstracted to when it was read, the moving average to a value. *)
(* mIsStarting always equals mSamplingCounter and is left out.             *)
(***************************************************************************)
EXTENDS Integers, FiniteSets

CONSTANTS Averages,         \* the values the moving average may take, in kbps
          SamplesToChange,  \* DEFAULT_SAMPLES_TO_QUALITY_CHANGE (5)
          MaxTries,         \* how often a download is repeated (10)
          MaxClicks         \* bound on the clicks on the start button

ASSUME AveragesAssumption == Averages \subseteq Nat
ASSUME CountsAssumption ==
    SamplesToChange \in Nat \ {0, 1} /\ MaxTries \in Nat /\ MaxClicks \in Nat

VARIABLES
    sampling,   \* DeviceBandwidthSampler.mSamplingCounter
    queued,     \* MSG_START messages in the sampler's queue
    pc,         \* where "main" and "parse" are
    prev,       \* sPreviousBytes: "none" (-1), read "now" in this session, or "old"
    base,       \* the sPreviousBytes a thread has subtracted
    seen,       \* the byte count a thread has read
    avg,        \* mDownloadBandwidth, -1 for none
    initiate,   \* mInitiateStateChange
    next,       \* mNextBandwidthConnectionQuality
    samples,    \* mSampleCounter, as far as it is looked at
    current,    \* mCurrentBandwidthConnectionQuality
    registered, \* is the listener registered?  (the screen is shown)
    netSpeed,   \* NetSpeedFragment.mNetSpeed
    tries,      \* NetSpeedFragment.mTries
    downloads,  \* downloads started and not finished
    clicks,     \* number of clicks
    crashed,    \* an IndexOutOfBoundsException has ended the app
    agree,      \* history: samples in a row that left the average in one band, capped
    raced,      \* history: did a stop fall into a sample of the other thread?
    overlapped, \* history: did one download start while another was running?
    late,       \* history: was a sample added after a stop had returned?
    mixed       \* history: was an interval counted that is not of one session?

sampler    == <<sampling, queued, prev, base, seen>>
classifier == <<avg, initiate, next, samples, current>>
screen     == <<registered, netSpeed, tries, downloads, clicks>>
history    == <<agree, raced, overlapped, late, mixed>>
vars       == <<sampler, pc, classifier, screen, crashed, history>>

Thread == {"main", "parse"}
Quality == {"POOR", "MODERATE", "GOOD", "EXCELLENT", "UNKNOWN"}
PC == {"idle", "read", "check", "notify", "write", "repost", "final", "post"}

TypeOK ==
    /\ sampling \in BOOLEAN
    /\ queued \in Nat
    /\ pc \in [Thread -> PC]
    /\ prev \in {"none", "now", "old"}
    /\ base \in [Thread -> {"none", "now", "old"}]
    /\ seen \in [Thread -> {"now", "old"}]
    /\ avg \in Averages \cup {-1}
    /\ initiate \in BOOLEAN
    /\ next \in Quality
    /\ samples \in 0..SamplesToChange
    /\ current \in Quality
    /\ registered \in BOOLEAN
    /\ netSpeed \in Quality
    /\ tries \in 0..MaxTries
    /\ downloads \in 0..MaxClicks
    /\ clicks \in 0..MaxClicks
    /\ crashed \in BOOLEAN
    /\ agree \in 0..SamplesToChange
    /\ raced \in BOOLEAN
    /\ overlapped \in BOOLEAN
    /\ late \in BOOLEAN
    /\ mixed \in BOOLEAN

Init ==
    /\ sampling = FALSE
    /\ queued = 0
    /\ pc = [t \in Thread |-> "idle"]
    /\ prev = "none"
    /\ base = [t \in Thread |-> "none"]
    /\ seen = [t \in Thread |-> "old"]
    /\ avg = -1
    /\ initiate = FALSE
    /\ next = "UNKNOWN"
    /\ samples = 0
    /\ current = "UNKNOWN"
    /\ registered = TRUE
    /\ netSpeed = "UNKNOWN"
    /\ tries = 0
    /\ downloads = 0
    /\ clicks = 0
    /\ crashed = FALSE
    /\ agree = 0
    /\ raced = FALSE
    /\ overlapped = FALSE
    /\ late = FALSE
    /\ mixed = FALSE

Goto(t, l) == pc' = [pc EXCEPT ![t] = l]
-----------------------------------------------------------------------------
\* mapBandwidthQuality
Band(a) ==
    CASE a < 0 -> "UNKNOWN"
      [] a >= 0 /\ a < 150 -> "POOR"
      [] a >= 150 /\ a < 550 -> "MODERATE"
      [] a >= 550 /\ a < 2000 -> "GOOD"
      [] OTHER -> "EXCELLENT"

\* The bounds of a quality's band; Float.MAX_VALUE is no bound.
Bottom(q) ==
    CASE q = "MODERATE" -> 150 [] q = "GOOD" -> 550 [] q = "EXCELLENT" -> 2000 [] OTHER -> 0
AboveTop(q, a) ==
    \/ q = "POOR" /\ a * 4 > 150 * 5
    \/ q = "MODERATE" /\ a * 4 > 550 * 5
    \/ q = "GOOD" /\ a * 4 > 2000 * 5

\* significantlyOutsideCurrentBand: 20 percent past a bound of q.
SignificantlyOutside(q, a) ==
    q = "UNKNOWN" \/ AboveTop(q, a) \/ a * 5 < Bottom(q) * 4

AtMost(n, m) == IF n < m THEN n ELSE m
-----------------------------------------------------------------------------
\* startSampling: the readings made so far belong to an earlier session.
StartSampling ==
    /\ sampling' = TRUE
    /\ queued' = IF sampling THEN queued ELSE queued + 1
    /\ prev' = IF prev = "now" /\ ~sampling THEN "old" ELSE prev
    /\ base' = [t \in Thread |-> IF base[t] = "now" /\ ~sampling THEN "old" ELSE base[t]]
    /\ seen' = [t \in Thread |-> IF ~sampling THEN "old" ELSE seen[t]]

\* A click: DownloadImage.onPreExecute.
Click ==
    /\ ~crashed /\ pc["main"] = "idle"
    /\ registered /\ clicks < MaxClicks
    /\ clicks' = clicks + 1
    /\ downloads' = downloads + 1
    /\ overlapped' = (overlapped \/ downloads > 0)
    /\ StartSampling
    /\ UNCHANGED <<pc, classifier, registered, netSpeed, tries, crashed, agree, raced,
                   late, mixed>>

\* onPostExecute, stopSampling: removes the message and takes a last sample.
StopSampling ==
    /\ ~crashed /\ pc["main"] = "idle" /\ downloads > 0
    /\ sampling' = FALSE
    /\ queued' = IF sampling THEN 0 ELSE queued
    /\ raced' = (raced \/ (sampling /\ pc["parse"] # "idle"))
    /\ Goto("main", IF sampling THEN "read" ELSE "post")
    /\ UNCHANGED <<prev, base, seen, classifier, screen, crashed, agree, overlapped, late,
                   mixed>>

\* Mutant of Post: the tries are not counted.
PostForEver ==
    /\ ~crashed /\ pc["main"] = "post"
    /\ Goto("main", "idle")
    /\ \/ netSpeed = "UNKNOWN" /\ StartSampling /\ UNCHANGED <<tries, downloads>>
       \/ /\ netSpeed # "UNKNOWN"
          /\ downloads' = downloads - 1
          /\ UNCHANGED <<tries, sampler>>
    /\ UNCHANGED <<classifier, registered, netSpeed, clicks, crashed, history>>

\* Mutant of Post: the download is repeated without onPreExecute.
PostWithoutStart ==
    /\ ~crashed /\ pc["main"] = "post"
    /\ Goto("main", "idle")
    /\ \/ /\ netSpeed = "UNKNOWN" /\ tries < MaxTries
          /\ tries' = tries + 1
          /\ UNCHANGED <<downloads, sampler>>
       \/ /\ ~(netSpeed = "UNKNOWN" /\ tries < MaxTries)
          /\ downloads' = downloads - 1
          /\ UNCHANGED <<tries, sampler>>
    /\ UNCHANGED <<classifier, registered, netSpeed, clicks, crashed, history>>

\* The rest of onPostExecute: a download that found nothing is repeated.
Post ==
    /\ ~crashed /\ pc["main"] = "post"
    /\ Goto("main", "idle")
    /\ \/ /\ netSpeed = "UNKNOWN" /\ tries < MaxTries
          /\ tries' = tries + 1
          /\ UNCHANGED downloads
          /\ StartSampling
       \/ /\ ~(netSpeed = "UNKNOWN" /\ tries < MaxTries)
          /\ downloads' = downloads - 1
          /\ UNCHANGED <<tries, sampler>>
    /\ UNCHANGED <<classifier, registered, netSpeed, clicks, crashed, history>>

\* NetSpeedHelper.removeNetSpeedListener and unregister, taken as one step.
Unregister == registered' = FALSE

\* onDestroyView: removes the listener; downloads go on.
Leave ==
    /\ ~crashed /\ pc["main"] = "idle" /\ registered
    /\ Unregister
    /\ UNCHANGED <<sampler, pc, classifier, netSpeed, tries, downloads, clicks, crashed,
                   history>>

\* The ParseThread takes a MSG_START: handleMessage.
HandleMessage ==
    /\ ~crashed /\ pc["parse"] = "idle" /\ queued > 0
    /\ queued' = queued - 1
    /\ Goto("parse", "read")
    /\ UNCHANGED <<sampling, prev, base, seen, classifier, screen, crashed, history>>
-----------------------------------------------------------------------------
\* addSample: reads the byte count and subtracts sPreviousBytes ...
ReadBytes(t) ==
    /\ ~crashed /\ pc[t] = "read"
    /\ base' = [base EXCEPT ![t] = prev]
    /\ seen' = [seen EXCEPT ![t] = IF sampling \/ t = "main" THEN "now" ELSE "old"]
    /\ Goto(t, "check")
    /\ UNCHANGED <<sampling, queued, prev, classifier, screen, crashed, history>>

\* ... then looks at sPreviousBytes a second time: nothing to count ...
NothingToCount(t) ==
    /\ ~crashed /\ pc[t] = "check" /\ prev = "none"
    /\ Goto(t, "write")
    /\ UNCHANGED <<sampler, classifier, screen, crashed, history>>

\* The manager's lock, which notifyListeners holds too.
LockFree == \A t \in Thread : pc[t] # "notify"

\* ... or addBandwidth under the lock: a garbage value is ignored ...
AddGarbage(t) ==
    /\ ~crashed /\ pc[t] = "check" /\ prev # "none" /\ LockFree
    /\ Goto(t, "write")
    /\ UNCHANGED <<sampler, classifier, screen, crashed, history>>

\* ... and any other is counted, with the byte counts the thread has read.
Counted(t) ==
    /\ ~crashed /\ pc[t] = "check" /\ prev # "none" /\ LockFree
    /\ mixed' = (mixed \/ base[t] # "now" \/ seen[t] # "now")
    /\ late' = (late \/ (t = "parse" /\ ~sampling /\ pc["main"] = "idle"))
    /\ UNCHANGED <<sampler, screen, crashed, raced, overlapped>>

\* Mutant of AddBandwidth: a sample that does not fit the pending change keeps the
\* count of those that did.
AddBandwidthKeepsCount(t, a) ==
    /\ Counted(t)
    /\ avg' = a
    /\ agree' = IF Band(a) = Band(avg) THEN AtMost(agree + 1, SamplesToChange) ELSE 1
    /\ \/ /\ initiate
          /\ samples' = AtMost(samples + 1, SamplesToChange)
          /\ UNCHANGED next
          /\ \/ /\ samples' = SamplesToChange /\ SignificantlyOutside(current, a)
                /\ initiate' = FALSE /\ current' = next
                /\ Goto(t, IF registered THEN "notify" ELSE "write")
             \/ /\ ~(samples' = SamplesToChange /\ SignificantlyOutside(current, a))
                /\ initiate' = (Band(a) = next)
                /\ UNCHANGED current
                /\ Goto(t, "write")
       \/ /\ ~initiate
          /\ initiate' = (current # Band(a))
          /\ next' = IF current # Band(a) THEN Band(a) ELSE next
          /\ UNCHANGED <<samples, current>>
          /\ Goto(t, "write")

\* ExponentialGeometricAverage.addMeasurement: the average moves to a.
AddMeasurement(a) == avg' = a

\* addBandwidth: the average moves to a, between its old value and the sample
\* (every value is reached from some sample); a change of band is pending until
\* SamplesToChange samples have confirmed it, and is then made if the average is
\* well outside the old band.  The count is only compared with SamplesToChange
\* and stops there.
AddBandwidth(t, a) ==
    LET fits == Band(a) = next
        count == AtMost(samples + 1, SamplesToChange)
        change == fits /\ count = SamplesToChange /\ SignificantlyOutside(current, a)
    IN
    /\ Counted(t)
    /\ AddMeasurement(a)
    /\ agree' = IF Band(a) = Band(avg) THEN AtMost(agree + 1, SamplesToChange) ELSE 1
    /\ \/ /\ initiate /\ change
          /\ initiate' = FALSE /\ samples' = 1 /\ current' = next
          /\ UNCHANGED next
          /\ Goto(t, IF registered THEN "notify" ELSE "write")
       \/ /\ initiate /\ ~change
          /\ initiate' = fits
          /\ samples' = IF fits THEN count ELSE 1
          /\ UNCHANGED <<next, current>>
          /\ Goto(t, "write")
       \/ /\ ~initiate
          /\ initiate' = (current # Band(a))
          /\ next' = IF current # Band(a) THEN Band(a) ELSE next
          /\ UNCHANGED <<samples, current>>
          /\ Goto(t, "write")

\* reset of the manager and of the average; a pending change stays pending.
ResetManager == avg' = -1 /\ current' = "UNKNOWN" /\ UNCHANGED <<initiate, next, samples>>

\* notifyListeners: onBandwidthStateChange resets the manager and tells the
\* screen.  The list may have lost its listener since its size was read.
Notify(t) ==
    /\ ~crashed /\ pc[t] = "notify"
    /\ \/ /\ registered
          /\ ResetManager
          /\ netSpeed' = current
          /\ tries' = IF current = "UNKNOWN" THEN tries ELSE 0
          /\ UNCHANGED crashed
       \/ /\ ~registered
          /\ crashed' = TRUE
          /\ UNCHANGED <<classifier, netSpeed, tries>>
    /\ Goto(t, "write")
    /\ UNCHANGED <<sampler, registered, downloads, clicks, history>>

\* addSample: sPreviousBytes = newBytes.
WriteBytes(t) ==
    /\ ~crashed /\ pc[t] = "write"
    /\ prev' = seen[t]
    /\ Goto(t, IF t = "main" THEN "final" ELSE "repost")
    /\ UNCHANGED <<sampling, queued, base, seen, classifier, screen, crashed, history>>

\* Mutant of FinalSample: sPreviousBytes is not reset.
FinalSampleKeeps ==
    /\ ~crashed /\ pc["main"] = "final"
    /\ Goto("main", "post")
    /\ UNCHANGED <<sampler, classifier, screen, crashed, history>>

\* addFinalSample: sPreviousBytes = -1.
FinalSample ==
    /\ ~crashed /\ pc["main"] = "final"
    /\ prev' = "none"
    /\ Goto("main", "post")
    /\ UNCHANGED <<sampling, queued, base, seen, classifier, screen, crashed, history>>

\* handleMessage posts the next MSG_START, whether or not sampling goes on.
Repost ==
    /\ ~crashed /\ pc["parse"] = "repost"
    /\ queued' = queued + 1
    /\ Goto("parse", "idle")
    /\ UNCHANGED <<sampling, prev, base, seen, classifier, screen, crashed, history>>
-----------------------------------------------------------------------------
SampleStep(t) ==
    \/ ReadBytes(t) \/ NothingToCount(t) \/ AddGarbage(t)
    \/ \E a \in Averages : AddBandwidth(t, a)
    \/ Notify(t) \/ WriteBytes(t)

MainStep == StopSampling \/ Post \/ FinalSample \/ SampleStep("main")
ParseStep == HandleMessage \/ Repost \/ SampleStep("parse")

Next == Click \/ Leave \/ MainStep \/ ParseStep

\* A download ends (the stream ends or fails), and both threads run what they have.
\* The lock is free again and again, since the ParseThread samples once a second;
\* the main thread, waiting for it, gets it.
Fairness == SF_vars(MainStep) /\ WF_vars(ParseStep)

Spec == Init /\ [][Next]_vars /\ Fairness
-----------------------------------------------------------------------------
\* The message being handled and those waiting: one chain of them, or several.
Chains == queued + IF pc["parse"] = "idle" THEN 0 ELSE 1

\* Unless some stop fell into a sample of the ParseThread: there is one chain of
\* messages at most, no sample is added after a stop has returned, and every
\* interval that is counted lies within one session.
SoundUnlessRaced == ~raced => Chains <= 1 /\ ~late /\ ~mixed

\* The screen is told a quality only after SamplesToChange samples in a row kept
\* the average in one band, that band is the quality, and it differs from the last.
ChangeIsEarned ==
    [][current' \notin {current, "UNKNOWN"} =>
        agree' >= SamplesToChange /\ current' = Band(avg')]_vars

\* A download is measured from start to end, repeated ones too, as long as two
\* downloads do not overlap.
DownloadIsSampled ==
    ~overlapped /\ ~crashed /\ downloads > 0 /\ pc["main"] = "idle" =>
        sampling /\ Chains >= 1

\* Repeating ends: every download is over at some time, or the app has crashed.
DownloadsEnd == downloads > 0 ~> downloads = 0 \/ crashed
=============================================================================
