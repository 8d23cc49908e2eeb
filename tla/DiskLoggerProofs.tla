-------------------------- MODULE DiskLoggerProofs --------------------------
(***************************************************************************)
(* Proofs about DiskLogger, for files of any size, any number of writes    *)
(* between two checks, and any bound on the messages and the kills.        *)
(***************************************************************************)
EXTENDS DiskLogger, TLAPS

\* The places where the writer holds a message.
Busy == {"check", "delete", "open", "save", "write"}

\* The writer holds a message, and a file, while it is at work on it; a process that
\* has just started has no file; a write is one of those between two checks.
Places ==
    /\ msg # 0 <=> pc \in Busy
    /\ pc \in Busy => open # -1
    /\ pc \in {"off", "start"} => open = -1
    /\ pc = "write" => writes < CheckSizeTimes
-----------------------------------------------------------------------------
Increasing(s) == \A i, j \in 1..Len(s) : i < j => s[i] < s[j]
AllBelow(S, T) == \A x \in S, y \in T : x < y
Held == {msg} \ {0}

\* From the file through the writer to the queue the messages are in the order in
\* which they were logged.
QueueInOrder ==
    /\ Increasing(written) /\ Increasing(cacheList)
    /\ AllBelow(ToSet(written), Held \cup ToSet(cacheList))
    /\ AllBelow(Held, ToSet(cacheList))
    /\ ToSet(written) \cup Held \cup ToSet(cacheList) \subseteq 1..logged

\* A writer whose preferences were there and whose files work has a file.
HasFile == ~failed /\ ~early /\ pc \notin {"off", "start"} => open # -1
-----------------------------------------------------------------------------
\* The file the preferences name and the other one.
Saved == files[savedFlag]
Other == files[1 - savedFlag]

\* What a switch of the files has done at each of its steps.
SwitchPhase ==
    /\ open # Gone
    /\ pc \in {"take", "check", "write"} /\ open # -1 => open = flag /\ savedFlag = flag
    /\ pc \in {"delete", "open"} => open = savedFlag /\ flag = 1 - savedFlag
    /\ pc = "save" => open = flag /\ flag = 1 - savedFlag
    /\ pc = "delete" => Len(Saved) >= MaxFileSize
    /\ pc \in {"open", "save"} => Other = <<>>

\* No file is past its limit by CHECK_SIZE_TIMES, and the open one not by more than
\* the writes since it was checked; a process starts with no writes.
Sizes ==
    /\ \A f \in File : Len(files[f]) < MaxFileSize + CheckSizeTimes
    /\ pc = "write" \/ (writes > 0 /\ pc \in {"take", "check"} /\ open # -1) =>
           Len(files[open]) < MaxFileSize + writes
    /\ pc \in {"off", "start"} => writes = 0

\* The two files, the older one first, hold the end of what was written: all of it, or
\* as much as fits into one file at least.
Suffix ==
    LET n == Len(written)
        a == Len(Other)
        b == Len(Saved)
    IN  /\ a + b <= n
        /\ a + b >= MaxFileSize \/ a + b = n
        /\ \A i \in 1..a : Other[i] = written[n - a - b + i]
        /\ \A i \in 1..b : Saved[i] = written[n - b + i]

Disk == SwitchPhase /\ Sizes /\ Suffix
-----------------------------------------------------------------------------
\* The size is checked at the first write and at every CHECK_SIZE_TIMES-th.
LEMMA CheckFacts ==
    ASSUME NEW C \in Nat \ {0} PROVE 0 % C = 0 /\ C % C = 0
  <1>1. 0 % C = 0
    OBVIOUS
  <1>2. C % C = 0
    OBVIOUS
  <1> QED
    BY <1>1, <1>2

\* The messages of a sequence.
LEMMA ToSetType == ASSUME NEW S, NEW s \in Seq(S) PROVE ToSet(s) \subseteq S
  <1>1. DOMAIN s = 1..Len(s) /\ \A i \in 1..Len(s) : s[i] \in S
    OBVIOUS
  <1> QED
    BY <1>1 DEF ToSet

\* What joining a sequence of messages at its end does to it.
LEMMA AppendFacts ==
    ASSUME NEW S, NEW s \in Seq(S), NEW x \in S
    PROVE  /\ Append(s, x) \in Seq(S) /\ Len(Append(s, x)) = Len(s) + 1
           /\ \A i \in 1..Len(s) : Append(s, x)[i] = s[i]
           /\ Append(s, x)[Len(s) + 1] = x
           /\ ToSet(Append(s, x)) = ToSet(s) \cup {x}
  <1>1. /\ Append(s, x) \in Seq(S) /\ Len(s) \in Nat /\ Len(Append(s, x)) = Len(s) + 1
        /\ \A i \in 1..Len(s) : Append(s, x)[i] = s[i]
        /\ Append(s, x)[Len(s) + 1] = x
    OBVIOUS
  <1>2. DOMAIN s = 1..Len(s) /\ DOMAIN Append(s, x) = 1..(Len(s) + 1)
    BY <1>1
  <1>3. ToSet(Append(s, x)) = ToSet(s) \cup {x}
    BY <1>1, <1>2 DEF ToSet
  <1> QED
    BY <1>1, <1>3

\* The sequence t holds what s holds, and x.
Gains(t, s, x) == ToSet(t) = ToSet(s) \cup {x}

\* A message that joins a queue is all that the queue gains.
LEMMA AppendSet == ASSUME NEW S, NEW s \in Seq(S), NEW x \in S PROVE Gains(Append(s, x), s, x)
  BY AppendFacts DEF Gains

\* What leaving a sequence of messages at its head does to it.
LEMMA TailFacts ==
    ASSUME NEW S, NEW s \in Seq(S), s # <<>>
    PROVE  /\ Head(s) \in S /\ Tail(s) \in Seq(S) /\ Len(Tail(s)) = Len(s) - 1
           /\ \A i \in 1..(Len(s) - 1) : Tail(s)[i] = s[i + 1]
           /\ ToSet(s) = {Head(s)} \cup ToSet(Tail(s))
  <1>1. /\ Head(s) \in S /\ Tail(s) \in Seq(S) /\ Len(s) \in Nat \ {0} /\ Head(s) = s[1]
        /\ Len(Tail(s)) = Len(s) - 1
        /\ \A i \in 1..(Len(s) - 1) : Tail(s)[i] = s[i + 1]
    OBVIOUS
  <1>2. DOMAIN s = 1..Len(s) /\ DOMAIN Tail(s) = 1..(Len(s) - 1)
    BY <1>1
  <1>3. ASSUME NEW i \in 1..Len(s) PROVE s[i] = s[1] \/ \E j \in 1..(Len(s) - 1) : Tail(s)[j] = s[i]
    <2>1. CASE i # 1
      <3>1. i - 1 \in 1..(Len(s) - 1) /\ Tail(s)[i - 1] = s[i]
        BY <1>1, <2>1
      <3> QED
        BY <3>1
    <2> QED
      BY <2>1
  <1>4. \A j \in 1..(Len(s) - 1) : \E i \in 1..Len(s) : Tail(s)[j] = s[i]
    BY <1>1
  <1>5. ToSet(s) = {Head(s)} \cup ToSet(Tail(s))
    <2>1. ToSet(s) = {s[i] : i \in 1..Len(s)} /\ ToSet(Tail(s)) = {Tail(s)[j] : j \in 1..(Len(s) - 1)}
      BY <1>2 DEF ToSet
    <2>2. ToSet(s) \subseteq {Head(s)} \cup ToSet(Tail(s))
      BY <1>1, <1>3, <2>1
    <2>3. ToSet(Tail(s)) \subseteq ToSet(s)
      BY <1>4, <2>1
    <2>4. Head(s) \in ToSet(s)
      BY <1>1, <2>1
    <2> QED
      BY <2>2, <2>3, <2>4
  <1> QED
    BY <1>1, <1>5

\* Every step of the writer, of a logging thread and of the system keeps the types.
LEMMA TypeStep == TypeOK /\ Places /\ [Next]_vars => TypeOK' /\ Places'
  <1> SUFFICES ASSUME TypeOK, Places, [Next]_vars PROVE TypeOK' /\ Places'
    OBVIOUS
  <1> USE SizeAssumption, BoundsAssumption DEF File, Gone, PC, Busy
  <1>1. CASE UNCHANGED vars
    BY <1>1 DEF TypeOK, Places, vars, queue, writer, disk, history
  <1>2. CASE InitPreferences
    BY <1>2 DEF TypeOK, Places, InitPreferences, writer, disk, history
  <1>3. CASE Config
    BY <1>3 DEF TypeOK, Places, Config, queue, disk, history
  <1>4. CASE OpenSaved
    BY <1>4 DEF TypeOK, Places, OpenSaved, queue, disk
  <1>5. CASE OpenSavedFails
    BY <1>5 DEF TypeOK, Places, OpenSavedFails, queue, disk
  <1>6. CASE LogMessage
    <2>1. logged' \in 0..MaxMessages /\ cacheList' \in Seq(1..MaxMessages)
      BY <1>6, AppendFacts DEF LogMessage, WriteDisk, TypeOK
    <2> QED
      BY <1>6, <2>1 DEF TypeOK, Places, LogMessage, writer, disk, history
  <1>7. CASE Take
    <2>1. Head(cacheList) \in 1..MaxMessages /\ cacheList' \in Seq(1..MaxMessages)
      BY <1>7, TailFacts DEF Take, TypeOK
    <2> QED
      BY <1>7, <2>1 DEF TypeOK, Places, Take, disk, history
  <1>8. CASE CheckSize
    <2>1. writes % CheckSizeTimes # 0 => writes < CheckSizeTimes
      BY CheckFacts DEF TypeOK
    <2>2. flag' \in File /\ writes' \in 0..CheckSizeTimes /\ pc' \in {"delete", "write"}
      <3>1. flag' \in {flag, 1 - flag} /\ writes' \in {writes, 0} /\ pc' \in {"delete", "write"}
        BY <1>8 DEF CheckSize
      <3> QED
        BY <3>1 DEF TypeOK
    <2>3. pc' = "write" => writes' < CheckSizeTimes
      BY <1>8, <2>1 DEF CheckSize
    <2>4. pc = "check" /\ UNCHANGED <<queue, msg, open, disk, history>>
      BY <1>8 DEF CheckSize
    <2> QED
      BY <2>2, <2>3, <2>4 DEF TypeOK, Places, queue, disk, history
  <1>9. CASE DeleteFile
    <2>1. files' \in [File \cup {Gone} -> Seq(1..MaxMessages)]
      <3>1. <<>> \in Seq(1..MaxMessages) /\ files[flag] \in Seq(1..MaxMessages)
        BY DEF TypeOK
      <3>2. CASE files' = [files EXCEPT ![flag] = <<>>]
        BY <3>1, <3>2 DEF TypeOK
      <3>3. CASE files' = [files EXCEPT ![flag] = <<>>, ![Gone] = files[flag]]
        BY <3>1, <3>3 DEF TypeOK
      <3> QED
        BY <1>9, <3>2, <3>3 DEF DeleteFile
    <2>2. /\ open' \in {open, Gone} /\ pc = "delete" /\ pc' = "open"
          /\ UNCHANGED <<queue, msg, flag, writes, savedFlag, history>>
      BY <1>9 DEF DeleteFile
    <2> QED
      BY <2>1, <2>2 DEF TypeOK, Places, queue, history
  <1>10. CASE OpenFile
    BY <1>10 DEF TypeOK, Places, OpenFile, queue, disk, history
  <1>11. CASE SwitchFails
    BY <1>11 DEF TypeOK, Places, SwitchFails, queue, disk
  <1>12. CASE SaveFlag
    BY <1>12 DEF TypeOK, Places, SaveFlag, SetInt, queue, history
  <1>13. CASE WriteMessage
    <2>1. msg \in 1..MaxMessages /\ open \in File \cup {Gone} /\ writes' \in 0..CheckSizeTimes
      BY <1>13 DEF TypeOK, Places, WriteMessage
    <2>2. Append(files[open], msg) \in Seq(1..MaxMessages) /\ written' \in Seq(1..MaxMessages)
      BY <1>13, <2>1, AppendFacts DEF TypeOK, WriteMessage
    <2>3. files' = [files EXCEPT ![open] = Append(files[open], msg)]
      BY <1>13 DEF WriteMessage
    <2> QED
      BY <1>13, <2>1, <2>2, <2>3 DEF TypeOK, Places, WriteMessage, queue
  <1>14. CASE WriteFails
    BY <1>14 DEF TypeOK, Places, WriteFails, queue, disk
  <1>15. CASE Kill
    <2>1. killed' \subseteq 1..MaxMessages
      <3>1. cacheList \in Seq(1..MaxMessages)
        BY DEF TypeOK
      <3>2. ToSet(cacheList) \subseteq 1..MaxMessages
        BY <3>1, ToSetType
      <3>3. killed' = killed \cup ToSet(cacheList) \cup ({msg} \ {0})
        BY <1>15 DEF Kill, Unwritten
      <3>4. msg = 0 \/ msg \in 1..MaxMessages
        BY DEF TypeOK
      <3>5. killed \subseteq 1..MaxMessages
        BY DEF TypeOK
      <3> QED
        BY <3>2, <3>3, <3>4, <3>5
    <2>2. <<>> \in Seq(1..MaxMessages) /\ files' = [files EXCEPT ![Gone] = <<>>]
      BY <1>15 DEF Kill
    <2>3. files' \in [File \cup {Gone} -> Seq(1..MaxMessages)]
      BY <2>2 DEF TypeOK
    <2>4. /\ spReady' = FALSE /\ cacheList' = <<>> /\ pc' = "off" /\ msg' = 0 /\ flag' = 0
          /\ open' = -1 /\ writes' = 0 /\ kills < MaxKills /\ kills' = kills + 1
          /\ UNCHANGED <<logged, savedFlag, written, early, failed>>
      BY <1>15 DEF Kill
    <2>5. kills' \in 0..MaxKills
      BY <2>4 DEF TypeOK
    <2>6. spReady' \in BOOLEAN
      BY <2>4
    <2>7. cacheList' \in Seq(1..MaxMessages)
      BY <2>2, <2>4
    <2>8. Places'
      BY <2>4 DEF Places
    <2> QED
      BY <2>1, <2>3, <2>4, <2>5, <2>6, <2>7, <2>8 DEF TypeOK
  <1> QED
    BY <1>1, <1>2, <1>3, <1>4, <1>5, <1>6, <1>7, <1>8, <1>9, <1>10, <1>11, <1>12, <1>13,
       <1>14, <1>15 DEF Next, OnCreate, WriterStep, FileFails

\* The types hold, and a writer at work has a message and a file, for every size.
THEOREM TypeCorrect == Spec => [](TypeOK /\ Places)
  <1>1. Init => TypeOK /\ Places
    <2> SUFFICES ASSUME Init PROVE TypeOK /\ Places
      OBVIOUS
    <2>1. spReady \in BOOLEAN /\ early \in BOOLEAN /\ failed \in BOOLEAN
      BY Zenon DEF Init
    <2>2. <<>> \in Seq(1..MaxMessages)
      OBVIOUS
    <2> QED
      BY <2>1, <2>2, SizeAssumption, BoundsAssumption
         DEF Init, TypeOK, Places, File, Gone, PC, Busy
  <1> QED
    BY <1>1, TypeStep, PTL DEF Spec

\* Every step keeps the messages in the order in which they were logged.
LEMMA OrderStep == TypeOK /\ Places /\ QueueInOrder /\ [Next]_vars => QueueInOrder'
  <1> SUFFICES ASSUME TypeOK, Places, QueueInOrder, [Next]_vars PROVE QueueInOrder'
    OBVIOUS
  <1> USE BoundsAssumption
  <1>1. ASSUME UNCHANGED <<written, cacheList, msg, logged>> PROVE QueueInOrder'
    BY <1>1 DEF QueueInOrder, Held
  <1>2. CASE UNCHANGED vars \/ InitPreferences \/ Config \/ OpenSaved \/ OpenSavedFails
    BY <1>1, <1>2 DEF vars, InitPreferences, Config, OpenSaved, OpenSavedFails, queue, writer,
                      history
  <1>3. CASE CheckSize \/ DeleteFile \/ OpenFile \/ SwitchFails \/ SaveFlag
    BY <1>1, <1>3 DEF CheckSize, DeleteFile, OpenFile, SwitchFails, SaveFlag, queue, history
  <1>4. CASE LogMessage
    <2>1. /\ logged' = logged + 1 /\ cacheList' = Append(cacheList, logged + 1)
          /\ UNCHANGED <<msg, written>>
      BY <1>4 DEF LogMessage, WriteDisk, writer, history
    <2>2. cacheList \in Seq(1..MaxMessages) /\ logged + 1 \in 1..MaxMessages
      BY <1>4 DEF LogMessage, TypeOK
    <2>3. /\ Len(cacheList') = Len(cacheList) + 1
          /\ \A i \in 1..Len(cacheList) : cacheList'[i] = cacheList[i]
          /\ cacheList'[Len(cacheList) + 1] = logged + 1
          /\ ToSet(cacheList') = ToSet(cacheList) \cup {logged + 1}
      BY <2>1, <2>2, AppendFacts
    <2>4. \A i \in 1..Len(cacheList) : cacheList[i] \in ToSet(cacheList)
      BY <2>2 DEF ToSet
    <2>5. \A x \in 1..logged : x < logged + 1
      BY DEF TypeOK
    <2>6. Increasing(cacheList')
      <3> SUFFICES ASSUME NEW i \in 1..(Len(cacheList) + 1), NEW j \in 1..(Len(cacheList) + 1), i < j
                   PROVE  cacheList'[i] < cacheList'[j]
        BY <2>3 DEF Increasing
      <3>1. i \in 1..Len(cacheList) /\ cacheList'[i] \in 1..logged
        BY <2>2, <2>3, <2>4 DEF QueueInOrder
      <3>2. CASE j = Len(cacheList) + 1
        BY <2>3, <2>5, <3>1, <3>2
      <3>3. CASE j \in 1..Len(cacheList)
        BY <2>3, <3>1, <3>3 DEF QueueInOrder, Increasing
      <3> QED
        BY <2>2, <3>2, <3>3
    <2>7. ToSet(written) \cup Held \cup ToSet(cacheList) \subseteq 1..logged
      BY DEF QueueInOrder
    <2>8. 1..logged \subseteq 1..logged' /\ logged + 1 \in 1..logged'
      BY <2>1 DEF TypeOK
    <2>9. /\ AllBelow(ToSet(written'), Held' \cup ToSet(cacheList'))
          /\ AllBelow(Held', ToSet(cacheList'))
      BY <2>1, <2>3, <2>5, <2>7 DEF QueueInOrder, AllBelow, Held
    <2>10. ToSet(written') \cup Held' \cup ToSet(cacheList') \subseteq 1..logged'
      BY <2>1, <2>3, <2>7, <2>8 DEF Held
    <2> QED
      BY <2>1, <2>6, <2>9, <2>10 DEF QueueInOrder
  <1>5. CASE Take
    <2>1. /\ cacheList # <<>> /\ cacheList' = Tail(cacheList) /\ msg = 0
          /\ msg' \in {0, Head(cacheList)} /\ UNCHANGED <<written, logged>>
      BY <1>5 DEF Take, Places, Busy, history
    <2>2. cacheList \in Seq(1..MaxMessages)
      BY DEF TypeOK
    <2>3. /\ Len(cacheList') = Len(cacheList) - 1
          /\ \A i \in 1..(Len(cacheList) - 1) : cacheList'[i] = cacheList[i + 1]
          /\ ToSet(cacheList) = {Head(cacheList)} \cup ToSet(cacheList')
          /\ cacheList' \in Seq(1..MaxMessages)
      BY <2>1, <2>2, TailFacts
    <2>4. Head(cacheList) = cacheList[1] /\ Len(cacheList) \in Nat \ {0}
      BY <2>1, <2>2
    <2>5. Increasing(cacheList')
      <3> SUFFICES ASSUME NEW i \in 1..(Len(cacheList) - 1), NEW j \in 1..(Len(cacheList) - 1), i < j
                   PROVE  cacheList'[i] < cacheList'[j]
        BY <2>3 DEF Increasing
      <3>1. i + 1 \in 1..Len(cacheList) /\ j + 1 \in 1..Len(cacheList) /\ i + 1 < j + 1
        BY <2>4
      <3> QED
        BY <2>3, <3>1 DEF QueueInOrder, Increasing
    <2>6. AllBelow({Head(cacheList)}, ToSet(cacheList'))
      <3> SUFFICES ASSUME NEW y \in ToSet(cacheList') PROVE Head(cacheList) < y
        BY DEF AllBelow
      <3>1. PICK j \in 1..(Len(cacheList) - 1) : y = cacheList'[j]
        BY <2>3 DEF ToSet
      <3>2. 1 \in 1..Len(cacheList) /\ j + 1 \in 1..Len(cacheList) /\ 1 < j + 1
        BY <2>4
      <3> QED
        BY <2>3, <2>4, <3>1, <3>2 DEF QueueInOrder, Increasing
    <2>7. /\ AllBelow(ToSet(written'), Held' \cup ToSet(cacheList'))
          /\ AllBelow(Held', ToSet(cacheList'))
      BY <2>1, <2>3, <2>6 DEF QueueInOrder, AllBelow, Held
    <2>8. ToSet(written') \cup Held' \cup ToSet(cacheList') \subseteq 1..logged'
      BY <2>1, <2>3 DEF QueueInOrder, Held
    <2> QED
      BY <2>1, <2>5, <2>7, <2>8 DEF QueueInOrder
  <1>6. CASE WriteMessage
    <2>1. msg # 0 /\ msg' = 0 /\ written' = Append(written, msg) /\ UNCHANGED <<cacheList, logged>>
      BY <1>6 DEF WriteMessage, Places, Busy, queue
    <2>2. written \in Seq(1..MaxMessages) /\ msg \in 1..MaxMessages /\ Held = {msg} /\ Held' = {}
      BY <2>1 DEF TypeOK, Held
    <2>3. /\ Len(written') = Len(written) + 1
          /\ \A i \in 1..Len(written) : written'[i] = written[i]
          /\ written'[Len(written) + 1] = msg
          /\ ToSet(written') = ToSet(written) \cup {msg}
      BY <2>1, <2>2, AppendFacts
    <2>4. \A i \in 1..Len(written) : written[i] \in ToSet(written)
      BY <2>2 DEF ToSet
    <2>5. Increasing(written')
      <3> SUFFICES ASSUME NEW i \in 1..(Len(written) + 1), NEW j \in 1..(Len(written) + 1), i < j
                   PROVE  written'[i] < written'[j]
        BY <2>3 DEF Increasing
      <3>1. i \in 1..Len(written) /\ written'[i] = written[i] /\ written[i] < msg
        BY <2>2, <2>3, <2>4 DEF QueueInOrder, AllBelow
      <3>2. CASE j = Len(written) + 1
        BY <2>3, <3>1, <3>2
      <3>3. CASE j \in 1..Len(written)
        BY <2>3, <3>1, <3>3 DEF QueueInOrder, Increasing
      <3> QED
        BY <2>2, <3>2, <3>3
    <2>6. /\ AllBelow(ToSet(written'), Held' \cup ToSet(cacheList'))
          /\ AllBelow(Held', ToSet(cacheList'))
      BY <2>1, <2>2, <2>3 DEF QueueInOrder, AllBelow
    <2>7. ToSet(written') \cup Held' \cup ToSet(cacheList') \subseteq 1..logged'
      BY <2>1, <2>2, <2>3 DEF QueueInOrder
    <2> QED
      BY <2>1, <2>5, <2>6, <2>7 DEF QueueInOrder
  <1>7. CASE WriteFails
    <2>1. msg' = 0 /\ UNCHANGED <<written, cacheList, logged>>
      BY <1>7 DEF WriteFails, queue
    <2> QED
      BY <2>1 DEF QueueInOrder, AllBelow, Held
  <1>8. CASE Kill
    <2>1. msg' = 0 /\ cacheList' = <<>> /\ UNCHANGED <<written, logged>>
      BY <1>8 DEF Kill
    <2>2. ToSet(<<>>) = {} /\ Increasing(<<>>)
      BY DEF ToSet, Increasing
    <2>3. Held' = {} /\ ToSet(cacheList') = {} /\ Increasing(cacheList')
      BY <2>1, <2>2 DEF Held
    <2> QED
      BY <2>1, <2>3 DEF QueueInOrder, AllBelow
  <1> QED
    BY <1>2, <1>3, <1>4, <1>5, <1>6, <1>7, <1>8 DEF Next, OnCreate, WriterStep, FileFails

\* The order in which messages are written is the order in which they were logged: no
\* switch of the files and no restart of the process lets one overtake another.
THEOREM WrittenInOrder == Spec => [](TypeOK /\ Places /\ QueueInOrder)
  <1>1. Init => QueueInOrder
    <2> SUFFICES ASSUME Init PROVE QueueInOrder
      OBVIOUS
    <2>1. ToSet(<<>>) = {} /\ Increasing(<<>>)
      BY DEF ToSet, Increasing
    <2> QED
      BY <2>1 DEF Init, QueueInOrder, AllBelow, Held
  <1> QED
    BY <1>1, TypeCorrect, OrderStep, PTL DEF Spec
-----------------------------------------------------------------------------
\* A writer keeps its file while nothing fails.
LEMMA FileStep == TypeOK /\ HasFile /\ [Next]_vars => HasFile'
  <1> SUFFICES ASSUME TypeOK, HasFile, [Next]_vars PROVE HasFile'
    OBVIOUS
  <1> USE DEF HasFile, File, Gone
  <1>1. CASE UNCHANGED vars \/ InitPreferences \/ LogMessage
    BY <1>1 DEF vars, InitPreferences, LogMessage, writer, history
  <1>2. CASE Config \/ Kill
    BY <1>2 DEF Config, Kill
  <1>3. CASE OpenSaved
    BY <1>3 DEF OpenSaved, TypeOK
  <1>4. CASE OpenSavedFails \/ SwitchFails \/ WriteFails
    BY <1>4 DEF OpenSavedFails, SwitchFails, WriteFails
  <1>5. CASE Take \/ CheckSize \/ SaveFlag \/ WriteMessage
    BY <1>5 DEF Take, CheckSize, SaveFlag, WriteMessage, history
  <1>6. CASE DeleteFile \/ OpenFile
    BY <1>6 DEF DeleteFile, OpenFile, TypeOK, history
  <1> QED
    BY <1>1, <1>2, <1>3, <1>4, <1>5, <1>6 DEF Next, OnCreate, WriterStep, FileFails

\* No step makes a message disappear while the files work.
LEMMA LostStep == TypeOK /\ Places /\ HasFile /\ NothingLost /\ [Next]_vars => NothingLost'
  <1> SUFFICES ASSUME TypeOK, Places, HasFile, NothingLost, [Next]_vars, ~failed', ~early'
               PROVE  (1..logged = ToSet(written) \cup killed \cup Unwritten)'
    BY DEF NothingLost
  <1>1. ASSUME ~failed, ~early PROVE 1..logged = ToSet(written) \cup killed \cup Unwritten
    BY <1>1 DEF NothingLost
  <1>2. ASSUME UNCHANGED <<written, killed, cacheList, msg, logged>>, ~failed, ~early
        PROVE  (1..logged = ToSet(written) \cup killed \cup Unwritten)'
    BY <1>1, <1>2 DEF Unwritten
  <1>3. CASE UNCHANGED vars \/ InitPreferences \/ Config
    BY <1>2, <1>3 DEF vars, InitPreferences, Config, queue, writer, history
  <1>4. CASE OpenSaved
    BY <1>2, <1>4 DEF OpenSaved, queue
  <1>5. CASE OpenSavedFails \/ SwitchFails \/ WriteFails
    BY <1>5 DEF OpenSavedFails, SwitchFails, WriteFails
  <1>6. CASE CheckSize \/ DeleteFile \/ OpenFile \/ SaveFlag
    BY <1>2, <1>6 DEF CheckSize, DeleteFile, OpenFile, SaveFlag, queue, history
  <1>7. CASE LogMessage
    <2>1. /\ logged' = logged + 1 /\ cacheList' = Append(cacheList, logged + 1)
          /\ UNCHANGED <<msg, written, killed, failed, early>>
      BY <1>7 DEF LogMessage, WriteDisk, writer, history
    <2>2. cacheList \in Seq(1..MaxMessages) /\ logged + 1 \in 1..MaxMessages
      BY <1>7, BoundsAssumption DEF LogMessage, TypeOK
    <2>3. ToSet(cacheList') = ToSet(cacheList) \cup {logged + 1}
      <3>1. Gains(Append(cacheList, logged + 1), cacheList, logged + 1)
        BY <2>2, AppendSet
      <3> QED
        BY <2>1, <3>1, Zenon DEF Gains
    <2>4. 1..logged' = (1..logged) \cup {logged + 1}
      BY <2>1 DEF TypeOK
    <2> QED
      BY <1>1, <2>1, <2>3, <2>4 DEF Unwritten
  <1>8. CASE Take
    <2>1. cacheList \in Seq(1..MaxMessages) /\ cacheList # <<>>
      BY <1>8 DEF Take, TypeOK
    <2>2. /\ ToSet(cacheList) = {Head(cacheList)} \cup ToSet(Tail(cacheList))
          /\ Head(cacheList) \in 1..MaxMessages
      BY <2>1, TailFacts
    <2>3. ~failed /\ ~early /\ msg = 0 /\ open # -1
      BY <1>8 DEF Take, history, Places, HasFile, Busy
    <2>4. /\ cacheList' = Tail(cacheList) /\ msg' = Head(cacheList)
          /\ UNCHANGED <<written, killed, logged>>
      BY <1>8, <2>3 DEF Take, history
    <2>5. Unwritten' = Unwritten
      <3>1. Head(cacheList) # 0
        BY <2>2
      <3> QED
        BY <2>2, <2>3, <2>4, <3>1 DEF Unwritten
    <2> QED
      BY <1>1, <2>3, <2>4, <2>5
  <1>9. CASE WriteMessage
    <2>1. /\ msg # 0 /\ msg' = 0 /\ written' = Append(written, msg)
          /\ UNCHANGED <<cacheList, logged, killed, failed, early>>
      BY <1>9 DEF WriteMessage, Places, Busy, queue
    <2>2. written \in Seq(1..MaxMessages) /\ msg \in 1..MaxMessages
      BY <2>1 DEF TypeOK
    <2>3. ToSet(written') = ToSet(written) \cup {msg}
      <3>1. Gains(Append(written, msg), written, msg)
        BY <2>2, AppendSet
      <3> QED
        BY <2>1, <3>1, Zenon DEF Gains
    <2> QED
      BY <1>1, <2>1, <2>3 DEF Unwritten
  <1>10. CASE Kill
    <2>1. /\ msg' = 0 /\ cacheList' = <<>> /\ killed' = killed \cup Unwritten
          /\ UNCHANGED <<written, logged, failed, early>>
      BY <1>10 DEF Kill
    <2>2. ToSet(<<>>) = {}
      BY DEF ToSet
    <2>3. Unwritten' = {}
      BY <2>1, <2>2 DEF Unwritten
    <2> QED
      BY <1>1, <2>1, <2>3
  <1> QED
    BY <1>3, <1>4, <1>5, <1>6, <1>7, <1>8, <1>9, <1>10 DEF Next, OnCreate, WriterStep, FileFails

\* A message that was logged is on its way, written, or was lost with a killed process:
\* switches and restarts lose nothing, whatever the size of the files, as long as the
\* file operations work and no writer starts before the preferences.
THEOREM NothingIsLost == Spec => []NothingLost
  <1>1. Init => HasFile /\ NothingLost
    <2> SUFFICES ASSUME Init PROVE HasFile /\ NothingLost
      OBVIOUS
    <2>1. ToSet(<<>>) = {}
      BY DEF ToSet
    <2> QED
      BY <2>1 DEF Init, HasFile, NothingLost, Unwritten
  <1> QED
    BY <1>1, TypeCorrect, FileStep, LostStep, PTL DEF Spec
-----------------------------------------------------------------------------
\* What is on the disk as the provers need it: the types of the files that can be read.
LEMMA FileTypes ==
    ASSUME TypeOK
    PROVE  /\ savedFlag \in File /\ 1 - savedFlag \in File /\ 1 - (1 - savedFlag) = savedFlag
           /\ Saved \in Seq(1..MaxMessages) /\ Other \in Seq(1..MaxMessages)
           /\ Len(Saved) \in Nat /\ Len(Other) \in Nat /\ Len(written) \in Nat
           /\ \A f \in File : f = savedFlag \/ f = 1 - savedFlag
  <1>1. /\ savedFlag \in File /\ 1 - savedFlag \in File /\ 1 - (1 - savedFlag) = savedFlag
        /\ \A f \in File : f = savedFlag \/ f = 1 - savedFlag
    BY DEF TypeOK, File
  <1>2. \A f \in File : files[f] \in Seq(1..MaxMessages)
    BY DEF TypeOK
  <1>3. written \in Seq(1..MaxMessages)
    BY DEF TypeOK
  <1>4. Saved \in Seq(1..MaxMessages) /\ Other \in Seq(1..MaxMessages)
    BY <1>1, <1>2 DEF Saved, Other
  <1> QED
    BY <1>1, <1>3, <1>4

\* A step that leaves the files and the saved flag alone leaves Suffix alone.
LEMMA SuffixKept ==
    ASSUME Suffix, Saved' = Saved, Other' = Other, written' = written PROVE Suffix'
  BY DEF Suffix

\* A full file is deleted behind the writer's back: at every step of a switch, and at
\* every other step that does not fail, the two files are what Disk says.
LEMMA DiskStep == TypeOK /\ Places /\ Disk /\ [Next]_vars /\ ~failed' => Disk'
  <1> SUFFICES ASSUME TypeOK, Places, Disk, [Next]_vars, ~failed' PROVE Disk'
    OBVIOUS
  <1> USE SizeAssumption
  <1>d. SwitchPhase /\ Sizes /\ Suffix
    BY DEF Disk
  <1>t. /\ savedFlag \in File /\ 1 - savedFlag \in File /\ 1 - (1 - savedFlag) = savedFlag
        /\ Saved \in Seq(1..MaxMessages) /\ Other \in Seq(1..MaxMessages)
        /\ Len(Saved) \in Nat /\ Len(Other) \in Nat /\ Len(written) \in Nat
        /\ \A f \in File : f = savedFlag \/ f = 1 - savedFlag
    BY FileTypes
  <1>1. ASSUME UNCHANGED <<disk, written>> PROVE /\ Suffix' /\ Saved' = Saved /\ Other' = Other
                                                 /\ UNCHANGED <<files, savedFlag>>
    <2>1. Saved' = Saved /\ Other' = Other /\ written' = written /\ UNCHANGED <<files, savedFlag>>
      BY <1>1 DEF Saved, Other, disk
    <2> QED
      BY <1>d, <2>1, SuffixKept
  <1>2. CASE UNCHANGED vars \/ InitPreferences \/ LogMessage
    <2>1. UNCHANGED <<disk, written, pc, flag, open, writes>>
      BY <1>2 DEF vars, InitPreferences, LogMessage, writer, history
    <2>2. Suffix' /\ Saved' = Saved /\ Other' = Other /\ UNCHANGED <<files, savedFlag>>
      BY <1>1, <2>1
    <2> QED
      BY <1>d, <2>1, <2>2 DEF Disk, SwitchPhase, Sizes
  <1>3. CASE Config
    <2>1. /\ UNCHANGED <<disk, written, flag, open, writes>> /\ pc' = "start" /\ open = -1
          /\ writes = 0
      BY <1>3, <1>d DEF Config, Places, Sizes, history
    <2>2. Suffix' /\ Saved' = Saved /\ Other' = Other /\ UNCHANGED <<files, savedFlag>>
      BY <1>1, <2>1
    <2> QED
      BY <1>d, <2>1, <2>2 DEF Disk, SwitchPhase, Sizes, Gone
  <1>4. CASE OpenSaved
    <2>1. /\ UNCHANGED <<disk, written, writes>> /\ pc' = "take" /\ writes = 0
          /\ open' = -1 \/ (open' = savedFlag /\ flag' = savedFlag)
      BY <1>4, <1>d DEF OpenSaved, Places, Sizes
    <2>2. Suffix' /\ Saved' = Saved /\ Other' = Other /\ UNCHANGED <<files, savedFlag>>
      BY <1>1, <2>1
    <2> QED
      BY <1>d, <1>t, <2>1, <2>2 DEF Disk, SwitchPhase, Sizes, Gone, File
  <1>5. CASE OpenSavedFails \/ SwitchFails \/ WriteFails
    BY <1>5 DEF OpenSavedFails, SwitchFails, WriteFails
  <1>6. CASE Take
    <2>1. /\ UNCHANGED <<disk, written, flag, open, writes>> /\ pc = "take"
          /\ (pc' = "take" /\ open = -1) \/ pc' = "check"
      BY <1>6 DEF Take, history
    <2>2. Suffix' /\ Saved' = Saved /\ Other' = Other /\ UNCHANGED <<files, savedFlag>>
      BY <1>1, <2>1
    <2> QED
      BY <1>6, <1>d, <2>1, <2>2 DEF Disk, SwitchPhase, Sizes, Take
  <1>7. CASE CheckSize
    <2>1. /\ UNCHANGED <<disk, written, open>> /\ pc = "check" /\ open # -1
      BY <1>7 DEF CheckSize, history, Places, Busy
    <2>2. Suffix' /\ Saved' = Saved /\ Other' = Other /\ UNCHANGED <<files, savedFlag>>
      BY <1>1, <2>1
    <2>3. open = flag /\ savedFlag = flag /\ files[open] = Saved /\ open # Gone
      BY <1>d, <2>1 DEF SwitchPhase, Saved
    <2>4. CASE pc' = "delete" /\ Len(files[open]) + 1 > MaxFileSize /\ flag' = 1 - flag
      <3>1. Len(Saved) >= MaxFileSize
        BY <1>t, <2>3, <2>4
      <3> QED
        BY <1>d, <2>1, <2>2, <2>3, <2>4, <3>1 DEF Disk, SwitchPhase, Sizes
    <2>5. CASE pc' = "write" /\ Len(files[open]) + 1 <= MaxFileSize /\ flag' = flag /\ writes' = 0
      <3>1. Len(files'[open']) < MaxFileSize + writes'
        BY <1>t, <2>1, <2>2, <2>3, <2>5
      <3> QED
        BY <1>d, <2>1, <2>2, <2>3, <2>5, <3>1 DEF Disk, SwitchPhase, Sizes
    <2>6. CASE pc' = "write" /\ writes % CheckSizeTimes # 0 /\ UNCHANGED <<flag, writes>>
      <3>1. writes > 0
        <4>1. writes \in Nat
          BY DEF TypeOK
        <4> QED
          BY <2>6, <4>1, CheckFacts
      <3> QED
        BY <1>d, <2>1, <2>2, <2>3, <2>6, <3>1 DEF Disk, SwitchPhase, Sizes
    <2> QED
      BY <1>7, <2>4, <2>5, <2>6 DEF CheckSize
  <1>8. CASE DeleteFile
    <2>1. pc = "delete" /\ open = savedFlag /\ flag = 1 - savedFlag /\ Len(Saved) >= MaxFileSize
      BY <1>8, <1>d DEF DeleteFile, SwitchPhase
    <2>2. open # flag
      BY <1>t, <2>1 DEF File
    <2>3. /\ files' = [files EXCEPT ![flag] = <<>>] /\ pc' = "open"
          /\ UNCHANGED <<open, flag, writes, savedFlag, written>>
      BY <1>8, <2>2 DEF DeleteFile, history
    <2>4. Saved' = Saved /\ Other' = <<>>
      BY <1>t, <2>1, <2>2, <2>3 DEF Saved, Other, TypeOK
    <2>5. SwitchPhase'
      BY <1>d, <2>1, <2>3, <2>4 DEF SwitchPhase
    <2>6. Sizes'
      <3>1. \A f \in File : files'[f] = files[f] \/ files'[f] = <<>>
        BY <2>3 DEF TypeOK
      <3>2. \A f \in File : Len(files'[f]) < MaxFileSize + CheckSizeTimes
        BY <1>d, <3>1 DEF Sizes
      <3> QED
        BY <2>3, <3>2 DEF Sizes
    <2>7. Suffix'
      <3>1. Len(Other') = 0
        BY <2>4
      <3>2. Len(Saved) <= Len(written)
        BY <1>d, <1>t DEF Suffix
      <3>3. \A i \in 1..Len(Saved) : Saved[i] = written[Len(written) - Len(Saved) + i]
        BY <1>d DEF Suffix
      <3> QED
        BY <1>t, <2>1, <2>3, <2>4, <3>1, <3>2, <3>3 DEF Suffix
    <2> QED
      BY <2>5, <2>6, <2>7 DEF Disk
  <1>9. CASE OpenFile
    <2>1. /\ UNCHANGED <<disk, written, flag, writes>> /\ pc = "open" /\ pc' = "save"
          /\ open' = flag
      BY <1>9 DEF OpenFile, history
    <2>2. Suffix' /\ Saved' = Saved /\ Other' = Other /\ UNCHANGED <<files, savedFlag>>
      BY <1>1, <2>1
    <2> QED
      BY <1>d, <1>t, <2>1, <2>2 DEF Disk, SwitchPhase, Sizes, File, Gone
  <1>10. CASE SaveFlag
    <2>1. /\ savedFlag' = flag /\ writes' = 0 /\ pc = "save" /\ pc' = "write"
          /\ UNCHANGED <<open, flag, files, written>>
      BY <1>10 DEF SaveFlag, SetInt, history
    <2>2. open = flag /\ flag = 1 - savedFlag /\ Other = <<>>
      BY <1>d, <2>1 DEF SwitchPhase
    <2>3. Saved' = Other /\ Other' = Saved
      BY <1>t, <2>1, <2>2 DEF Saved, Other
    <2>4. SwitchPhase'
      BY <1>d, <2>1, <2>2 DEF SwitchPhase
    <2>5. Sizes'
      <3>1. files'[open'] = <<>>
        BY <2>1, <2>2 DEF Other
      <3> QED
        BY <1>d, <2>1, <3>1 DEF Sizes
    <2>6. Suffix'
      <3>1. Len(Saved') = 0 /\ Len(Other) = 0
        BY <2>2, <2>3
      <3>2. /\ Len(Saved) <= Len(written)
            /\ Len(Saved) >= MaxFileSize \/ Len(Saved) = Len(written)
            /\ \A i \in 1..Len(Saved) : Saved[i] = written[Len(written) - Len(Saved) + i]
        BY <1>d, <1>t, <3>1 DEF Suffix
      <3> QED
        BY <1>t, <2>1, <2>3, <3>1, <3>2 DEF Suffix
    <2> QED
      BY <2>4, <2>5, <2>6 DEF Disk
  <1>11. CASE WriteMessage
    <2>1. /\ files' = [files EXCEPT ![open] = Append(files[open], msg)]
          /\ written' = Append(written, msg) /\ writes' = writes + 1 /\ pc' = "take"
          /\ UNCHANGED <<flag, open, savedFlag>>
      BY <1>11 DEF WriteMessage
    <2>2. pc = "write" /\ open # -1 /\ msg # 0 /\ writes < CheckSizeTimes
      BY <1>11 DEF WriteMessage, Places, Busy
    <2>3. /\ open = flag /\ savedFlag = flag /\ open # Gone
          /\ Len(files[open]) < MaxFileSize + writes
      BY <1>d, <2>2 DEF SwitchPhase, Sizes
    <2>4. msg \in 1..MaxMessages /\ written \in Seq(1..MaxMessages)
      BY <2>2, BoundsAssumption DEF TypeOK
    <2>5. Saved' = Append(Saved, msg) /\ Other' = Other
      BY <1>t, <2>1, <2>3 DEF Saved, Other, TypeOK, File
    <2>6. /\ Len(Saved') = Len(Saved) + 1 /\ Saved'[Len(Saved) + 1] = msg
          /\ \A i \in 1..Len(Saved) : Saved'[i] = Saved[i]
      BY <1>t, <2>4, <2>5
    <2>7. /\ Len(written') = Len(written) + 1 /\ written'[Len(written) + 1] = msg
          /\ \A i \in 1..Len(written) : written'[i] = written[i]
      BY <2>1, <2>4
    <2>8. SwitchPhase'
      BY <1>d, <2>1, <2>3 DEF SwitchPhase
    <2>9. Sizes'
      <3>1. writes \in Nat /\ writes' \in Nat /\ writes' <= CheckSizeTimes
        BY <2>1, <2>2 DEF TypeOK
      <3>2. files'[open'] = Saved' /\ Len(Saved) < MaxFileSize + writes
        BY <2>1, <2>3 DEF Saved
      <3>3. Len(Saved') < MaxFileSize + writes'
        BY <1>t, <2>1, <2>6, <3>1, <3>2
      <3>4. Len(Saved') < MaxFileSize + CheckSizeTimes
        BY <1>t, <2>6, <3>1, <3>3
      <3>5. \A f \in File : files'[f] = Saved' \/ files'[f] = files[f]
        BY <2>1, <2>3, <3>2 DEF TypeOK
      <3>6. \A f \in File : Len(files'[f]) < MaxFileSize + CheckSizeTimes
        BY <1>d, <3>4, <3>5 DEF Sizes
      <3> QED
        BY <2>1, <3>2, <3>3, <3>6 DEF Sizes
    <2>10. Suffix'
      <3> DEFINE n == Len(written)
                 a == Len(Other)
                 b == Len(Saved)
      <3>1. n \in Nat /\ a \in Nat /\ b \in Nat
        BY <1>t
      <3>2. /\ a + b <= n /\ (a + b >= MaxFileSize \/ a + b = n)
            /\ \A i \in 1..a : Other[i] = written[n - a - b + i]
            /\ \A i \in 1..b : Saved[i] = written[n - b + i]
        BY <1>d DEF Suffix
      <3>3. Len(written') = n + 1 /\ Len(Other') = a /\ Len(Saved') = b + 1
        BY <2>5, <2>6, <2>7
      <3>4. ASSUME NEW i \in 1..a PROVE Other'[i] = written'[(n + 1) - a - (b + 1) + i]
        <4> HIDE DEF n, a, b
        <4>1. n - a - b + i \in 1..n /\ (n + 1) - a - (b + 1) + i = n - a - b + i
          BY <3>1, <3>2
        <4> QED
          BY <2>5, <2>7, <3>2, <4>1 DEF n
      <3>5. ASSUME NEW i \in 1..(b + 1) PROVE Saved'[i] = written'[(n + 1) - (b + 1) + i]
        <4> HIDE DEF n, a, b
        <4>1. CASE i = b + 1
          <5>1. (n + 1) - (b + 1) + i = n + 1
            BY <3>1, <4>1
          <5> QED
            BY <2>6, <2>7, <4>1, <5>1 DEF n, b
        <4>2. CASE i \in 1..b
          <5>1. n - b + i \in 1..n /\ (n + 1) - (b + 1) + i = n - b + i
            BY <3>1, <3>2, <4>2
          <5> QED
            BY <2>6, <2>7, <3>2, <4>2, <5>1 DEF n, b
        <4> QED
          BY <3>1, <4>1, <4>2
      <3>6. a + (b + 1) <= n + 1 /\ (a + (b + 1) >= MaxFileSize \/ a + (b + 1) = n + 1)
        BY <3>1, <3>2
      <3> HIDE DEF n, a, b
      <3> QED
        BY <3>3, <3>4, <3>5, <3>6 DEF Suffix
    <2> QED
      BY <2>8, <2>9, <2>10 DEF Disk
  <1>12. CASE Kill
    <2>1. /\ files' = [files EXCEPT ![Gone] = <<>>] /\ pc' = "off" /\ open' = -1 /\ writes' = 0
          /\ UNCHANGED <<savedFlag, written>>
      BY <1>12 DEF Kill
    <2>2. \A f \in File : files'[f] = files[f]
      BY <2>1 DEF TypeOK, File, Gone
    <2>3. Saved' = Saved /\ Other' = Other
      BY <1>t, <2>1, <2>2 DEF Saved, Other
    <2>4. Suffix'
      BY <1>d, <2>1, <2>3, SuffixKept
    <2>5. Sizes' /\ SwitchPhase'
      BY <1>d, <2>1, <2>2 DEF Sizes, SwitchPhase, Gone
    <2> QED
      BY <2>4, <2>5 DEF Disk
  <1> QED
    BY <1>2, <1>3, <1>4, <1>5, <1>6, <1>7, <1>8, <1>9, <1>10, <1>11, <1>12
       DEF Next, OnCreate, WriterStep, FileFails

\* A file operation that failed stays on record.
LEMMA FailedStays == TypeOK /\ failed /\ [Next]_vars => failed'
  <1> SUFFICES ASSUME TypeOK, failed, [Next]_vars PROVE failed'
    OBVIOUS
  <1>1. CASE OpenSavedFails \/ SwitchFails \/ WriteFails
    BY <1>1 DEF OpenSavedFails, SwitchFails, WriteFails
  <1>2. CASE UNCHANGED vars \/ InitPreferences \/ Config \/ LogMessage \/ Kill
    BY <1>2 DEF vars, InitPreferences, Config, LogMessage, Kill, history
  <1>3. CASE OpenSaved \/ Take \/ CheckSize \/ DeleteFile
    BY <1>3 DEF OpenSaved, Take, CheckSize, DeleteFile, history
  <1>4. CASE OpenFile \/ SaveFlag \/ WriteMessage
    BY <1>4 DEF OpenFile, SaveFlag, WriteMessage, history
  <1> QED
    BY <1>1, <1>2, <1>3, <1>4 DEF Next, OnCreate, WriterStep, FileFails

\* Through switches, kills and restarts the two files hold the end of what was
\* written, as long as the file operations work.
THEOREM DiskSound == Spec => [](TypeOK /\ Places /\ QueueInOrder /\ (~failed => Disk))
  <1>1. Init => Disk
    <2> SUFFICES ASSUME Init PROVE Disk
      OBVIOUS
    <2>1. /\ files = [f \in File \cup {Gone} |-> <<>>] /\ written = <<>> /\ pc = "off"
          /\ open = -1 /\ writes = 0 /\ savedFlag = 0
      BY DEF Init
    <2>2. Saved = <<>> /\ Other = <<>> /\ \A f \in File : files[f] = <<>>
      BY <2>1 DEF Saved, Other, File
    <2>3. SwitchPhase
      BY <2>1 DEF SwitchPhase, Gone
    <2>4. Sizes
      BY <2>1, <2>2, SizeAssumption DEF Sizes
    <2>5. Suffix
      BY <2>1, <2>2 DEF Suffix
    <2> QED
      BY <2>3, <2>4, <2>5 DEF Disk
  <1>2. TypeOK /\ Places /\ (~failed => Disk) /\ [Next]_vars => (~failed' => Disk')
    BY DiskStep, FailedStays
  <1> QED
    BY <1>1, <1>2, WrittenInOrder, PTL DEF Spec

\* A file grows past its limit by less than CHECK_SIZE_TIMES messages, for every limit
\* and every CHECK_SIZE_TIMES.
THEOREM SizesBounded == Spec => []SizeBounded
  <1>1. (~failed => Disk) => SizeBounded
    BY DEF Disk, Sizes, SizeBounded
  <1> QED
    BY <1>1, DiskSound, PTL

\* The newest messages, as many as fit into a file, can be read back at any time.
THEOREM NewestAreOnDisk == Spec => []NewestOnDisk
  <1>1. TypeOK /\ (~failed => Disk) => NewestOnDisk
    <2> SUFFICES ASSUME TypeOK, Disk, NEW i \in 1..Len(written), i > Len(written) - MaxFileSize
                 PROVE  \E f \in File : Contains(files[f], written[i])
      BY DEF NewestOnDisk
    <2> DEFINE n == Len(written)
               a == Len(Other)
               b == Len(Saved)
    <2>1. /\ savedFlag \in File /\ 1 - savedFlag \in File
          /\ Saved \in Seq(1..MaxMessages) /\ Other \in Seq(1..MaxMessages)
          /\ n \in Nat /\ a \in Nat /\ b \in Nat
      BY FileTypes
    <2>2. /\ a + b <= n /\ (a + b >= MaxFileSize \/ a + b = n)
          /\ \A k \in 1..a : Other[k] = written[n - a - b + k]
          /\ \A k \in 1..b : Saved[k] = written[n - b + k]
      BY DEF Disk, Suffix
    <2>3. i \in 1..n /\ i > n - (a + b)
      BY <2>1, <2>2, SizeAssumption
    <2>4. CASE i > n - b
      <3>1. i - (n - b) \in 1..b /\ n - b + (i - (n - b)) = i
        BY <2>1, <2>3, <2>4
      <3>2. Saved[i - (n - b)] = written[i]
        BY <2>2, <3>1
      <3>3. Contains(files[savedFlag], written[i])
        BY <2>1, <3>1, <3>2 DEF Contains, Saved
      <3> QED
        BY <2>1, <3>3
    <2>5. CASE i <= n - b
      <3>1. i - (n - a - b) \in 1..a /\ n - a - b + (i - (n - a - b)) = i
        BY <2>1, <2>3, <2>5
      <3>2. Other[i - (n - a - b)] = written[i]
        BY <2>2, <3>1
      <3>3. Contains(files[1 - savedFlag], written[i])
        BY <2>1, <3>1, <3>2 DEF Contains, Other
      <3> QED
        BY <2>1, <3>3
    <2> QED
      BY <2>1, <2>3, <2>4, <2>5
  <1> QED
    BY <1>1, DiskSound, PTL

\* Reading the older file and then the newer one gives the messages in the order in
\* which they were logged.
THEOREM FilesAreInOrder == Spec => []FilesInOrder
  <1>1. TypeOK /\ QueueInOrder /\ (~failed => Disk) => FilesInOrder
    <2> SUFFICES ASSUME TypeOK, QueueInOrder, Disk
                 PROVE  LET log == files[1 - savedFlag] \o files[1 - (1 - savedFlag)]
                        IN  \A i, j \in 1..Len(log) : i < j => log[i] < log[j]
      BY FileTypes DEF FilesInOrder
    <2> DEFINE n == Len(written)
               a == Len(Other)
               b == Len(Saved)
               log == Other \o Saved
    <2>1. /\ 1 - (1 - savedFlag) = savedFlag
          /\ Saved \in Seq(1..MaxMessages) /\ Other \in Seq(1..MaxMessages)
          /\ n \in Nat /\ a \in Nat /\ b \in Nat
      BY FileTypes
    <2>2. /\ a + b <= n
          /\ \A k \in 1..a : Other[k] = written[n - a - b + k]
          /\ \A k \in 1..b : Saved[k] = written[n - b + k]
      BY DEF Disk, Suffix
    <2>3. /\ Len(log) = a + b
          /\ \A k \in 1..a : log[k] = Other[k]
          /\ \A k \in (a + 1)..(a + b) : log[k] = Saved[k - a]
      BY <2>1
    <2>4. ASSUME NEW k \in 1..(a + b)
          PROVE  n - a - b + k \in 1..n /\ log[k] = written[n - a - b + k]
      <3>1. n - a - b + k \in 1..n
        BY <2>1, <2>2
      <3>2. CASE k \in 1..a
        BY <2>2, <2>3, <3>1, <3>2
      <3>3. CASE k \in (a + 1)..(a + b)
        <4>1. k - a \in 1..b /\ n - b + (k - a) = n - a - b + k
          BY <2>1, <3>3
        <4>2. Saved[k - a] = written[n - b + (k - a)]
          BY <2>2, <4>1
        <4> QED
          BY <2>3, <3>1, <3>3, <4>1, <4>2
      <3> QED
        BY <2>1, <3>2, <3>3
    <2>5. ASSUME NEW i \in 1..(a + b), NEW j \in 1..(a + b), i < j PROVE log[i] < log[j]
      <3>1. n - a - b + i < n - a - b + j
        BY <2>1, <2>5
      <3>2. Increasing(written)
        BY DEF QueueInOrder
      <3>3. written[n - a - b + i] < written[n - a - b + j]
        BY <2>4, <3>1, <3>2 DEF Increasing
      <3> QED
        BY <2>4, <3>3
    <2>6. files[1 - savedFlag] \o files[1 - (1 - savedFlag)] = log
      BY <2>1 DEF Saved, Other
    <2> QED
      BY <2>3, <2>5, <2>6
  <1> QED
    BY <1>1, DiskSound, PTL
=============================================================================
