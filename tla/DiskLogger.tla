----------------------------- MODULE DiskLogger -----------------------------
(***************************************************************************)
(* BaseLogger: messages are put in a queue by any thread and written by    *)
(* the DripLogger thread to one of two files, log1.txt and log2.txt.  When *)
(* the current file is full the other one is emptied and becomes current;  *)
(* which one is current is saved in the preferences.                       *)
(*                                                                         *)
(* The process may be killed between any two steps of the writer and be    *)
(* started again: files and preferences survive, the queue does not.  The  *)
(* size of a file is its number of messages; a message and its line end    *)
(* are one write.  The preferences are MMKV: a value that was put survives *)
(* the process.                                                            *)
(***************************************************************************)
EXTENDS Integers, Sequences, SequencesExt

CONSTANTS MaxFileSize,    \* messages that fit into a file
          CheckSizeTimes, \* CHECK_SIZE_TIMES: writes between two size checks (10)
          MaxMessages,    \* bound on the messages logged
          MaxKills        \* bound on the times the process is killed

ASSUME SizeAssumption == MaxFileSize \in Nat \ {0} /\ CheckSizeTimes \in Nat \ {0}
ASSUME BoundsAssumption == MaxMessages \in Nat /\ MaxKills \in Nat

VARIABLES
    spReady,    \* has SPHelper.init returned in this process?
    cacheList,  \* the queue
    logged,     \* number of messages ever queued; a message is its number
    pc,         \* the writer: where it stands, "off" before start()
    msg,        \* the message it holds, 0 for none
    flag,       \* curLogFileFlag
    savedFlag,  \* the flag in the preferences
    open,       \* what mLogRandomAccessFile writes to; -1 for null
    files,      \* what each file holds, oldest message first
    writes,     \* curWriteTime
    kills,      \* number of times the process was killed
    written,    \* history: the messages written, in order
    killed,     \* history: the messages that were lost with a process
    early,      \* history: did a writer ask for preferences that were not there yet?
    failed      \* history: did a file operation ever fail?

queue   == <<spReady, cacheList, logged>>
writer  == <<pc, msg, flag, open, writes>>
disk    == <<savedFlag, files>>
history == <<kills, written, killed, early, failed>>
vars    == <<queue, writer, disk, history>>

File == {0, 1}  \* log1.txt and log2.txt
Gone == 2       \* a file deleted while it was open: it takes writes, nobody can read it
PC == {"off", "start", "take", "check", "delete", "open", "save", "write"}

TypeOK ==
    /\ spReady \in BOOLEAN
    /\ cacheList \in Seq(1..MaxMessages)
    /\ logged \in 0..MaxMessages
    /\ pc \in PC
    /\ msg \in 0..MaxMessages
    /\ flag \in File
    /\ savedFlag \in File
    /\ open \in File \cup {Gone, -1}
    /\ files \in [File \cup {Gone} -> Seq(1..MaxMessages)]
    /\ writes \in 0..CheckSizeTimes
    /\ kills \in 0..MaxKills
    /\ written \in Seq(1..MaxMessages)
    /\ killed \subseteq 1..MaxMessages
    /\ early \in BOOLEAN
    /\ failed \in BOOLEAN

Init ==
    /\ spReady = FALSE
    /\ cacheList = <<>>
    /\ logged = 0
    /\ pc = "off"
    /\ msg = 0
    /\ flag = 0
    /\ savedFlag = 0
    /\ open = -1
    /\ files = [f \in File \cup {Gone} |-> <<>>]
    /\ writes = 0
    /\ kills = 0
    /\ written = <<>>
    /\ killed = {}
    /\ early = FALSE
    /\ failed = FALSE
-----------------------------------------------------------------------------
\* Application.onCreate makes the preferences usable ...
InitPreferences ==
    /\ ~spReady
    /\ spReady' = TRUE
    /\ UNCHANGED <<cacheList, logged, writer, disk, history>>

\* ... and configures the logger, which starts the writer; in the demo application
\* before the preferences, in the others after them.
Config ==
    /\ pc = "off"
    /\ pc' = "start"
    /\ UNCHANGED <<queue, msg, flag, open, writes, disk, history>>

\* LoggerTaskThread.run opens the file the preferences name, at its end.  Without
\* preferences SPHelper.get() throws and there is no file.
OpenSaved ==
    /\ pc = "start"
    /\ \/ spReady /\ flag' = savedFlag /\ open' = savedFlag /\ UNCHANGED early
       \/ ~spReady /\ early' = TRUE /\ UNCHANGED <<flag, open>>
    /\ pc' = "take"
    /\ UNCHANGED <<queue, msg, writes, disk, kills, written, killed, failed>>

\* The file cannot be opened.
OpenSavedFails ==
    /\ pc = "start" /\ spReady
    /\ flag' = savedFlag
    /\ failed' = TRUE
    /\ pc' = "take"
    /\ UNCHANGED <<queue, msg, open, writes, disk, kills, written, killed, early>>

\* writeDisk: the message joins the queue, which has no bound.
WriteDisk ==
    /\ logged' = logged + 1
    /\ cacheList' = Append(cacheList, logged + 1)

\* LogHelper.d, i, w and e, from any thread: a message that is to be saved, once
\* there is a logger.  (Before, the exception is swallowed.)
LogMessage ==
    /\ pc # "off" /\ logged < MaxMessages
    /\ WriteDisk
    /\ UNCHANGED <<spReady, writer, disk, history>>

\* Mutant of Take: the loop waits for a file.
TakeNeedsFile ==
    /\ pc = "take" /\ cacheList # <<>> /\ open # -1
    /\ cacheList' = Tail(cacheList)
    /\ msg' = Head(cacheList) /\ pc' = "check"
    /\ UNCHANGED <<spReady, logged, flag, open, writes, disk, history>>

\* Mutant of Take: the newest message first.
TakeLast ==
    /\ pc = "take" /\ cacheList # <<>>
    /\ cacheList' = Front(cacheList)
    /\ \/ open = -1 /\ UNCHANGED <<msg, pc>>
       \/ open # -1 /\ msg' = Last(cacheList) /\ pc' = "check"
    /\ UNCHANGED <<spReady, logged, flag, open, writes, disk, history>>

\* doWriteDisk(cacheList.take()): without a file the message is dropped.
Take ==
    /\ pc = "take" /\ cacheList # <<>>
    /\ cacheList' = Tail(cacheList)
    /\ \/ open = -1 /\ UNCHANGED <<msg, pc>>
       \/ open # -1 /\ msg' = Head(cacheList) /\ pc' = "check"
    /\ UNCHANGED <<spReady, logged, flag, open, writes, disk, history>>

\* Every CHECK_SIZE_TIMES writes: is there room?  If not the flag is turned.
CheckSize ==
    /\ pc = "check"
    /\ \/ /\ writes % CheckSizeTimes = 0
          /\ Len(files[open]) + 1 > MaxFileSize
          /\ flag' = 1 - flag
          /\ pc' = "delete"
          /\ UNCHANGED writes
       \/ /\ writes % CheckSizeTimes = 0
          /\ Len(files[open]) + 1 <= MaxFileSize
          /\ writes' = 0
          /\ pc' = "write"
          /\ UNCHANGED flag
       \/ /\ writes % CheckSizeTimes # 0
          /\ pc' = "write"
          /\ UNCHANGED <<flag, writes>>
    /\ UNCHANGED <<queue, msg, open, disk, history>>

\* switchLogRandomAccessFile: the file to write next is deleted and created ...
DeleteFile ==
    /\ pc = "delete"
    /\ \/ /\ open # flag
          /\ files' = [files EXCEPT ![flag] = <<>>]
          /\ UNCHANGED open
       \/ /\ open = flag \* the flag had been turned by a switch that failed
          /\ files' = [files EXCEPT ![flag] = <<>>, ![Gone] = files[flag]]
          /\ open' = Gone
    /\ pc' = "open"
    /\ UNCHANGED <<queue, msg, flag, writes, savedFlag, history>>

\* ... and opened.
OpenFile ==
    /\ pc = "open"
    /\ open' = flag
    /\ pc' = "save"
    /\ UNCHANGED <<queue, msg, flag, writes, disk, history>>

\* The switch fails before or after the deletion: the exception is swallowed and
\* the old file stays open under the turned flag.
SwitchFails ==
    /\ pc \in {"delete", "open"}
    /\ failed' = TRUE
    /\ pc' = "save"
    /\ UNCHANGED <<queue, msg, flag, open, writes, disk, kills, written, killed, early>>

\* Mutant of SaveFlag: the flag is not saved.
SaveFlagForgotten ==
    /\ pc = "save"
    /\ writes' = 0
    /\ pc' = "write"
    /\ UNCHANGED <<queue, msg, flag, open, disk, history>>

\* Mutant of SaveFlag: the message that found the file full is forgotten.
SaveFlagEndsWrite ==
    /\ pc = "save"
    /\ savedFlag' = flag
    /\ writes' = 0
    /\ msg' = 0
    /\ pc' = "take"
    /\ UNCHANGED <<queue, flag, open, files, history>>

\* BasePreferences.setInt, which getInt reads back in the next process.
SetInt(f) == savedFlag' = f

\* The flag is saved, and the count starts again.
SaveFlag ==
    /\ pc = "save"
    /\ SetInt(flag)
    /\ writes' = 0
    /\ pc' = "write"
    /\ UNCHANGED <<queue, msg, flag, open, files, history>>

\* Mutant of WriteMessage: the writes are not counted.
WriteMessageUncounted ==
    /\ pc = "write"
    /\ files' = [files EXCEPT ![open] = Append(@, msg)]
    /\ written' = Append(written, msg)
    /\ writes' = 1
    /\ msg' = 0
    /\ pc' = "take"
    /\ UNCHANGED <<queue, flag, open, savedFlag, kills, killed, early, failed>>

\* The message is written and counted.
WriteMessage ==
    /\ pc = "write"
    /\ files' = [files EXCEPT ![open] = Append(@, msg)]
    /\ written' = Append(written, msg)
    /\ writes' = writes + 1
    /\ msg' = 0
    /\ pc' = "take"
    /\ UNCHANGED <<queue, flag, open, savedFlag, kills, killed, early, failed>>

\* A write that throws: the file is given up for the life of the process.
WriteFails ==
    /\ pc = "write"
    /\ failed' = TRUE
    /\ open' = -1
    /\ msg' = 0
    /\ pc' = "take"
    /\ UNCHANGED <<queue, flag, writes, disk, kills, written, killed, early>>

\* What the process holds and has not written.
Unwritten == ToSet(cacheList) \cup ({msg} \ {0})

\* The process is killed: only the files and the preferences are left.
Kill ==
    /\ pc # "off" /\ kills < MaxKills
    /\ kills' = kills + 1
    /\ spReady' = FALSE
    /\ pc' = "off"
    /\ msg' = 0
    /\ flag' = 0
    /\ open' = -1
    /\ writes' = 0
    /\ cacheList' = <<>>
    /\ files' = [files EXCEPT ![Gone] = <<>>]
    /\ killed' = killed \cup Unwritten
    /\ UNCHANGED <<logged, savedFlag, written, early, failed>>

OnCreate   == InitPreferences \/ Config
WriterStep == OpenSaved \/ Take \/ CheckSize \/ DeleteFile \/ OpenFile \/ SaveFlag
                 \/ WriteMessage
FileFails  == OpenSavedFails \/ SwitchFails \/ WriteFails

Next == OnCreate \/ LogMessage \/ WriterStep \/ FileFails \/ Kill

\* The process is started and its writer runs; files need not fail, nobody has to
\* log and nothing has to be killed.
Fairness == WF_vars(OnCreate) /\ WF_vars(WriterStep)

Spec == Init /\ [][Next]_vars /\ Fairness
-----------------------------------------------------------------------------
\* The last MaxFileSize messages written can be read back at any time: between
\* the steps of a switch, and after a kill at any of them and a restart.  (Unless
\* a file operation has failed.)
NewestOnDisk ==
    ~failed =>
        \A i \in 1..Len(written) :
            i > Len(written) - MaxFileSize =>
                \E f \in File : Contains(files[f], written[i])

\* A file grows past its limit by less than CHECK_SIZE_TIMES messages, however
\* often the count of writes is lost with the process.
SizeBounded ==
    ~failed => \A f \in File : Len(files[f]) < MaxFileSize + CheckSizeTimes

\* Reading one of the two files and then the other gives the messages in the order
\* they were logged, through switches and kills.  (A switch that fails writes on in
\* the older file when that is the one left open.)
FilesInOrder ==
    ~failed => \E old \in File :
        LET log == files[old] \o files[1 - old]
        IN  \A i, j \in 1..Len(log) : i < j => log[i] < log[j]

\* A queued message is written, or dropped by a writer without a file, or lost with
\* the process: the queue does not stay behind.
QueueDrains == cacheList # <<>> ~> cacheList = <<>>

\* Every message logged is written, or still held by the process, or was lost with a
\* process that was killed: through switches and restarts nothing disappears on the
\* way, unless a file operation fails or a writer is started before the preferences.
NothingLost ==
    ~failed /\ ~early => 1..logged = ToSet(written) \cup killed \cup Unwritten
=============================================================================
