----------------------------- MODULE GenericMMC -----------------------------
(***************************************************************************)
(* dao/GenericMMC.cc: the commands of a session at an MMC recorder, from   *)
(* initDao() to finishDao() or abortDao(), and blankDisk().  A step is one *)
(* command, or the loop around one.                                        *)
(***************************************************************************)
EXTENDS MMCDrive, SequencesExt

CONSTANTS
    BlocksPerWrite, \* blocksPerWrite_
    LeadInBlocks,   \* leadInLen_
    Length          \* blocks of the TOC

ASSUME DriverAssumption ==
    /\ BlocksPerWrite \in Nat \ {0} /\ LeadInBlocks \in Nat \ {0} /\ Length \in Nat \ {0}
    /\ Pregap + LeadInBlocks < -AnyAddress \* no block of a disc has this address

VARIABLES
    job,      \* the command and its options
    pc,       \* where the program is
    err,      \* err of writeDiskAtOnce(), ret of the copies, exitCode of main()
    diskInfo, \* diskInfo_: what the driver knows of the medium
    lba,      \* the address of the next WRITE
    todo,     \* blocks that the current writeData() has still to send
    sent      \* every block the drive has accepted, with its address

driverVars == <<diskInfo, lba, todo, sent>>

Text == <<"text", 0>>
ZeroBlock == <<"zero", 0>>
Data(k) == <<"data", k>>
Zeros(n) == [i \in 1 .. n |-> ZeroBlock]
-----------------------------------------------------------------------------
(* diskInfo(): the answers of a drive.  On an appendable disc it selects the *)
(* write type to learn where the session starts, and takes the test-write    *)
(* bit away; if the drive does not tell, it guesses.                         *)

Unknown == [knowsEmpty |-> FALSE, knowsAppend |-> FALSE, empty |-> FALSE, append |-> FALSE, start |-> 0]
Told(m) == [knowsEmpty |-> TRUE, knowsAppend |-> TRUE, empty |-> m.empty, append |-> m.append, start |-> m.start]
SessionsOnly(m) == [Unknown EXCEPT !.knowsEmpty = TRUE, !.empty = m.empty]
Guessed(m) == [Told(m) EXCEPT !.start = @ + 1]
Appended(m) == m.append /\ ~m.empty

Answers(m) == {Told(m)} \cup IF healthy THEN {}
                              ELSE {Unknown, SessionsOnly(m)} \cup IF Appended(m) THEN {Guessed(m)} ELSE {}
Refresh == diskInfo' \in IF Responsive THEN Answers(medium) ELSE {Unknown}
ReadDiskInfo ==
    /\ Refresh
    /\ testWrite' = (testWrite /\ ~(Responsive /\ Appended(medium)))
    /\ deferred' = FALSE
    /\ UNCHANGED <<healthy, tray, medium, locked, next, last, cache, burned, swaps>>

\* A command the drive may refuse, and will if it has an error to report.
Command(changes, done, failed) ==
    \/ Responsive /\ changes /\ pc' = done /\ UNCHANGED err
    \/ /\ MayFail \/ ~Responsive
       /\ deferred' = FALSE /\ pc' = failed /\ err' = 1
       /\ UNCHANGED <<healthy, tray, medium, locked, testWrite, next, last, cache, burned, swaps>>

\* What follows if the writer fails.
Failed == "abortDao"
-----------------------------------------------------------------------------
(* initDao() and startDao()                                                *)

\* Encoding CD-TEXT may fail, the medium must be appendable, the number of
\* the first track can be chosen on an empty one only.
Usable(d) == d.knowsEmpty /\ d.knowsAppend /\ d.append /\ (d.empty \/ ~job.firstTrack)
InitDao ==
    /\ pc = "initDao"
    /\ \/ ReadDiskInfo /\ pc' = IF Usable(diskInfo') THEN "setSpeed" ELSE "written"
       \/ MayFail /\ job.cdText /\ pc' = "written" /\ UNCHANGED <<diskInfo, driveVars>>
    /\ err' = IF pc' = "setSpeed" THEN err ELSE 1
    /\ UNCHANGED <<job, lba, todo, sent>>

\* selectSpeed() and getSessionInfo()
SetSpeed ==
    /\ pc = "setSpeed"
    /\ Command(UNCHANGED driveVars, "diskInfo", "written")
    /\ UNCHANGED <<job, driverVars>>

\* setWriteParameters(): one of the variants must be accepted.
TestWriteMutant == testWrite
TestWrite == job.simulate
SetWriteParameters ==
    /\ pc = "startDao"
    /\ Command(/\ testWrite' = TestWrite
               /\ UNCHANGED <<healthy, tray, medium, locked, next, last, cache, burned, deferred, swaps>>,
               IF job.simulate THEN "cueSheet" ELSE "calibrate", Failed)
    /\ UNCHANGED <<job, driverVars>>

\* performPowerCalibration(); --force ignores that it failed.
Calibrate ==
    /\ pc = "calibrate"
    /\ \/ Command(UNCHANGED driveVars, "cueSheet", Failed)
       \/ MayFail /\ job.force /\ pc' = "cueSheet" /\ UNCHANGED <<err, driveVars>>
    /\ UNCHANGED <<job, driverVars>>

\* getNWA(), whose result does not matter, and sendCueSheet(): the drive
\* knows now which blocks it will get, and what comes first is the lead-in.
SendCueSheet ==
    /\ pc = "cueSheet"
    /\ Command(/\ last' = medium.start + Length
               /\ next' = IF job.cdText THEN AnyAddress ELSE medium.start - Pregap
               /\ UNCHANGED <<healthy, tray, medium, locked, testWrite, cache, burned, deferred, swaps>>,
               IF job.cdText THEN "leadIn" ELSE "pregap", Failed)
    /\ IF job.cdText
       THEN lba' = -Pregap - LeadInBlocks /\ todo' = [i \in 1 .. LeadInBlocks |-> Text]
       ELSE lba' = diskInfo.start - Pregap /\ todo' = Zeros(Pregap)
    /\ UNCHANGED <<job, diskInfo, sent>>
-----------------------------------------------------------------------------
(* writeCdTextLeadIn(), writeZeros() and writeData(): WRITE commands of at  *)
(* most blocksPerWrite_ blocks.  "Long write in progress" is no error, the  *)
(* same command is sent again.                                              *)

Writing == pc \in {"leadIn", "pregap", "write"}
Chunk == SubSeq(todo, 1, IF Len(todo) < BlocksPerWrite THEN Len(todo) ELSE BlocksPerWrite)
Behind == CASE pc = "leadIn" -> "pregap" [] pc = "pregap" -> "fifo" [] pc = "write" -> "released"

WriteCommand ==
    /\ Writing /\ todo # <<>> /\ HasRoom(Len(Chunk))
    /\ \/ /\ Responsive /\ RightAddress(lba)
          /\ Accept(lba, Chunk)
          /\ sent' = sent \o [i \in 1 .. Len(Chunk) |-> <<lba + i - 1, Chunk[i]>>]
          /\ lba' = lba + Len(Chunk)
          /\ todo' = SubSeq(todo, Len(Chunk) + 1, Len(todo))
          /\ UNCHANGED <<pc, err>>
       \/ /\ (MayFail \/ ~Responsive \/ ~RightAddress(lba))
          /\ deferred' = FALSE /\ pc' = Failed /\ err' = 1
          /\ UNCHANGED <<healthy, tray, medium, locked, testWrite, next, last, cache, burned, swaps, lba, todo, sent>>
    /\ UNCHANGED <<job, diskInfo>>

RetryFromMutant == lba + 1
RetryFrom == lba
LongWriteInProgress ==
    /\ Writing /\ todo # <<>> /\ ~HasRoom(Len(Chunk))
    /\ lba' = RetryFrom
    /\ UNCHANGED <<job, pc, err, diskInfo, todo, sent, driveVars>>

AllWritten ==
    /\ Writing /\ todo = <<>>
    /\ pc' = Behind
    /\ IF pc = "leadIn"
       THEN /\ lba' = diskInfo.start - Pregap /\ todo' = Zeros(Pregap)
            /\ next' = medium.start - Pregap \* the drive goes on with the pre-gap
            /\ UNCHANGED <<healthy, tray, medium, locked, testWrite, last, cache, burned, deferred, swaps>>
       ELSE UNCHANGED <<lba, todo, driveVars>>
    /\ UNCHANGED <<job, err, diskInfo, sent>>
-----------------------------------------------------------------------------
(* finishDao(), abortDao() and blankDisk()                                 *)

\* flushCache() returns 0 whatever the drive answers.
FlushCache ==
    /\ pc \in {"finishDao", "flushAgain"}
    /\ Synchronize
    /\ pc' = IF pc = "finishDao" THEN "checkReady" ELSE "written"
    /\ UNCHANGED <<job, err, driverVars>>

AbortDao ==
    /\ pc = "abortDao"
    /\ Synchronize
    /\ pc' = IF job.command = "unlock" THEN "unlock" ELSE "written"
    /\ UNCHANGED <<job, err, driverVars>>

\* checkDriveReady() = 2 as long as the drive burns, with TEST UNIT READY or
\* READ DISK INFORMATION, or has no medium; an error ends the loop as well.
ReadyMutant == tray = "in" \/ deferred
Ready == (tray = "in" /\ cache = <<>>) \/ deferred
CheckDriveReady ==
    /\ pc \in {"checkReady", "checkBlanked"}
    /\ Ready \/ (MayFail /\ tray = "in")
    /\ deferred' = FALSE
    /\ IF pc = "checkReady" THEN pc' = "flushAgain" /\ UNCHANGED err
       ELSE \/ pc' = "eject" /\ UNCHANGED err
            \/ MayFail /\ pc' = "exit" /\ err' = 1
    /\ UNCHANGED <<job, driverVars, healthy, tray, medium, locked, testWrite, next, last, cache, burned, swaps>>

\* setSimulationMode() may fail without consequences.
SetSimulationMode ==
    /\ pc = "simulationMode"
    /\ testWrite' \in {job.simulate} \cup IF MayFail THEN {testWrite} ELSE {}
    /\ pc' = "blank"
    /\ UNCHANGED <<job, err, driverVars, healthy, tray, medium, locked, next, last, cache, burned, deferred, swaps>>

BlankDisk ==
    /\ pc = "blank"
    /\ Command(/\ cache' = Append(cache, Erase)
               /\ UNCHANGED <<healthy, tray, medium, locked, testWrite, next, last, burned, deferred, swaps>>,
               "checkBlanked", "exit")
    /\ UNCHANGED <<job, driverVars>>

DriverNext ==
    \/ InitDao \/ SetSpeed \/ SetWriteParameters \/ Calibrate \/ SendCueSheet
    \/ WriteCommand \/ LongWriteInProgress \/ AllWritten
    \/ FlushCache \/ AbortDao \/ CheckDriveReady \/ SetSimulationMode \/ BlankDisk
=============================================================================
