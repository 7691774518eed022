---------------------------- MODULE Cdrdao_proofs ----------------------------
(***************************************************************************)
(* Proofs about Cdrdao: where each command can be, and what that says of   *)
(* the drive, the lock of the tray, the image file and the reader process. *)
(***************************************************************************)
EXTENDS Cdrdao, SequenceTheorems, TLAPS

(* Places of the program.                                                  *)

Opened == {"leadIn", "pregap", "fifo", "write", "released", "finishDao"}
Preparing == {"setSpeed", "diskInfo", "reader", "startDao", "calibrate", "cueSheet"}
Session == Preparing \cup Opened \cup {"checkReady", "flushAgain"}
Held == {"shared", "initDao", "abortDao", "written", "unlock"} \cup Session
Recording == Held \cup {"lock", "eject", "exit", "killed"}

PlaceInv ==
    /\ job \in Jobs
    /\ job.command = "write" => pc \in {"setup"} \cup Recording
    /\ job.command = "copy" => pc \in {"setup", "readDisk", "checkToc", "swap", "swapped", "askMedium", "prompt",
                                       "removeImage"} \cup Recording
    /\ job.command = "fly" => pc \in {"setup", "pipe", "checkToc", "fork", "closeEnd", "dup", "cleanup"} \cup Recording
    /\ job.command = "blank" => pc \in {"setup", "simulationMode", "blank", "checkBlanked", "eject", "exit", "killed"}
    /\ job.command = "unlock" => pc \in {"abortDao", "unlock", "eject", "exit", "killed"}

LEMMA JobTypes ==
    ASSUME NEW j \in Jobs
    PROVE  /\ j.command \in {"write", "copy", "fly", "blank", "unlock"}
           /\ j.simulate \in BOOLEAN /\ j.force \in BOOLEAN /\ j.eject \in BOOLEAN /\ j.keep \in BOOLEAN
           /\ j.oneDrive \in BOOLEAN /\ j.cdText \in BOOLEAN /\ j.firstTrack \in BOOLEAN /\ j.audio \in BOOLEAN
BY CommandAssumption

LEMMA PlaceInit == Init => PlaceInv
BY JobTypes DEF Init, PlaceInv, FirstStep

LEMMA PlaceStep == PlaceInv /\ [Next]_vars => PlaceInv'
<1> USE DEF PlaceInv, Recording, Held, Session, Opened, Preparing, Goto, Failed
<1> SUFFICES ASSUME PlaceInv, [Next]_vars PROVE PlaceInv'
  OBVIOUS
<1>0. job.command \in {"write", "copy", "fly", "blank", "unlock"}
  BY JobTypes
<1>1. CASE Setup
  BY <1>0, <1>1 DEF Setup, Prepared
<1>2. CASE ReadDisk \/ CheckToc \/ SwapMedium \/ Swapped \/ AskMedium \/ AnotherMedium
  BY <1>0, <1>2 DEF ReadDisk, CheckToc, AfterChecks, SwapMedium, Swapped, AskMedium, AnotherMedium
<1>3. CASE CreatePipe \/ ForkReader \/ CloseWriteEnd \/ DupStdin
  BY <1>0, <1>3 DEF CreatePipe, ForkReader, CloseWriteEnd, DupStdin
<1>4. CASE Lock
  BY <1>0, <1>4 DEF Lock, AfterNoLock
<1>5. CASE GetSharedMemory \/ AskStart \/ StartReader \/ Deliver \/ DataMissing \/ DeliverFails \/ TakeBuffer \/ ReleaseBuffer
  BY <1>0, <1>5 DEF GetSharedMemory, AskStart, StartReader, Deliver, DataMissing, DeliverFails, ReaderReports,
                    TakeBuffer, ReleaseBuffer, progVars
<1>6. CASE Written \/ Unlock \/ EjectMedium \/ RemoveImage \/ Cleanup
  BY <1>0, <1>6 DEF Written, AfterWrite, Unlock, AfterUnlock, EjectMedium, RemoveImage, Cleanup
<1>7. CASE InitDao \/ SetSpeed \/ SetWriteParameters \/ Calibrate \/ SendCueSheet
  BY <1>0, <1>7 DEF InitDao, SetSpeed, SetWriteParameters, Calibrate, SendCueSheet, Command
<1>8. CASE WriteCommand \/ LongWriteInProgress \/ AllWritten
  BY <1>0, <1>8 DEF WriteCommand, LongWriteInProgress, AllWritten, Writing, Behind
<1>9. CASE FlushCache \/ AbortDao \/ CheckDriveReady \/ SetSimulationMode \/ BlankDisk
  BY <1>0, <1>9 DEF FlushCache, AbortDao, CheckDriveReady, SetSimulationMode, BlankDisk, Command
<1>10. CASE UNCHANGED progVars
  BY <1>10 DEF progVars
<1>11. CASE Interrupt
  BY <1>0, <1>11 DEF Interrupt
<1>12. Burns \/ Person \/ ChildReads \/ ChildEnds \/ Done \/ UNCHANGED vars => UNCHANGED progVars
  BY DEF Burns, Person, ChildReads, ChildEnds, Done, vars, progVars
<1> QED
  BY <1>1, <1>2, <1>3, <1>4, <1>5, <1>6, <1>7, <1>8, <1>9, <1>10, <1>11, <1>12
  DEF Next, CommandNext, DriverNext, Reader
-----------------------------------------------------------------------------
(* The drive.                                                              *)

\* The drive has a cue sheet only from SendCueSheet to the end of the session.
\* The medium of a recording is in the drive and locked by then.
SheetInv ==
    /\ last # NoSession => pc \in Opened \cup {"abortDao"} /\ Records
    /\ Records /\ pc \in Held => locked
    /\ Records /\ pc \in Session => tray = "in"

LEMMA InfoNeedsMedium == ReadDiskInfo /\ diskInfo'.knowsEmpty => Responsive
BY DEF ReadDiskInfo, Refresh, Unknown

LEMMA SheetInit == Init => SheetInv
BY DEF Init, DriveInit, SheetInv, Held, Session, Opened, Preparing, FirstStep, Records

LEMMA SheetStep == PlaceInv /\ SheetInv /\ [Next]_vars => SheetInv'
<1> USE DEF PlaceInv, SheetInv, Records, Recording, Held, Session, Opened, Preparing, Goto, Failed
<1> SUFFICES ASSUME PlaceInv, SheetInv, [Next]_vars PROVE SheetInv'
  OBVIOUS
<1>job. job.command \in {"write", "copy", "fly", "blank", "unlock"} /\ job.simulate \in BOOLEAN
  BY JobTypes DEF PlaceInv
<1>info. ReadDiskInfo /\ diskInfo'.knowsEmpty => Responsive
  BY InfoNeedsMedium
<1>1. CASE Setup
  BY <1>job, <1>info, <1>1 DEF Setup, ReadDiskInfo, Refresh, Prepared, copyVars
<1>2. CASE ReadDisk \/ CheckToc
  BY <1>job, <1>info, <1>2 DEF ReadDisk, CheckToc, AfterChecks, driveVars
<1>3. CASE SwapMedium \/ Swapped \/ AskMedium \/ AnotherMedium
  BY <1>job, <1>info, <1>3 DEF SwapMedium, Swapped, AskMedium, AnotherMedium, ReadDiskInfo, Eject, Insert,
     driveVars, copyVars
<1>4. CASE CreatePipe \/ ForkReader \/ CloseWriteEnd \/ DupStdin
  BY <1>job, <1>info, <1>4 DEF CreatePipe, ForkReader, CloseWriteEnd, DupStdin, OwnEnds, driveVars
<1>5. CASE Lock
  BY <1>job, <1>info, <1>5 DEF Lock, Prevent, Blocked, AfterNoLock, driveVars, copyVars
<1>6. CASE GetSharedMemory \/ AskStart \/ StartReader
  BY <1>job, <1>info, <1>6 DEF GetSharedMemory, AskStart, ReadDiskInfo, StartReader, driveVars, copyVars
<1>7. CASE Deliver \/ DataMissing \/ DeliverFails \/ TakeBuffer \/ ReleaseBuffer
  BY <1>job, <1>info, <1>7 DEF Deliver, DataMissing, DeliverFails, ReaderReports, TakeBuffer, ReleaseBuffer,
     progVars, driveVars, copyVars
<1>8. CASE Written \/ Unlock \/ EjectMedium
  BY <1>job, <1>info, <1>8 DEF Written, AfterWrite, Unlock, Prevent, AfterUnlock, EjectMedium, Eject, driveVars,
     copyVars
<1>9. CASE RemoveImage \/ Cleanup
  BY <1>job, <1>info, <1>9 DEF RemoveImage, Cleanup, KillReader, driveVars
<1>10. CASE InitDao /\ UNCHANGED copyVars
  BY <1>job, <1>info, <1>10 DEF InitDao, ReadDiskInfo, Usable, Responsive, driveVars, copyVars
<1>11. CASE (SetSpeed \/ SetWriteParameters \/ Calibrate) /\ UNCHANGED copyVars
  BY <1>job, <1>info, <1>11 DEF SetSpeed, SetWriteParameters, TestWrite, Calibrate, Command, driveVars, copyVars
<1>12. CASE SendCueSheet /\ UNCHANGED copyVars
  BY <1>job, <1>info, <1>12 DEF SendCueSheet, Command, copyVars
<1>13. CASE WriteCommand /\ UNCHANGED copyVars
  BY <1>job, <1>info, <1>13 DEF WriteCommand, Writing, Accept, copyVars
<1>14. CASE (LongWriteInProgress \/ AllWritten) /\ UNCHANGED copyVars
  BY <1>job, <1>info, <1>14 DEF LongWriteInProgress, AllWritten, Writing, Behind, driveVars, copyVars
<1>15. CASE (FlushCache \/ AbortDao) /\ UNCHANGED copyVars
  BY <1>job, <1>info, <1>15 DEF FlushCache, AbortDao, Synchronize, copyVars
<1>16. CASE (CheckDriveReady \/ SetSimulationMode \/ BlankDisk) /\ UNCHANGED copyVars
  BY <1>job, <1>info, <1>16 DEF CheckDriveReady, SetSimulationMode, BlankDisk, Command, copyVars
<1>17. CASE Burns \/ (~Ended /\ (BurningFails \/ OpenTray) /\ UNCHANGED <<progVars, driverVars, copyVars>>) \/ Person
  BY <1>job, <1>info, <1>17 DEF Burns, BurnOne, BurningFails, OpenTray, Person, CloseTray, Insert, Ended, progVars,
     copyVars
<1>18. CASE ChildReads \/ ChildEnds
  BY <1>job, <1>info, <1>18 DEF ChildReads, ChildEnds, progVars, driveVars
<1>19. CASE Interrupt
  BY <1>job, <1>info, <1>19 DEF Interrupt, Shielded, Ended, driveVars
<1>20. CASE Done \/ UNCHANGED vars
  BY <1>job, <1>info, <1>20 DEF Done, vars, progVars, driveVars, copyVars
<1> QED
  BY <1>1, <1>2, <1>3, <1>4, <1>5, <1>6, <1>7, <1>8, <1>9, <1>10, <1>11, <1>12, <1>13, <1>14, <1>15, <1>16, <1>17,
     <1>18, <1>19, <1>20
  DEF Next, CommandNext, DriverNext, Reader

\* Nobody can take the medium while the drive waits for blocks, for any command,
\* drive and medium: not the program, and no one at the button (preventMediumRemoval()).
THEOREM MediumIsHeld == Spec => MediumStays
<1>1. PlaceInv /\ SheetInv /\ [Next]_vars => [tray = "in" /\ tray' = "out" => last = NoSession]_vars
  <2> SUFFICES ASSUME PlaceInv, SheetInv, [Next]_vars, tray = "in", tray' = "out", last # NoSession PROVE FALSE
    OBVIOUS
  <2>1. locked /\ pc \in Opened \cup {"abortDao"}
    BY DEF SheetInv, Held, Session
  <2>2. tray' # tray
    OBVIOUS
  <2>3. CASE CommandNext
    BY <2>1, <2>2, <2>3 DEF CommandNext, Setup, ReadDiskInfo, ReadDisk, CheckToc, SwapMedium, Swapped, AskMedium,
           CreatePipe, ForkReader, CloseWriteEnd, DupStdin, Lock, Prevent, GetSharedMemory, AskStart, StartReader,
           Deliver, DataMissing, ReaderReports, TakeBuffer, ReleaseBuffer, Written, Unlock, EjectMedium,
           RemoveImage, Cleanup, driveVars, Goto, Opened
  <2>4. CASE DriverNext
    BY <2>2, <2>4 DEF DriverNext, InitDao, ReadDiskInfo, SetSpeed, SetWriteParameters, Calibrate, Command,
       SendCueSheet,
           WriteCommand, Accept, LongWriteInProgress, AllWritten, FlushCache, Synchronize, AbortDao,
           CheckDriveReady, SetSimulationMode, BlankDisk, driveVars
  <2>5. CASE Burns \/ BurningFails \/ OpenTray \/ Person \/ AnotherMedium
    BY <2>1, <2>2, <2>5 DEF Burns, BurnOne, BurningFails, OpenTray, Person, CloseTray, AnotherMedium, Insert
  <2>6. CASE Reader \/ DeliverFails \/ Interrupt \/ Done \/ UNCHANGED vars
    BY <2>2, <2>6 DEF Reader, ChildReads, ChildEnds, DeliverFails, ReaderReports, Interrupt, Done, vars, driveVars
  <2> QED
    BY <2>3, <2>4, <2>5, <2>6 DEF Next
<1> QED
  BY <1>1, PlaceInit, PlaceStep, SheetInit, SheetStep, PTL DEF Spec, MediumStays
-----------------------------------------------------------------------------
(* What a command leaves behind.                                           *)

\* The medium is locked from Lock to Unlock only, unless the drive refuses to unlock it.
LockedInv == locked => refused \/ pc \in Held \cup {"killed"}

\* Only a copy makes an image, and removes it at its end.
CopyInv ==
    /\ image = "there" => job.command = "copy" /\ pc \notin {"setup", "readDisk"}
    /\ pc = "exit" /\ image = "there" => job.keep \/ checked

\* Only a copy on the fly has a reader process and a pipe, and cleans up at its end.
ProcessInv ==
    /\ child # "none" \/ stdin # "terminal" \/ writers # {} => job.command = "fly" /\ pc \notin {"setup", "pipe"}
    /\ pc = "exit" => child \in {"none", "reaped"} /\ stdin = "terminal" /\ writers = {}
    /\ pc \in {"checkToc", "fork"} => child = "none"

LEMMA LeftInit == Init => LockedInv /\ CopyInv /\ ProcessInv
<1> SUFFICES ASSUME Init PROVE LockedInv /\ CopyInv /\ ProcessInv
  OBVIOUS
<1>1. pc = IF job.command = "unlock" THEN "abortDao" ELSE "setup"
  BY JobTypes DEF Init, FirstStep
<1>2. LockedInv
  BY <1>1 DEF Init, LockedInv, Held
<1>3. CopyInv /\ ProcessInv
  BY <1>1 DEF Init, CopyInv, ProcessInv
<1> QED
  BY <1>2, <1>3

LEMMA LockedStep == PlaceInv /\ LockedInv /\ [Next]_vars => LockedInv'
<1> USE DEF PlaceInv, LockedInv, Records, Recording, Held, Session, Opened, Preparing, Goto, Failed
<1> SUFFICES ASSUME PlaceInv, LockedInv, [Next]_vars PROVE LockedInv'
  OBVIOUS
<1>job. job.command \in {"write", "copy", "fly", "blank", "unlock"} /\ job.simulate \in BOOLEAN
  BY JobTypes DEF PlaceInv
<1>info. ReadDiskInfo /\ diskInfo'.knowsEmpty => Responsive
  BY InfoNeedsMedium
<1>1. CASE Setup
  BY <1>job, <1>info, <1>1 DEF Setup, ReadDiskInfo, Refresh, Prepared, copyVars
<1>2. CASE ReadDisk \/ CheckToc
  BY <1>job, <1>info, <1>2 DEF ReadDisk, CheckToc, AfterChecks, driveVars
<1>3. CASE SwapMedium \/ Swapped \/ AskMedium \/ AnotherMedium
  BY <1>job, <1>info, <1>3 DEF SwapMedium, Swapped, AskMedium, AnotherMedium, ReadDiskInfo, Eject, Insert,
     driveVars, copyVars
<1>4. CASE CreatePipe \/ ForkReader \/ CloseWriteEnd \/ DupStdin
  BY <1>job, <1>info, <1>4 DEF CreatePipe, ForkReader, CloseWriteEnd, DupStdin, OwnEnds, driveVars
<1>5. CASE Lock
  BY <1>job, <1>info, <1>5 DEF Lock, Prevent, Blocked, AfterNoLock, driveVars, copyVars
<1>6. CASE GetSharedMemory \/ AskStart \/ StartReader
  BY <1>job, <1>info, <1>6 DEF GetSharedMemory, AskStart, ReadDiskInfo, StartReader, driveVars, copyVars
<1>7. CASE Deliver \/ DataMissing \/ DeliverFails \/ TakeBuffer \/ ReleaseBuffer
  BY <1>job, <1>info, <1>7 DEF Deliver, DataMissing, DeliverFails, ReaderReports, TakeBuffer, ReleaseBuffer,
     progVars, driveVars, copyVars
<1>8. CASE Written \/ Unlock \/ EjectMedium
  BY <1>job, <1>info, <1>8 DEF Written, AfterWrite, Unlock, Prevent, AfterUnlock, EjectMedium, Eject, driveVars,
     copyVars
<1>9. CASE RemoveImage \/ Cleanup
  BY <1>job, <1>info, <1>9 DEF RemoveImage, Cleanup, KillReader, driveVars
<1>10. CASE InitDao /\ UNCHANGED copyVars
  BY <1>job, <1>info, <1>10 DEF InitDao, ReadDiskInfo, Usable, Responsive, driveVars, copyVars
<1>11. CASE (SetSpeed \/ SetWriteParameters \/ Calibrate) /\ UNCHANGED copyVars
  BY <1>job, <1>info, <1>11 DEF SetSpeed, SetWriteParameters, TestWrite, Calibrate, Command, driveVars, copyVars
<1>12. CASE SendCueSheet /\ UNCHANGED copyVars
  BY <1>job, <1>info, <1>12 DEF SendCueSheet, Command, copyVars
<1>13. CASE WriteCommand /\ UNCHANGED copyVars
  BY <1>job, <1>info, <1>13 DEF WriteCommand, Writing, Accept, copyVars
<1>14. CASE (LongWriteInProgress \/ AllWritten) /\ UNCHANGED copyVars
  BY <1>job, <1>info, <1>14 DEF LongWriteInProgress, AllWritten, Writing, Behind, driveVars, copyVars
<1>15. CASE (FlushCache \/ AbortDao) /\ UNCHANGED copyVars
  BY <1>job, <1>info, <1>15 DEF FlushCache, AbortDao, Synchronize, copyVars
<1>16. CASE (CheckDriveReady \/ SetSimulationMode \/ BlankDisk) /\ UNCHANGED copyVars
  BY <1>job, <1>info, <1>16 DEF CheckDriveReady, SetSimulationMode, BlankDisk, Command, copyVars
<1>17. CASE Burns \/ (~Ended /\ (BurningFails \/ OpenTray) /\ UNCHANGED <<progVars, driverVars, copyVars>>) \/ Person
  BY <1>job, <1>info, <1>17 DEF Burns, BurnOne, BurningFails, OpenTray, Person, CloseTray, Insert, Ended, progVars,
     copyVars
<1>18. CASE ChildReads \/ ChildEnds
  BY <1>job, <1>info, <1>18 DEF ChildReads, ChildEnds, progVars, driveVars
<1>19. CASE Interrupt
  BY <1>job, <1>info, <1>19 DEF Interrupt, Shielded, Ended, driveVars
<1>20. CASE Done \/ UNCHANGED vars
  BY <1>job, <1>info, <1>20 DEF Done, vars, progVars, driveVars, copyVars
<1> QED
  BY <1>1, <1>2, <1>3, <1>4, <1>5, <1>6, <1>7, <1>8, <1>9, <1>10, <1>11, <1>12, <1>13, <1>14, <1>15, <1>16, <1>17,
     <1>18, <1>19, <1>20
  DEF Next, CommandNext, DriverNext, Reader

LEMMA CopyStep == PlaceInv /\ CopyInv /\ [Next]_vars => CopyInv'
<1> USE DEF PlaceInv, CopyInv, Records, Recording, Held, Session, Opened, Preparing, Goto, Failed
<1> SUFFICES ASSUME PlaceInv, CopyInv, [Next]_vars PROVE CopyInv'
  OBVIOUS
<1>job. job.command \in {"write", "copy", "fly", "blank", "unlock"} /\ job.simulate \in BOOLEAN
  BY JobTypes DEF PlaceInv
<1>info. ReadDiskInfo /\ diskInfo'.knowsEmpty => Responsive
  BY InfoNeedsMedium
<1>1. CASE Setup
  BY <1>job, <1>info, <1>1 DEF Setup, ReadDiskInfo, Refresh, Prepared, copyVars
<1>2. CASE ReadDisk \/ CheckToc
  BY <1>job, <1>info, <1>2 DEF ReadDisk, CheckToc, AfterChecks, driveVars
<1>3. CASE SwapMedium \/ Swapped \/ AskMedium \/ AnotherMedium
  BY <1>job, <1>info, <1>3 DEF SwapMedium, Swapped, AskMedium, AnotherMedium, ReadDiskInfo, Eject, Insert,
     driveVars, copyVars
<1>4. CASE CreatePipe \/ ForkReader \/ CloseWriteEnd \/ DupStdin
  BY <1>job, <1>info, <1>4 DEF CreatePipe, ForkReader, CloseWriteEnd, DupStdin, OwnEnds, driveVars
<1>5. CASE Lock
  BY <1>job, <1>info, <1>5 DEF Lock, Prevent, Blocked, AfterNoLock, driveVars, copyVars
<1>6. CASE GetSharedMemory \/ AskStart \/ StartReader
  BY <1>job, <1>info, <1>6 DEF GetSharedMemory, AskStart, ReadDiskInfo, StartReader, driveVars, copyVars
<1>7. CASE Deliver \/ DataMissing \/ DeliverFails \/ TakeBuffer \/ ReleaseBuffer
  BY <1>job, <1>info, <1>7 DEF Deliver, DataMissing, DeliverFails, ReaderReports, TakeBuffer, ReleaseBuffer,
     progVars, driveVars, copyVars
<1>8. CASE Written \/ Unlock \/ EjectMedium
  BY <1>job, <1>info, <1>8 DEF Written, AfterWrite, Unlock, Prevent, AfterUnlock, EjectMedium, Eject, driveVars,
     copyVars
<1>9. CASE RemoveImage \/ Cleanup
  BY <1>job, <1>info, <1>9 DEF RemoveImage, Cleanup, KillReader, driveVars
<1>10. CASE InitDao /\ UNCHANGED copyVars
  BY <1>job, <1>info, <1>10 DEF InitDao, ReadDiskInfo, Usable, Responsive, driveVars, copyVars
<1>11. CASE (SetSpeed \/ SetWriteParameters \/ Calibrate) /\ UNCHANGED copyVars
  BY <1>job, <1>info, <1>11 DEF SetSpeed, SetWriteParameters, TestWrite, Calibrate, Command, driveVars, copyVars
<1>12. CASE SendCueSheet /\ UNCHANGED copyVars
  BY <1>job, <1>info, <1>12 DEF SendCueSheet, Command, copyVars
<1>13. CASE WriteCommand /\ UNCHANGED copyVars
  BY <1>job, <1>info, <1>13 DEF WriteCommand, Writing, Accept, copyVars
<1>14. CASE (LongWriteInProgress \/ AllWritten) /\ UNCHANGED copyVars
  BY <1>job, <1>info, <1>14 DEF LongWriteInProgress, AllWritten, Writing, Behind, driveVars, copyVars
<1>15. CASE (FlushCache \/ AbortDao) /\ UNCHANGED copyVars
  BY <1>job, <1>info, <1>15 DEF FlushCache, AbortDao, Synchronize, copyVars
<1>16. CASE (CheckDriveReady \/ SetSimulationMode \/ BlankDisk) /\ UNCHANGED copyVars
  BY <1>job, <1>info, <1>16 DEF CheckDriveReady, SetSimulationMode, BlankDisk, Command, copyVars
<1>17. CASE Burns \/ (~Ended /\ (BurningFails \/ OpenTray) /\ UNCHANGED <<progVars, driverVars, copyVars>>) \/ Person
  BY <1>job, <1>info, <1>17 DEF Burns, BurnOne, BurningFails, OpenTray, Person, CloseTray, Insert, Ended, progVars,
     copyVars
<1>18. CASE ChildReads \/ ChildEnds
  BY <1>job, <1>info, <1>18 DEF ChildReads, ChildEnds, progVars, driveVars
<1>19. CASE Interrupt
  BY <1>job, <1>info, <1>19 DEF Interrupt, Shielded, Ended, driveVars
<1>20. CASE Done \/ UNCHANGED vars
  BY <1>job, <1>info, <1>20 DEF Done, vars, progVars, driveVars, copyVars
<1> QED
  BY <1>1, <1>2, <1>3, <1>4, <1>5, <1>6, <1>7, <1>8, <1>9, <1>10, <1>11, <1>12, <1>13, <1>14, <1>15, <1>16, <1>17,
     <1>18, <1>19, <1>20
  DEF Next, CommandNext, DriverNext, Reader

LEMMA ProcessStep == PlaceInv /\ ProcessInv /\ [Next]_vars => ProcessInv'
<1> USE DEF PlaceInv, ProcessInv, Records, Recording, Held, Session, Opened, Preparing, Goto, Failed
<1> SUFFICES ASSUME PlaceInv, ProcessInv, [Next]_vars PROVE ProcessInv'
  OBVIOUS
<1>job. job.command \in {"write", "copy", "fly", "blank", "unlock"} /\ job.simulate \in BOOLEAN
  BY JobTypes DEF PlaceInv
<1>info. ReadDiskInfo /\ diskInfo'.knowsEmpty => Responsive
  BY InfoNeedsMedium
<1>1. CASE Setup
  BY <1>job, <1>info, <1>1 DEF Setup, ReadDiskInfo, Refresh, Prepared, copyVars
<1>2. CASE ReadDisk \/ CheckToc
  BY <1>job, <1>info, <1>2 DEF ReadDisk, CheckToc, AfterChecks, driveVars
<1>3. CASE SwapMedium \/ Swapped \/ AskMedium \/ AnotherMedium
  BY <1>job, <1>info, <1>3 DEF SwapMedium, Swapped, AskMedium, AnotherMedium, ReadDiskInfo, Eject, Insert,
     driveVars, copyVars
<1>4. CASE CreatePipe \/ ForkReader \/ CloseWriteEnd \/ DupStdin
  BY <1>job, <1>info, <1>4 DEF CreatePipe, ForkReader, CloseWriteEnd, DupStdin, OwnEnds, driveVars
<1>5. CASE Lock
  BY <1>job, <1>info, <1>5 DEF Lock, Prevent, Blocked, AfterNoLock, driveVars, copyVars
<1>6. CASE GetSharedMemory \/ AskStart \/ StartReader
  BY <1>job, <1>info, <1>6 DEF GetSharedMemory, AskStart, ReadDiskInfo, StartReader, driveVars, copyVars
<1>7. CASE Deliver \/ DataMissing \/ DeliverFails \/ TakeBuffer \/ ReleaseBuffer
  BY <1>job, <1>info, <1>7 DEF Deliver, DataMissing, DeliverFails, ReaderReports, TakeBuffer, ReleaseBuffer,
     progVars, driveVars, copyVars
<1>8. CASE Written \/ Unlock \/ EjectMedium
  BY <1>job, <1>info, <1>8 DEF Written, AfterWrite, Unlock, Prevent, AfterUnlock, EjectMedium, Eject, driveVars,
     copyVars
<1>9. CASE RemoveImage \/ Cleanup
  BY <1>job, <1>info, <1>9 DEF RemoveImage, Cleanup, KillReader, driveVars
<1>10. CASE InitDao /\ UNCHANGED copyVars
  BY <1>job, <1>info, <1>10 DEF InitDao, ReadDiskInfo, Usable, Responsive, driveVars, copyVars
<1>11. CASE (SetSpeed \/ SetWriteParameters \/ Calibrate) /\ UNCHANGED copyVars
  BY <1>job, <1>info, <1>11 DEF SetSpeed, SetWriteParameters, TestWrite, Calibrate, Command, driveVars, copyVars
<1>12. CASE SendCueSheet /\ UNCHANGED copyVars
  BY <1>job, <1>info, <1>12 DEF SendCueSheet, Command, copyVars
<1>13. CASE WriteCommand /\ UNCHANGED copyVars
  BY <1>job, <1>info, <1>13 DEF WriteCommand, Writing, Accept, copyVars
<1>14. CASE (LongWriteInProgress \/ AllWritten) /\ UNCHANGED copyVars
  BY <1>job, <1>info, <1>14 DEF LongWriteInProgress, AllWritten, Writing, Behind, driveVars, copyVars
<1>15. CASE (FlushCache \/ AbortDao) /\ UNCHANGED copyVars
  BY <1>job, <1>info, <1>15 DEF FlushCache, AbortDao, Synchronize, copyVars
<1>16. CASE (CheckDriveReady \/ SetSimulationMode \/ BlankDisk) /\ UNCHANGED copyVars
  BY <1>job, <1>info, <1>16 DEF CheckDriveReady, SetSimulationMode, BlankDisk, Command, copyVars
<1>17. CASE Burns \/ (~Ended /\ (BurningFails \/ OpenTray) /\ UNCHANGED <<progVars, driverVars, copyVars>>) \/ Person
  BY <1>job, <1>info, <1>17 DEF Burns, BurnOne, BurningFails, OpenTray, Person, CloseTray, Insert, Ended, progVars,
     copyVars
<1>18. CASE ChildReads \/ ChildEnds
  BY <1>job, <1>info, <1>18 DEF ChildReads, ChildEnds, progVars, driveVars
<1>19. CASE Interrupt
  BY <1>job, <1>info, <1>19 DEF Interrupt, Shielded, Ended, driveVars
<1>20. CASE Done \/ UNCHANGED vars
  BY <1>job, <1>info, <1>20 DEF Done, vars, progVars, driveVars, copyVars
<1> QED
  BY <1>1, <1>2, <1>3, <1>4, <1>5, <1>6, <1>7, <1>8, <1>9, <1>10, <1>11, <1>12, <1>13, <1>14, <1>15, <1>16, <1>17,
     <1>18, <1>19, <1>20
  DEF Next, CommandNext, DriverNext, Reader

\* Every way out of a command, an interrupt too, leaves no open session; one that
\* is not killed undoes all it has done, for every command, option and failure
\* (writeDiskAtOnce(), copyCd(), copyCdOnTheFly(), main()).
THEOREM NothingLeft == Spec => []LeavesNothingBehind
<1>1. SheetInv /\ LockedInv /\ CopyInv /\ ProcessInv => LeavesNothingBehind
  BY DEF SheetInv, LockedInv, CopyInv, ProcessInv, LeavesNothingBehind, Ended, Held, Session, Opened, Preparing
<1> QED
  BY <1>1, PlaceInit, PlaceStep, SheetInit, SheetStep, LeftInit, LockedStep, CopyStep, ProcessStep, PTL DEF Spec
-----------------------------------------------------------------------------
(* Simulation.                                                             *)

\* What a simulated recording writes, it writes with the test-write bit.  The
\* bit is lost when the driver asks for the session, but only before it is set.
SimulationInv ==
    Records /\ job.simulate =>
        /\ burned = <<>> /\ pc # "calibrate"
        /\ cache # <<>> \/ last # NoSession \/ pc \in Opened \cup {"cueSheet"} => testWrite
        /\ pc \notin Opened \cup {"checkReady", "flushAgain", "abortDao", "written", "unlock", "eject",
                                  "removeImage", "cleanup", "exit", "killed"} => cache = <<>> /\ last = NoSession

LEMMA SimulationInit == Init => SimulationInv
BY JobTypes DEF Init, DriveInit, SimulationInv, Records, Opened, FirstStep

LEMMA SimulationStep == PlaceInv /\ SheetInv /\ SimulationInv /\ [Next]_vars => SimulationInv'
<1> USE DEF PlaceInv, SheetInv, SimulationInv, Records, Recording, Held, Session, Opened, Preparing, Goto, Failed
<1> SUFFICES ASSUME PlaceInv, SheetInv, SimulationInv, [Next]_vars PROVE SimulationInv'
  OBVIOUS
<1>job. job.command \in {"write", "copy", "fly", "blank", "unlock"} /\ job.simulate \in BOOLEAN
  BY JobTypes DEF PlaceInv
<1>info. ReadDiskInfo /\ diskInfo'.knowsEmpty => Responsive
  BY InfoNeedsMedium
<1>1. CASE Setup
  BY <1>job, <1>info, <1>1 DEF Setup, ReadDiskInfo, Refresh, Prepared, copyVars
<1>2. CASE ReadDisk \/ CheckToc
  BY <1>job, <1>info, <1>2 DEF ReadDisk, CheckToc, AfterChecks, driveVars
<1>3. CASE SwapMedium \/ Swapped \/ AskMedium \/ AnotherMedium
  BY <1>job, <1>info, <1>3 DEF SwapMedium, Swapped, AskMedium, AnotherMedium, ReadDiskInfo, Eject, Insert,
     driveVars, copyVars
<1>4. CASE CreatePipe \/ ForkReader \/ CloseWriteEnd \/ DupStdin
  BY <1>job, <1>info, <1>4 DEF CreatePipe, ForkReader, CloseWriteEnd, DupStdin, OwnEnds, driveVars
<1>5. CASE Lock
  BY <1>job, <1>info, <1>5 DEF Lock, Prevent, Blocked, AfterNoLock, driveVars, copyVars
<1>6. CASE GetSharedMemory \/ AskStart \/ StartReader
  BY <1>job, <1>info, <1>6 DEF GetSharedMemory, AskStart, ReadDiskInfo, StartReader, driveVars, copyVars
<1>7. CASE Deliver \/ DataMissing \/ DeliverFails \/ TakeBuffer \/ ReleaseBuffer
  BY <1>job, <1>info, <1>7 DEF Deliver, DataMissing, DeliverFails, ReaderReports, TakeBuffer, ReleaseBuffer,
     progVars, driveVars, copyVars
<1>8. CASE Written \/ Unlock \/ EjectMedium
  BY <1>job, <1>info, <1>8 DEF Written, AfterWrite, Unlock, Prevent, AfterUnlock, EjectMedium, Eject, driveVars,
     copyVars
<1>9. CASE RemoveImage \/ Cleanup
  BY <1>job, <1>info, <1>9 DEF RemoveImage, Cleanup, KillReader, driveVars
<1>10. CASE InitDao /\ UNCHANGED copyVars
  BY <1>job, <1>info, <1>10 DEF InitDao, ReadDiskInfo, Usable, Responsive, driveVars, copyVars
<1>11. CASE (SetSpeed \/ SetWriteParameters \/ Calibrate) /\ UNCHANGED copyVars
  BY <1>job, <1>info, <1>11 DEF SetSpeed, SetWriteParameters, TestWrite, Calibrate, Command, driveVars, copyVars
<1>12. CASE SendCueSheet /\ UNCHANGED copyVars
  BY <1>job, <1>info, <1>12 DEF SendCueSheet, Command, copyVars
<1>13. CASE WriteCommand /\ UNCHANGED copyVars
  BY <1>job, <1>info, <1>13 DEF WriteCommand, Writing, Accept, copyVars
<1>14. CASE (LongWriteInProgress \/ AllWritten) /\ UNCHANGED copyVars
  BY <1>job, <1>info, <1>14 DEF LongWriteInProgress, AllWritten, Writing, Behind, driveVars, copyVars
<1>15. CASE (FlushCache \/ AbortDao) /\ UNCHANGED copyVars
  BY <1>job, <1>info, <1>15 DEF FlushCache, AbortDao, Synchronize, copyVars
<1>16. CASE (CheckDriveReady \/ SetSimulationMode \/ BlankDisk) /\ UNCHANGED copyVars
  BY <1>job, <1>info, <1>16 DEF CheckDriveReady, SetSimulationMode, BlankDisk, Command, copyVars
<1>17. CASE Burns \/ (~Ended /\ (BurningFails \/ OpenTray) /\ UNCHANGED <<progVars, driverVars, copyVars>>) \/ Person
  BY <1>job, <1>info, <1>17 DEF Burns, BurnOne, BurningFails, OpenTray, Person, CloseTray, Insert, Ended, progVars,
     copyVars
<1>18. CASE ChildReads \/ ChildEnds
  BY <1>job, <1>info, <1>18 DEF ChildReads, ChildEnds, progVars, driveVars
<1>19. CASE Interrupt
  BY <1>job, <1>info, <1>19 DEF Interrupt, Shielded, Ended, driveVars
<1>20. CASE Done \/ UNCHANGED vars
  BY <1>job, <1>info, <1>20 DEF Done, vars, progVars, driveVars, copyVars
<1> QED
  BY <1>1, <1>2, <1>3, <1>4, <1>5, <1>6, <1>7, <1>8, <1>9, <1>10, <1>11, <1>12, <1>13, <1>14, <1>15, <1>16, <1>17,
     <1>18, <1>19, <1>20
  DEF Next, CommandNext, DriverNext, Reader

\* A simulated recording changes nothing on the medium, for every command, drive
\* and failure (setWriteParameters(), diskInfo()).
THEOREM SimulationIsDry == Spec => []SimulationBurnsNothing
<1>1. SimulationInv => SimulationBurnsNothing
  BY DEF SimulationInv, SimulationBurnsNothing
<1> QED
  BY <1>1, PlaceInit, PlaceStep, SheetInit, SheetStep, SimulationInit, SimulationStep, PTL DEF Spec
-----------------------------------------------------------------------------
(* Types.                                                                  *)

Block == {"text", "zero", "data", "pad", "leadout", "erase"} \X Nat
InfoType == [knowsEmpty : BOOLEAN, knowsAppend : BOOLEAN, empty : BOOLEAN, append : BOOLEAN, start : Nat]
MediumType == [empty : BOOLEAN, append : BOOLEAN, start : Nat]

StateTypes ==
    /\ err \in {0, 1} /\ tray \in {"in", "out"}
    /\ image \in {"none", "there", "removed"} /\ child \in {"none", "reading", "sleeping", "reaped"}
    /\ stdin \in {"terminal", "pipe"}
FlagTypes == healthy \in BOOLEAN /\ locked \in BOOLEAN /\ testWrite \in BOOLEAN /\ deferred \in BOOLEAN
DiscTypes == medium \in Media \cup {Blank} /\ swaps \in 0 .. MaxSwaps /\ diskInfo \in InfoType
CountTypes == writers \subseteq {"parent", "child"} /\ input \in 0 .. Length /\ produced \in 0 .. Length
AddressTypes == next \in Int /\ last \in Int /\ lba \in Int
BlockTypes ==
    /\ cache \in Seq(Block) /\ burned \in Seq(Block) /\ todo \in Seq(Block) /\ pipe \in Seq(Block)
    /\ sent \in Seq(Int \X Block)

TypeInv == StateTypes /\ FlagTypes /\ DiscTypes /\ CountTypes /\ AddressTypes /\ BlockTypes

LEMMA Sizes ==
    /\ BlocksPerWrite \in Nat \ {0} /\ LeadInBlocks \in Nat \ {0} /\ Length \in Nat \ {0}
    /\ CacheBlocks \in Nat \ {0} /\ Pregap \in Nat \ {0} /\ MaxSwaps \in Nat
    /\ BufferBlocks \in Nat \ {0} /\ PipeBlocks \in Nat \ {0}
BY DriveAssumption, DriverAssumption, CommandAssumption

LEMMA Blocks ==
    /\ Text \in Block /\ ZeroBlock \in Block /\ Pad \in Block /\ LeadOut \in Block /\ Erase \in Block
    /\ \A k \in Nat : Data(k) \in Block
    /\ \A n \in Nat : Zeros(n) \in Seq(Block)
    /\ <<>> \in Seq(Block)
<1>1. /\ Text \in Block /\ ZeroBlock \in Block /\ Pad \in Block /\ LeadOut \in Block /\ Erase \in Block
      /\ \A k \in Nat : Data(k) \in Block
  BY DEF Block, Text, ZeroBlock, Pad, LeadOut, Erase, Data
<1>2. \A n \in Nat : Zeros(n) \in Seq(Block)
  BY <1>1 DEF Zeros
<1> QED
  BY <1>1, <1>2

LEMMA MediumTypes ==
    ASSUME NEW m \in Media \cup {Blank}
    PROVE  m \in MediumType
<1>1. m \in Media => m \in MediumType
  BY DriveAssumption DEF MediumType
<1>2. Blank \in MediumType
  BY DEF MediumType, Blank
<1> QED
  BY <1>1, <1>2

LEMMA AnswerTypes ==
    ASSUME DiscTypes, Refresh
    PROVE  diskInfo' \in InfoType
<1>1. PICK m \in MediumType : m = medium
  BY MediumTypes DEF DiscTypes
<1>2. Told(m) \in InfoType /\ Unknown \in InfoType /\ SessionsOnly(m) \in InfoType
  BY DEF Told, Unknown, SessionsOnly, InfoType, MediumType
<1>3. Guessed(m) \in InfoType
  <2>1. PICK n \in Nat : n = m.start + 1
    BY DEF MediumType
  <2>2. Guessed(m) = [Told(m) EXCEPT !.start = n]
    BY <2>1 DEF Guessed, Told
  <2> QED
    BY <1>2, <2>2 DEF InfoType
<1> QED
  BY <1>1, <1>2, <1>3 DEF Refresh, Answers

LEMMA ChunkTypes ==
    ASSUME BlockTypes, todo # <<>>
    PROVE  /\ Chunk \in Seq(Block) /\ Len(Chunk) \in 1 .. Len(todo) /\ Len(Chunk) <= BlocksPerWrite
           /\ \A i \in 1 .. Len(Chunk) : Chunk[i] = todo[i]
           /\ SubSeq(todo, Len(Chunk) + 1, Len(todo)) \in Seq(Block)
           /\ Len(SubSeq(todo, Len(Chunk) + 1, Len(todo))) = Len(todo) - Len(Chunk)
           /\ \A i \in 1 .. Len(todo) - Len(Chunk) :
                 SubSeq(todo, Len(Chunk) + 1, Len(todo))[i] = todo[Len(Chunk) + i]
<1>1. todo \in Seq(Block) /\ Len(todo) \in Nat \ {0}
  BY EmptySeq DEF BlockTypes
<1>2. PICK n \in 1 .. Len(todo) : n = (IF Len(todo) < BlocksPerWrite THEN Len(todo) ELSE BlocksPerWrite)
  BY <1>1, Sizes
<1>3. n <= BlocksPerWrite
  BY <1>1, <1>2, Sizes
<1>4. Chunk = SubSeq(todo, 1, n)
  BY <1>2 DEF Chunk
<1>5. Chunk \in Seq(Block) /\ Len(Chunk) = n /\ \A i \in 1 .. n : Chunk[i] = todo[i]
  BY <1>1, <1>2, <1>4
<1>6. /\ SubSeq(todo, n + 1, Len(todo)) \in Seq(Block)
      /\ Len(SubSeq(todo, n + 1, Len(todo))) = Len(todo) - n
      /\ \A i \in 1 .. Len(todo) - n : SubSeq(todo, n + 1, Len(todo))[i] = todo[n + i]
  BY <1>1, <1>2
<1> QED
  BY <1>1, <1>2, <1>3, <1>5, <1>6

LEMMA SentBlocks ==
    ASSUME NEW chunk \in Seq(Block), NEW at \in Int
    PROVE  /\ [i \in 1 .. Len(chunk) |-> <<at + i - 1, chunk[i]>>] \in Seq(Int \X Block)
           /\ Len([i \in 1 .. Len(chunk) |-> <<at + i - 1, chunk[i]>>]) = Len(chunk)
<1>1. Len(chunk) \in Nat /\ \A i \in 1 .. Len(chunk) : <<at + i - 1, chunk[i]>> \in Int \X Block
  OBVIOUS
<1> QED
  BY <1>1

LEMMA TypeInit == Init => TypeInv
<1> SUFFICES ASSUME Init PROVE TypeInv
  OBVIOUS
<1>1. StateTypes /\ FlagTypes
  <2>1. locked \in BOOLEAN
    BY DEF Init
  <2> QED
    BY <2>1 DEF Init, DriveInit, StateTypes, FlagTypes
<1>2. DiscTypes
  BY Sizes DEF Init, DriveInit, DiscTypes, Unknown, InfoType
<1>3. CountTypes /\ AddressTypes
  BY Sizes DEF Init, DriveInit, CountTypes, AddressTypes, AnyAddress, NoSession
<1>4. BlockTypes
  BY DEF Init, DriveInit, BlockTypes
<1> QED
  BY <1>1, <1>2, <1>3, <1>4 DEF TypeInv

LEMMA StateStep == PlaceInv /\ StateTypes /\ [Next]_vars => StateTypes'
<1> USE DEF StateTypes, Failed
<1> SUFFICES ASSUME PlaceInv, StateTypes, [Next]_vars PROVE StateTypes'
  OBVIOUS
<1>job. job.command \in {"write", "copy", "fly", "blank", "unlock"} /\ job.simulate \in BOOLEAN
  BY JobTypes DEF PlaceInv
<1>info. ReadDiskInfo /\ diskInfo'.knowsEmpty => Responsive
  BY InfoNeedsMedium
<1>1. CASE Setup
  BY <1>job, <1>info, <1>1 DEF Setup, ReadDiskInfo, Refresh, Prepared, copyVars
<1>2. CASE ReadDisk \/ CheckToc
  BY <1>job, <1>info, <1>2 DEF ReadDisk, CheckToc, AfterChecks, driveVars, driverVars
<1>3. CASE SwapMedium \/ Swapped \/ AskMedium \/ AnotherMedium
  BY <1>job, <1>info, <1>3 DEF SwapMedium, Swapped, AskMedium, AnotherMedium, ReadDiskInfo, Eject, Insert,
     driveVars, driverVars, copyVars
<1>4. CASE CreatePipe \/ ForkReader \/ CloseWriteEnd \/ DupStdin
  BY <1>job, <1>info, <1>4 DEF CreatePipe, ForkReader, CloseWriteEnd, DupStdin, OwnEnds, driveVars, driverVars
<1>5. CASE Lock
  BY <1>job, <1>info, <1>5 DEF Lock, Prevent, Blocked, AfterNoLock, driveVars, driverVars, copyVars
<1>6. CASE GetSharedMemory \/ AskStart \/ StartReader
  BY <1>job, <1>info, <1>6 DEF GetSharedMemory, AskStart, ReadDiskInfo, StartReader, driveVars, driverVars, copyVars
<1>7. CASE Deliver \/ DataMissing \/ DeliverFails \/ TakeBuffer \/ ReleaseBuffer
  BY <1>job, <1>info, <1>7 DEF Deliver, DataMissing, DeliverFails, ReaderReports, TakeBuffer, ReleaseBuffer,
     progVars, driveVars, driverVars, copyVars
<1>8. CASE Written \/ Unlock \/ EjectMedium
  BY <1>job, <1>info, <1>8 DEF Written, AfterWrite, Unlock, Prevent, AfterUnlock, EjectMedium, Eject, driveVars,
     driverVars, copyVars
<1>9. CASE RemoveImage \/ Cleanup
  BY <1>job, <1>info, <1>9 DEF RemoveImage, Cleanup, KillReader, driveVars, driverVars
<1>10. CASE InitDao /\ UNCHANGED copyVars
  BY <1>job, <1>info, <1>10 DEF InitDao, ReadDiskInfo, Usable, Responsive, driveVars, driverVars, copyVars
<1>11. CASE (SetSpeed \/ SetWriteParameters \/ Calibrate) /\ UNCHANGED copyVars
  BY <1>job, <1>info, <1>11 DEF SetSpeed, SetWriteParameters, TestWrite, Calibrate, Command, driveVars, driverVars,
     copyVars
<1>12. CASE SendCueSheet /\ UNCHANGED copyVars
  BY <1>job, <1>info, <1>12 DEF SendCueSheet, Command, copyVars
<1>13. CASE WriteCommand /\ UNCHANGED copyVars
  BY <1>job, <1>info, <1>13 DEF WriteCommand, Writing, Accept, copyVars
<1>14. CASE (LongWriteInProgress \/ AllWritten) /\ UNCHANGED copyVars
  BY <1>job, <1>info, <1>14 DEF LongWriteInProgress, AllWritten, Writing, Behind, driveVars, driverVars, copyVars
<1>15. CASE (FlushCache \/ AbortDao) /\ UNCHANGED copyVars
  BY <1>job, <1>info, <1>15 DEF FlushCache, AbortDao, Synchronize, driverVars, copyVars
<1>16. CASE (CheckDriveReady \/ SetSimulationMode \/ BlankDisk) /\ UNCHANGED copyVars
  BY <1>job, <1>info, <1>16 DEF CheckDriveReady, SetSimulationMode, BlankDisk, Command, driverVars, copyVars
<1>17. CASE Burns \/ (~Ended /\ (BurningFails \/ OpenTray) /\ UNCHANGED <<progVars, driverVars, copyVars>>) \/ Person
  BY <1>job, <1>info, <1>17 DEF Burns, BurnOne, BurningFails, OpenTray, Person, CloseTray, Insert, Ended, progVars,
     driverVars, copyVars
<1>18. CASE ChildReads \/ ChildEnds
  BY <1>job, <1>info, <1>18 DEF ChildReads, ChildEnds, progVars, driveVars, driverVars
<1>19. CASE Interrupt
  BY <1>job, <1>info, <1>19 DEF Interrupt, Ended, Shielded, driveVars, driverVars
<1>20. CASE Done \/ UNCHANGED vars
  BY <1>job, <1>info, <1>20 DEF Done, vars, progVars, driveVars, driverVars, copyVars
<1> QED
  BY <1>1, <1>2, <1>3, <1>4, <1>5, <1>6, <1>7, <1>8, <1>9, <1>10, <1>11, <1>12, <1>13, <1>14, <1>15, <1>16, <1>17,
     <1>18, <1>19, <1>20
  DEF Next, CommandNext, DriverNext, Reader

LEMMA FlagStep == PlaceInv /\ FlagTypes /\ [Next]_vars => FlagTypes'
<1> USE DEF FlagTypes
<1> SUFFICES ASSUME PlaceInv, FlagTypes, [Next]_vars PROVE FlagTypes'
  OBVIOUS
<1>job. job.command \in {"write", "copy", "fly", "blank", "unlock"} /\ job.simulate \in BOOLEAN
  BY JobTypes DEF PlaceInv
<1>info. ReadDiskInfo /\ diskInfo'.knowsEmpty => Responsive
  BY InfoNeedsMedium
<1>1. CASE Setup
  BY <1>job, <1>info, <1>1 DEF Setup, ReadDiskInfo, Refresh, Prepared, copyVars
<1>2. CASE ReadDisk \/ CheckToc
  BY <1>job, <1>info, <1>2 DEF ReadDisk, CheckToc, AfterChecks, driveVars, driverVars
<1>3. CASE SwapMedium \/ Swapped \/ AskMedium \/ AnotherMedium
  BY <1>job, <1>info, <1>3 DEF SwapMedium, Swapped, AskMedium, AnotherMedium, ReadDiskInfo, Eject, Insert,
     driveVars, driverVars, copyVars
<1>4. CASE CreatePipe \/ ForkReader \/ CloseWriteEnd \/ DupStdin
  BY <1>job, <1>info, <1>4 DEF CreatePipe, ForkReader, CloseWriteEnd, DupStdin, OwnEnds, driveVars, driverVars
<1>5. CASE Lock
  BY <1>job, <1>info, <1>5 DEF Lock, Prevent, Blocked, AfterNoLock, driveVars, driverVars, copyVars
<1>6. CASE GetSharedMemory \/ AskStart \/ StartReader
  BY <1>job, <1>info, <1>6 DEF GetSharedMemory, AskStart, ReadDiskInfo, StartReader, driveVars, driverVars, copyVars
<1>7. CASE Deliver \/ DataMissing \/ DeliverFails \/ TakeBuffer \/ ReleaseBuffer
  BY <1>job, <1>info, <1>7 DEF Deliver, DataMissing, DeliverFails, ReaderReports, TakeBuffer, ReleaseBuffer,
     progVars, driveVars, driverVars, copyVars
<1>8. CASE Written \/ Unlock \/ EjectMedium
  BY <1>job, <1>info, <1>8 DEF Written, AfterWrite, Unlock, Prevent, AfterUnlock, EjectMedium, Eject, driveVars,
     driverVars, copyVars
<1>9. CASE RemoveImage \/ Cleanup
  BY <1>job, <1>info, <1>9 DEF RemoveImage, Cleanup, KillReader, driveVars, driverVars
<1>10. CASE InitDao /\ UNCHANGED copyVars
  BY <1>job, <1>info, <1>10 DEF InitDao, ReadDiskInfo, Usable, Responsive, driveVars, driverVars, copyVars
<1>11. CASE (SetSpeed \/ SetWriteParameters \/ Calibrate) /\ UNCHANGED copyVars
  BY <1>job, <1>info, <1>11 DEF SetSpeed, SetWriteParameters, TestWrite, Calibrate, Command, driveVars, driverVars,
     copyVars
<1>12. CASE SendCueSheet /\ UNCHANGED copyVars
  BY <1>job, <1>info, <1>12 DEF SendCueSheet, Command, copyVars
<1>13. CASE WriteCommand /\ UNCHANGED copyVars
  BY <1>job, <1>info, <1>13 DEF WriteCommand, Writing, Accept, copyVars
<1>14. CASE (LongWriteInProgress \/ AllWritten) /\ UNCHANGED copyVars
  BY <1>job, <1>info, <1>14 DEF LongWriteInProgress, AllWritten, Writing, Behind, driveVars, driverVars, copyVars
<1>15. CASE (FlushCache \/ AbortDao) /\ UNCHANGED copyVars
  BY <1>job, <1>info, <1>15 DEF FlushCache, AbortDao, Synchronize, driverVars, copyVars
<1>16. CASE (CheckDriveReady \/ SetSimulationMode \/ BlankDisk) /\ UNCHANGED copyVars
  BY <1>job, <1>info, <1>16 DEF CheckDriveReady, SetSimulationMode, BlankDisk, Command, driverVars, copyVars
<1>17. CASE Burns \/ (~Ended /\ (BurningFails \/ OpenTray) /\ UNCHANGED <<progVars, driverVars, copyVars>>) \/ Person
  BY <1>job, <1>info, <1>17 DEF Burns, BurnOne, BurningFails, OpenTray, Person, CloseTray, Insert, Ended, progVars,
     driverVars, copyVars
<1>18. CASE ChildReads \/ ChildEnds
  BY <1>job, <1>info, <1>18 DEF ChildReads, ChildEnds, progVars, driveVars, driverVars
<1>19. CASE Interrupt
  BY <1>job, <1>info, <1>19 DEF Interrupt, Ended, Shielded, driveVars, driverVars
<1>20. CASE Done \/ UNCHANGED vars
  BY <1>job, <1>info, <1>20 DEF Done, vars, progVars, driveVars, driverVars, copyVars
<1> QED
  BY <1>1, <1>2, <1>3, <1>4, <1>5, <1>6, <1>7, <1>8, <1>9, <1>10, <1>11, <1>12, <1>13, <1>14, <1>15, <1>16, <1>17,
     <1>18, <1>19, <1>20
  DEF Next, CommandNext, DriverNext, Reader

LEMMA CountStep == PlaceInv /\ CountTypes /\ [Next]_vars => CountTypes'
<1> USE DEF CountTypes
<1> SUFFICES ASSUME PlaceInv, CountTypes, [Next]_vars PROVE CountTypes'
  OBVIOUS
<1>job. job.command \in {"write", "copy", "fly", "blank", "unlock"} /\ job.simulate \in BOOLEAN
  BY JobTypes DEF PlaceInv
<1>1. CASE Setup
  BY <1>job, Sizes, <1>1 DEF Setup, ReadDiskInfo, Refresh, Prepared, copyVars
<1>2. CASE ReadDisk \/ CheckToc
  BY <1>job, Sizes, <1>2 DEF ReadDisk, CheckToc, AfterChecks, driveVars, driverVars
<1>3. CASE SwapMedium \/ Swapped \/ AskMedium \/ AnotherMedium
  BY <1>job, Sizes, <1>3 DEF SwapMedium, Swapped, AskMedium, AnotherMedium, ReadDiskInfo, Eject, Insert, driveVars,
     driverVars, copyVars
<1>4. CASE CreatePipe \/ ForkReader \/ CloseWriteEnd \/ DupStdin
  BY <1>job, Sizes, <1>4 DEF CreatePipe, ForkReader, CloseWriteEnd, DupStdin, OwnEnds, driveVars, driverVars
<1>5. CASE Lock
  BY <1>job, Sizes, <1>5 DEF Lock, Prevent, Blocked, AfterNoLock, driveVars, driverVars, copyVars
<1>6. CASE GetSharedMemory \/ AskStart \/ StartReader
  BY <1>job, Sizes, <1>6 DEF GetSharedMemory, AskStart, ReadDiskInfo, StartReader, driveVars, driverVars, copyVars
<1>7. CASE Deliver \/ DataMissing \/ DeliverFails \/ TakeBuffer \/ ReleaseBuffer
  <2>1. writers' = writers /\ produced' = produced
    BY <1>7 DEF Deliver, DataMissing, DeliverFails, ReaderReports, TakeBuffer, ReleaseBuffer, copyVars
  <2>2. input' = input \/ (input < Length /\ input' = input + 1)
    BY <1>7 DEF Deliver, InputLeft, DataMissing, DeliverFails, ReaderReports, TakeBuffer, ReleaseBuffer, copyVars
  <2> QED
    BY <2>1, <2>2, Sizes
<1>8. CASE Written \/ Unlock \/ EjectMedium
  BY <1>job, Sizes, <1>8 DEF Written, AfterWrite, Unlock, Prevent, AfterUnlock, EjectMedium, Eject, driveVars,
     driverVars, copyVars
<1>9. CASE RemoveImage \/ Cleanup
  BY <1>job, Sizes, <1>9 DEF RemoveImage, Cleanup, KillReader, driveVars, driverVars
<1>10. CASE InitDao /\ UNCHANGED copyVars
  BY <1>job, Sizes, <1>10 DEF InitDao, ReadDiskInfo, Usable, Responsive, driveVars, driverVars, copyVars
<1>11. CASE (SetSpeed \/ SetWriteParameters \/ Calibrate) /\ UNCHANGED copyVars
  BY <1>job, Sizes, <1>11 DEF SetSpeed, SetWriteParameters, TestWrite, Calibrate, Command, driveVars, driverVars,
     copyVars
<1>12. CASE SendCueSheet /\ UNCHANGED copyVars
  BY <1>job, Sizes, <1>12 DEF SendCueSheet, Command, copyVars
<1>13. CASE WriteCommand /\ UNCHANGED copyVars
  BY <1>job, Sizes, <1>13 DEF WriteCommand, Writing, Accept, copyVars
<1>14. CASE (LongWriteInProgress \/ AllWritten) /\ UNCHANGED copyVars
  BY <1>job, Sizes, <1>14 DEF LongWriteInProgress, AllWritten, Writing, Behind, driveVars, driverVars, copyVars
<1>15. CASE (FlushCache \/ AbortDao) /\ UNCHANGED copyVars
  BY <1>job, Sizes, <1>15 DEF FlushCache, AbortDao, Synchronize, driverVars, copyVars
<1>16. CASE (CheckDriveReady \/ SetSimulationMode \/ BlankDisk) /\ UNCHANGED copyVars
  BY <1>job, Sizes, <1>16 DEF CheckDriveReady, SetSimulationMode, BlankDisk, Command, driverVars, copyVars
<1>17. CASE Burns \/ (~Ended /\ (BurningFails \/ OpenTray) /\ UNCHANGED <<progVars, driverVars, copyVars>>) \/ Person
  BY <1>job, Sizes, <1>17 DEF Burns, BurnOne, BurningFails, OpenTray, Person, CloseTray, Insert, Ended, progVars,
     driverVars, copyVars
<1>18. CASE ChildReads \/ ChildEnds
  <2>1. input' = input /\ (writers' = writers \/ writers' = writers \ {"child"})
    BY <1>18 DEF ChildReads, ChildEnds
  <2>2. produced' = produced \/ (produced < Length /\ produced' = produced + 1)
    BY <1>18 DEF ChildReads, ChildEnds
  <2>3. writers' \subseteq {"parent", "child"}
    BY <2>1
  <2>4. produced' \in 0 .. Length
    BY <2>2, Sizes
  <2> QED
    BY <2>1, <2>3, <2>4
<1>19. CASE Interrupt
  BY <1>job, Sizes, <1>19 DEF Interrupt, Ended, Shielded, driveVars, driverVars
<1>20. CASE Done \/ UNCHANGED vars
  BY <1>job, Sizes, <1>20 DEF Done, vars, progVars, driveVars, driverVars, copyVars
<1> QED
  BY <1>1, <1>2, <1>3, <1>4, <1>5, <1>6, <1>7, <1>8, <1>9, <1>10, <1>11, <1>12, <1>13, <1>14, <1>15, <1>16, <1>17,
     <1>18, <1>19, <1>20
  DEF Next, CommandNext, DriverNext, Reader

LEMMA DiscStep == PlaceInv /\ DiscTypes /\ [Next]_vars => DiscTypes'
<1> USE DEF DiscTypes
<1> SUFFICES ASSUME PlaceInv, DiscTypes, [Next]_vars PROVE DiscTypes'
  OBVIOUS
<1>job. job.command \in {"write", "copy", "fly", "blank", "unlock"} /\ job.simulate \in BOOLEAN
  BY JobTypes DEF PlaceInv
<1>1. CASE Setup
  BY <1>job, Sizes, AnswerTypes, <1>1 DEF Setup, ReadDiskInfo, Refresh, Prepared, copyVars
<1>2. CASE ReadDisk \/ CheckToc
  BY <1>job, Sizes, AnswerTypes, <1>2 DEF ReadDisk, CheckToc, AfterChecks, driveVars, driverVars
<1>3. CASE SwapMedium \/ Swapped \/ AskMedium \/ AnotherMedium
  BY <1>job, Sizes, AnswerTypes, <1>3 DEF SwapMedium, Swapped, AskMedium, AnotherMedium, ReadDiskInfo, Eject,
     Insert, driveVars, driverVars, copyVars
<1>4. CASE CreatePipe \/ ForkReader \/ CloseWriteEnd \/ DupStdin
  BY <1>job, Sizes, AnswerTypes, <1>4 DEF CreatePipe, ForkReader, CloseWriteEnd, DupStdin, OwnEnds, driveVars,
     driverVars
<1>5. CASE Lock
  BY <1>job, Sizes, AnswerTypes, <1>5 DEF Lock, Prevent, Blocked, AfterNoLock, driveVars, driverVars, copyVars
<1>6. CASE GetSharedMemory \/ AskStart \/ StartReader
  BY <1>job, Sizes, AnswerTypes, <1>6 DEF GetSharedMemory, AskStart, ReadDiskInfo, StartReader, driveVars,
     driverVars, copyVars
<1>7. CASE Deliver \/ DataMissing \/ DeliverFails \/ TakeBuffer \/ ReleaseBuffer
  BY <1>job, Sizes, AnswerTypes, <1>7 DEF Deliver, DataMissing, DeliverFails, ReaderReports, TakeBuffer,
     ReleaseBuffer, progVars, driveVars, driverVars, copyVars
<1>8. CASE Written \/ Unlock \/ EjectMedium
  BY <1>job, Sizes, AnswerTypes, <1>8 DEF Written, AfterWrite, Unlock, Prevent, AfterUnlock, EjectMedium, Eject,
     driveVars, driverVars, copyVars
<1>9. CASE RemoveImage \/ Cleanup
  BY <1>job, Sizes, AnswerTypes, <1>9 DEF RemoveImage, Cleanup, KillReader, driveVars, driverVars
<1>10. CASE InitDao /\ UNCHANGED copyVars
  BY <1>job, Sizes, AnswerTypes, <1>10 DEF InitDao, ReadDiskInfo, Usable, Responsive, driveVars, driverVars, copyVars
<1>11. CASE (SetSpeed \/ SetWriteParameters \/ Calibrate) /\ UNCHANGED copyVars
  BY <1>job, Sizes, AnswerTypes, <1>11 DEF SetSpeed, SetWriteParameters, TestWrite, Calibrate, Command, driveVars,
     driverVars, copyVars
<1>12. CASE SendCueSheet /\ UNCHANGED copyVars
  BY <1>job, Sizes, AnswerTypes, <1>12 DEF SendCueSheet, Command, copyVars
<1>13. CASE WriteCommand /\ UNCHANGED copyVars
  BY <1>job, Sizes, AnswerTypes, <1>13 DEF WriteCommand, Writing, Accept, copyVars
<1>14. CASE (LongWriteInProgress \/ AllWritten) /\ UNCHANGED copyVars
  BY <1>job, Sizes, AnswerTypes, <1>14 DEF LongWriteInProgress, AllWritten, Writing, Behind, driveVars, driverVars,
     copyVars
<1>15. CASE (FlushCache \/ AbortDao) /\ UNCHANGED copyVars
  BY <1>job, Sizes, AnswerTypes, <1>15 DEF FlushCache, AbortDao, Synchronize, driverVars, copyVars
<1>16. CASE (CheckDriveReady \/ SetSimulationMode \/ BlankDisk) /\ UNCHANGED copyVars
  BY <1>job, Sizes, AnswerTypes, <1>16 DEF CheckDriveReady, SetSimulationMode, BlankDisk, Command, driverVars,
     copyVars
<1>17. CASE Burns \/ (~Ended /\ (BurningFails \/ OpenTray) /\ UNCHANGED <<progVars, driverVars, copyVars>>) \/ Person
  BY <1>job, Sizes, AnswerTypes, <1>17 DEF Burns, BurnOne, BurningFails, OpenTray, Person, CloseTray, Insert,
     Ended, progVars, driverVars, copyVars
<1>18. CASE ChildReads \/ ChildEnds
  BY <1>job, Sizes, AnswerTypes, <1>18 DEF ChildReads, ChildEnds, progVars, driveVars, driverVars
<1>19. CASE Interrupt
  BY <1>job, Sizes, AnswerTypes, <1>19 DEF Interrupt, Ended, Shielded, driveVars, driverVars
<1>20. CASE Done \/ UNCHANGED vars
  BY <1>job, Sizes, AnswerTypes, <1>20 DEF Done, vars, progVars, driveVars, driverVars, copyVars
<1> QED
  BY <1>1, <1>2, <1>3, <1>4, <1>5, <1>6, <1>7, <1>8, <1>9, <1>10, <1>11, <1>12, <1>13, <1>14, <1>15, <1>16, <1>17,
     <1>18, <1>19, <1>20
  DEF Next, CommandNext, DriverNext, Reader

LEMMA AddressStep == PlaceInv /\ DiscTypes /\ BlockTypes /\ AddressTypes /\ [Next]_vars => AddressTypes'
<1> USE DEF AddressTypes
<1> SUFFICES ASSUME PlaceInv, DiscTypes, BlockTypes, AddressTypes, [Next]_vars PROVE AddressTypes'
  OBVIOUS
<1>job. job.command \in {"write", "copy", "fly", "blank", "unlock"} /\ job.simulate \in BOOLEAN
  BY JobTypes DEF PlaceInv
<1>1. CASE Setup
  BY <1>job, Sizes, <1>1 DEF Setup, ReadDiskInfo, Refresh, Prepared, copyVars
<1>2. CASE ReadDisk \/ CheckToc
  BY <1>job, Sizes, <1>2 DEF ReadDisk, CheckToc, AfterChecks, driveVars, driverVars
<1>3. CASE SwapMedium \/ Swapped \/ AskMedium \/ AnotherMedium
  BY <1>job, Sizes, <1>3 DEF SwapMedium, Swapped, AskMedium, AnotherMedium, ReadDiskInfo, Eject, Insert, driveVars,
     driverVars, copyVars, NoSession, AnyAddress
<1>4. CASE CreatePipe \/ ForkReader \/ CloseWriteEnd \/ DupStdin
  BY <1>job, Sizes, <1>4 DEF CreatePipe, ForkReader, CloseWriteEnd, DupStdin, OwnEnds, driveVars, driverVars
<1>5. CASE Lock
  BY <1>job, Sizes, <1>5 DEF Lock, Prevent, Blocked, AfterNoLock, driveVars, driverVars, copyVars
<1>6. CASE GetSharedMemory \/ AskStart \/ StartReader
  BY <1>job, Sizes, <1>6 DEF GetSharedMemory, AskStart, ReadDiskInfo, StartReader, driveVars, driverVars, copyVars
<1>7. CASE Deliver \/ DataMissing \/ DeliverFails \/ TakeBuffer \/ ReleaseBuffer
  BY <1>job, Sizes, <1>7 DEF Deliver, DataMissing, DeliverFails, ReaderReports, TakeBuffer, ReleaseBuffer,
     progVars, driveVars, driverVars, copyVars
<1>8. CASE Written \/ Unlock \/ EjectMedium
  BY <1>job, Sizes, <1>8 DEF Written, AfterWrite, Unlock, Prevent, AfterUnlock, EjectMedium, Eject, driveVars,
     driverVars, copyVars
<1>9. CASE RemoveImage \/ Cleanup
  BY <1>job, Sizes, <1>9 DEF RemoveImage, Cleanup, KillReader, driveVars, driverVars
<1>10. CASE InitDao /\ UNCHANGED copyVars
  BY <1>job, Sizes, <1>10 DEF InitDao, ReadDiskInfo, Usable, Responsive, driveVars, driverVars, copyVars
<1>11. CASE (SetSpeed \/ SetWriteParameters \/ Calibrate) /\ UNCHANGED copyVars
  BY <1>job, Sizes, <1>11 DEF SetSpeed, SetWriteParameters, TestWrite, Calibrate, Command, driveVars, driverVars,
     copyVars
<1>12. CASE SendCueSheet /\ UNCHANGED copyVars
  <2>1. medium.start \in Nat /\ diskInfo.start \in Nat
    BY MediumTypes DEF DiscTypes, MediumType, InfoType
  <2> QED
    BY <2>1, Sizes, <1>12 DEF SendCueSheet, Command, AnyAddress
<1>13. CASE WriteCommand /\ UNCHANGED copyVars
  <2>1. Len(Chunk) \in Int
    BY ChunkTypes, <1>13 DEF WriteCommand
  <2>2. lba + Len(Chunk) \in Int
    BY <2>1
  <2> QED
    BY <2>2, <1>13 DEF WriteCommand, Accept
<1>14. CASE (LongWriteInProgress \/ AllWritten) /\ UNCHANGED copyVars
  <2>1. medium.start \in Nat /\ diskInfo.start \in Nat
    BY MediumTypes DEF DiscTypes, MediumType, InfoType
  <2> QED
    BY <2>1, Sizes, <1>14 DEF LongWriteInProgress, RetryFrom, AllWritten, driveVars
<1>15. CASE (FlushCache \/ AbortDao) /\ UNCHANGED copyVars
  BY <1>job, Sizes, <1>15 DEF FlushCache, AbortDao, Synchronize, driverVars, copyVars, NoSession
<1>16. CASE (CheckDriveReady \/ SetSimulationMode \/ BlankDisk) /\ UNCHANGED copyVars
  BY <1>job, Sizes, <1>16 DEF CheckDriveReady, SetSimulationMode, BlankDisk, Command, driverVars, copyVars
<1>17. CASE Burns \/ (~Ended /\ (BurningFails \/ OpenTray) /\ UNCHANGED <<progVars, driverVars, copyVars>>) \/ Person
  BY <1>job, Sizes, <1>17 DEF Burns, BurnOne, BurningFails, OpenTray, Person, CloseTray, Insert, Ended, progVars,
     driverVars, copyVars, NoSession, AnyAddress
<1>18. CASE ChildReads \/ ChildEnds
  BY <1>job, Sizes, <1>18 DEF ChildReads, ChildEnds, progVars, driveVars, driverVars
<1>19. CASE Interrupt
  BY <1>job, Sizes, <1>19 DEF Interrupt, Ended, Shielded, driveVars, driverVars
<1>20. CASE Done \/ UNCHANGED vars
  BY <1>job, Sizes, <1>20 DEF Done, vars, progVars, driveVars, driverVars, copyVars
<1> QED
  BY <1>1, <1>2, <1>3, <1>4, <1>5, <1>6, <1>7, <1>8, <1>9, <1>10, <1>11, <1>12, <1>13, <1>14, <1>15, <1>16, <1>17,
     <1>18, <1>19, <1>20
  DEF Next, CommandNext, DriverNext, Reader

LEMMA BlockStep == PlaceInv /\ CountTypes /\ AddressTypes /\ BlockTypes /\ [Next]_vars => BlockTypes'
<1> USE DEF BlockTypes
<1> SUFFICES ASSUME PlaceInv, CountTypes, AddressTypes, BlockTypes, [Next]_vars PROVE BlockTypes'
  OBVIOUS
<1>job. job.command \in {"write", "copy", "fly", "blank", "unlock"} /\ job.simulate \in BOOLEAN
  BY JobTypes DEF PlaceInv
<1>1. CASE Setup
  BY <1>job, Sizes, <1>1 DEF Setup, ReadDiskInfo, Refresh, Prepared, copyVars
<1>2. CASE ReadDisk \/ CheckToc
  BY <1>job, Sizes, <1>2 DEF ReadDisk, CheckToc, AfterChecks, driveVars, driverVars
<1>3. CASE SwapMedium \/ Swapped \/ AskMedium \/ AnotherMedium
  BY <1>job, Sizes, Blocks, <1>3 DEF SwapMedium, Swapped, AskMedium, AnotherMedium, ReadDiskInfo, Eject, Insert,
     driveVars, driverVars, copyVars
<1>4. CASE CreatePipe \/ ForkReader \/ CloseWriteEnd \/ DupStdin
  BY <1>job, Sizes, <1>4 DEF CreatePipe, ForkReader, CloseWriteEnd, DupStdin, OwnEnds, driveVars, driverVars
<1>5. CASE Lock
  BY <1>job, Sizes, <1>5 DEF Lock, Prevent, Blocked, AfterNoLock, driveVars, driverVars, copyVars
<1>6. CASE GetSharedMemory \/ AskStart \/ StartReader
  BY <1>job, Sizes, <1>6 DEF GetSharedMemory, AskStart, ReadDiskInfo, StartReader, driveVars, driverVars, copyVars
<1>7. CASE Deliver \/ DataMissing \/ DeliverFails \/ TakeBuffer \/ ReleaseBuffer
  <2>1. cache' = cache /\ burned' = burned /\ sent' = sent
    BY <1>7 DEF Deliver, DataMissing, DeliverFails, ReaderReports, TakeBuffer, ReleaseBuffer, driveVars, driverVars
  <2>2. CASE Deliver
    <3>1. Data(input + 1) \in Block /\ Pad \in Block
      BY Blocks, Sizes DEF CountTypes
    <3>2. CASE job.command = "fly" /\ pipe # <<>> /\ todo' = Append(todo, Head(pipe)) /\ pipe' = Tail(pipe)
      <4>1. Head(pipe) \in Block /\ Tail(pipe) \in Seq(Block)
        BY <3>2, HeadTailProperties
      <4> QED
        BY <2>1, <3>2, <4>1
    <3>3. CASE todo' = Append(todo, Data(input + 1)) /\ UNCHANGED pipe
      BY <2>1, <3>1, <3>3
    <3>4. CASE todo' = Append(todo, Pad) /\ UNCHANGED pipe
      BY <2>1, <3>1, <3>4
    <3> QED
      BY <2>2, <3>2, <3>3, <3>4 DEF Deliver
  <2>3. CASE ~Deliver
    BY <1>7, <2>1, <2>3 DEF DataMissing, DeliverFails, ReaderReports, TakeBuffer, ReleaseBuffer, driverVars, copyVars
  <2> QED
    BY <2>2, <2>3
<1>8. CASE Written \/ Unlock \/ EjectMedium
  <2>1. UNCHANGED <<burned, sent, todo, pipe>> /\ (cache' = cache \/ cache' = <<>>)
    BY <1>8 DEF Written, Unlock, Prevent, EjectMedium, Eject, driveVars, driverVars, copyVars
  <2> QED
    BY <2>1, Blocks
<1>9. CASE RemoveImage \/ Cleanup
  <2>1. UNCHANGED <<cache, burned, sent, todo>> /\ (pipe' = pipe \/ pipe' = <<>>)
    BY <1>9 DEF RemoveImage, Cleanup, driveVars, driverVars
  <2> QED
    BY <2>1, Blocks
<1>10. CASE InitDao /\ UNCHANGED copyVars
  BY <1>job, Sizes, <1>10 DEF InitDao, ReadDiskInfo, Usable, Responsive, driveVars, driverVars, copyVars
<1>11. CASE (SetSpeed \/ SetWriteParameters \/ Calibrate) /\ UNCHANGED copyVars
  BY <1>job, Sizes, <1>11 DEF SetSpeed, SetWriteParameters, TestWrite, Calibrate, Command, driveVars, driverVars,
     copyVars
<1>12. CASE SendCueSheet /\ UNCHANGED copyVars
  <2>1. [i \in 1 .. LeadInBlocks |-> Text] \in Seq(Block) /\ Zeros(Pregap) \in Seq(Block)
    BY Blocks, Sizes
  <2> QED
    BY <2>1, <1>12 DEF SendCueSheet, Command, copyVars
<1>13. CASE WriteCommand /\ UNCHANGED copyVars
  <2>1. burned' = burned /\ pipe' = pipe
    BY <1>13 DEF WriteCommand, Accept, copyVars
  <2>2. CASE /\ cache' = cache \o Chunk
             /\ sent' = sent \o [i \in 1 .. Len(Chunk) |-> <<lba + i - 1, Chunk[i]>>]
             /\ todo' = SubSeq(todo, Len(Chunk) + 1, Len(todo))
    <3>1. Chunk \in Seq(Block) /\ SubSeq(todo, Len(Chunk) + 1, Len(todo)) \in Seq(Block)
      BY ChunkTypes, <1>13 DEF WriteCommand
    <3>2. [i \in 1 .. Len(Chunk) |-> <<lba + i - 1, Chunk[i]>>] \in Seq(Int \X Block)
      BY <3>1, SentBlocks DEF AddressTypes
    <3>3. sent' \in Seq(Int \X Block)
      BY <2>2, <3>2, ConcatProperties
    <3>4. cache' \in Seq(Block)
      BY <2>2, <3>1, ConcatProperties
    <3> QED
      BY <2>1, <2>2, <3>1, <3>3, <3>4
  <2>3. CASE UNCHANGED <<cache, sent, todo>>
    BY <2>1, <2>3
  <2> QED
    BY <1>13, <2>2, <2>3 DEF WriteCommand, Accept
<1>14. CASE (LongWriteInProgress \/ AllWritten) /\ UNCHANGED copyVars
  BY <1>job, Sizes, Blocks, <1>14 DEF LongWriteInProgress, AllWritten, Writing, Behind, driveVars, driverVars,
     copyVars
<1>15. CASE (FlushCache \/ AbortDao) /\ UNCHANGED copyVars
  <2>1. UNCHANGED <<burned, sent, todo, pipe>> /\ (cache' = cache \/ cache' = Append(cache, LeadOut))
    BY <1>15 DEF FlushCache, AbortDao, Synchronize, driverVars, copyVars
  <2>2. Append(cache, LeadOut) \in Seq(Block)
    BY Blocks
  <2> QED
    BY <2>1, <2>2
<1>16. CASE (CheckDriveReady \/ SetSimulationMode \/ BlankDisk) /\ UNCHANGED copyVars
  <2>1. UNCHANGED <<burned, sent, todo, pipe>> /\ (cache' = cache \/ cache' = Append(cache, Erase))
    BY <1>16 DEF CheckDriveReady, SetSimulationMode, BlankDisk, Command, driverVars, copyVars
  <2>2. Append(cache, Erase) \in Seq(Block)
    BY Blocks
  <2> QED
    BY <2>1, <2>2
<1>17. CASE Burns \/ (~Ended /\ (BurningFails \/ OpenTray) /\ UNCHANGED <<progVars, driverVars, copyVars>>) \/ Person
  <2>1. sent' = sent /\ todo' = todo /\ pipe' = pipe
    BY <1>17 DEF Burns, Person, driverVars, copyVars
  <2>2. CASE BurnOne
    <3>1. Head(cache) \in Block /\ Tail(cache) \in Seq(Block)
      BY <2>2, HeadTailProperties DEF BurnOne
    <3> QED
      BY <2>1, <2>2, <3>1 DEF BurnOne
  <2>3. CASE ~BurnOne
    BY <1>17, <2>1, <2>3, Blocks DEF Burns, BurningFails, OpenTray, Person, CloseTray, Insert
  <2> QED
    BY <2>2, <2>3
<1>18. CASE ChildReads \/ ChildEnds
  <2>1. Data(produced + 1) \in Block
    BY Blocks, Sizes DEF CountTypes
  <2>2. Append(pipe, Data(produced + 1)) \in Seq(Block)
    BY <2>1
  <2>3. UNCHANGED <<cache, burned, sent, todo>> /\ (pipe' = pipe \/ pipe' = Append(pipe, Data(produced + 1)))
    BY <1>18 DEF ChildReads, ChildEnds, driveVars, driverVars
  <2> QED
    BY <2>2, <2>3
<1>19. CASE Interrupt
  BY <1>job, Sizes, <1>19 DEF Interrupt, Ended, Shielded, driveVars, driverVars
<1>20. CASE Done \/ UNCHANGED vars
  BY <1>job, Sizes, <1>20 DEF Done, vars, progVars, driveVars, driverVars, copyVars
<1> QED
  BY <1>1, <1>2, <1>3, <1>4, <1>5, <1>6, <1>7, <1>8, <1>9, <1>10, <1>11, <1>12, <1>13, <1>14, <1>15, <1>16, <1>17,
     <1>18, <1>19, <1>20
  DEF Next, CommandNext, DriverNext, Reader

LEMMA TypeStep == PlaceInv /\ TypeInv /\ [Next]_vars => TypeInv'
BY StateStep, FlagStep, CountStep, DiscStep, AddressStep, BlockStep DEF TypeInv
-----------------------------------------------------------------------------
(* The buffer of the drive.                                                *)

\* Nothing is sent to the drive before its cue sheet, or before BLANK.
Early == {"setup", "readDisk", "checkToc", "swap", "swapped", "askMedium", "prompt", "pipe", "fork", "closeEnd",
          "dup", "lock", "shared", "initDao", "simulationMode", "blank"} \cup Preparing
EarlyInv == pc \in Early => cache = <<>> /\ burned = <<>> /\ sent = <<>> /\ input = 0

\* The lead-out and BLANK may come on top of a full buffer, but the lead-out ends
\* the session, and BLANK comes first.
RoomInv ==
    /\ Len(cache) <= CacheBlocks + 1
    /\ last # NoSession => Len(cache) <= CacheBlocks
    /\ Len(pipe) <= PipeBlocks

LEMMA EarlyInit == Init => EarlyInv
BY DEF Init, DriveInit, EarlyInv

LEMMA EarlyStep == PlaceInv /\ EarlyInv /\ [Next]_vars => EarlyInv'
<1> USE DEF EarlyInv, PlaceInv, Early, Recording, Held, Session, Opened, Preparing, Goto, Failed
<1> SUFFICES ASSUME PlaceInv, EarlyInv, [Next]_vars PROVE EarlyInv'
  OBVIOUS
<1>job. job.command \in {"write", "copy", "fly", "blank", "unlock"} /\ job.simulate \in BOOLEAN
  BY JobTypes DEF PlaceInv
<1>1. CASE Setup
  BY <1>job, <1>1 DEF Setup, ReadDiskInfo, Refresh, Prepared, copyVars
<1>2. CASE ReadDisk \/ CheckToc
  BY <1>job, <1>2 DEF ReadDisk, CheckToc, AfterChecks, driveVars, driverVars
<1>3. CASE SwapMedium \/ Swapped \/ AskMedium \/ AnotherMedium
  BY <1>job, <1>3 DEF SwapMedium, Swapped, AskMedium, AnotherMedium, ReadDiskInfo, Eject, Insert, driveVars,
     driverVars, copyVars
<1>4. CASE CreatePipe \/ ForkReader \/ CloseWriteEnd \/ DupStdin
  BY <1>job, <1>4 DEF CreatePipe, ForkReader, CloseWriteEnd, DupStdin, OwnEnds, driveVars, driverVars
<1>5. CASE Lock
  BY <1>job, <1>5 DEF Lock, Prevent, Blocked, AfterNoLock, driveVars, driverVars, copyVars
<1>6. CASE GetSharedMemory \/ AskStart \/ StartReader
  BY <1>job, <1>6 DEF GetSharedMemory, AskStart, ReadDiskInfo, StartReader, driveVars, driverVars, copyVars
<1>7. CASE Deliver \/ DataMissing \/ DeliverFails \/ TakeBuffer \/ ReleaseBuffer
  BY <1>job, <1>7 DEF Deliver, DataMissing, DeliverFails, ReaderReports, TakeBuffer, ReleaseBuffer, progVars,
     driveVars, driverVars, copyVars
<1>8. CASE Written \/ Unlock \/ EjectMedium
  BY <1>job, <1>8 DEF Written, AfterWrite, Unlock, Prevent, AfterUnlock, EjectMedium, Eject, driveVars, driverVars,
     copyVars
<1>9. CASE RemoveImage \/ Cleanup
  BY <1>job, <1>9 DEF RemoveImage, Cleanup, KillReader, driveVars, driverVars
<1>10. CASE InitDao /\ UNCHANGED copyVars
  BY <1>job, <1>10 DEF InitDao, ReadDiskInfo, Usable, Responsive, driveVars, driverVars, copyVars
<1>11. CASE (SetSpeed \/ SetWriteParameters \/ Calibrate) /\ UNCHANGED copyVars
  BY <1>job, <1>11 DEF SetSpeed, SetWriteParameters, TestWrite, Calibrate, Command, driveVars, driverVars, copyVars
<1>12. CASE SendCueSheet /\ UNCHANGED copyVars
  BY <1>job, <1>12 DEF SendCueSheet, Command, copyVars
<1>13. CASE WriteCommand /\ UNCHANGED copyVars
  BY <1>job, <1>13 DEF WriteCommand, Writing, Accept, copyVars
<1>14. CASE (LongWriteInProgress \/ AllWritten) /\ UNCHANGED copyVars
  BY <1>job, <1>14 DEF LongWriteInProgress, AllWritten, Writing, Behind, driveVars, driverVars, copyVars
<1>15. CASE (FlushCache \/ AbortDao) /\ UNCHANGED copyVars
  BY <1>job, <1>15 DEF FlushCache, AbortDao, Synchronize, driverVars, copyVars
<1>16. CASE (CheckDriveReady \/ SetSimulationMode \/ BlankDisk) /\ UNCHANGED copyVars
  BY <1>job, <1>16 DEF CheckDriveReady, SetSimulationMode, BlankDisk, Command, driverVars, copyVars
<1>17. CASE Burns \/ (~Ended /\ (BurningFails \/ OpenTray) /\ UNCHANGED <<progVars, driverVars, copyVars>>) \/ Person
  BY <1>job, <1>17 DEF Burns, BurnOne, BurningFails, OpenTray, Person, CloseTray, Insert, Ended, progVars,
     driverVars, copyVars
<1>18. CASE ChildReads \/ ChildEnds
  BY <1>job, <1>18 DEF ChildReads, ChildEnds, progVars, driveVars, driverVars
<1>19. CASE Interrupt
  BY <1>job, <1>19 DEF Interrupt, Ended, Shielded, driveVars, driverVars
<1>20. CASE Done \/ UNCHANGED vars
  BY <1>job, <1>20 DEF Done, vars, progVars, driveVars, driverVars, copyVars
<1> QED
  BY <1>1, <1>2, <1>3, <1>4, <1>5, <1>6, <1>7, <1>8, <1>9, <1>10, <1>11, <1>12, <1>13, <1>14, <1>15, <1>16, <1>17,
     <1>18, <1>19, <1>20
  DEF Next, CommandNext, DriverNext, Reader

LEMMA RoomInit == Init => RoomInv
BY Sizes DEF Init, DriveInit, RoomInv

LEMMA RoomStep == PlaceInv /\ EarlyInv /\ BlockTypes /\ RoomInv /\ [Next]_vars => RoomInv'
<1> USE DEF RoomInv
<1> SUFFICES ASSUME PlaceInv, EarlyInv, BlockTypes, RoomInv, [Next]_vars PROVE RoomInv'
  OBVIOUS
<1>job. job.command \in {"write", "copy", "fly", "blank", "unlock"} /\ job.simulate \in BOOLEAN
  BY JobTypes DEF PlaceInv
<1>1. CASE Setup
  BY <1>job, Sizes, <1>1 DEF Setup, ReadDiskInfo, Refresh, Prepared, copyVars
<1>2. CASE ReadDisk \/ CheckToc
  BY <1>job, Sizes, <1>2 DEF ReadDisk, CheckToc, AfterChecks, driveVars, driverVars
<1>3. CASE SwapMedium \/ Swapped \/ AskMedium \/ AnotherMedium
  BY <1>job, Sizes, <1>3 DEF SwapMedium, Swapped, AskMedium, AnotherMedium, ReadDiskInfo, Eject, Insert, driveVars,
     driverVars, copyVars, NoSession
<1>4. CASE CreatePipe \/ ForkReader \/ CloseWriteEnd \/ DupStdin
  BY <1>job, Sizes, <1>4 DEF CreatePipe, ForkReader, CloseWriteEnd, DupStdin, OwnEnds, driveVars, driverVars
<1>5. CASE Lock
  BY <1>job, Sizes, <1>5 DEF Lock, Prevent, Blocked, AfterNoLock, driveVars, driverVars, copyVars
<1>6. CASE GetSharedMemory \/ AskStart \/ StartReader
  BY <1>job, Sizes, <1>6 DEF GetSharedMemory, AskStart, ReadDiskInfo, StartReader, driveVars, driverVars, copyVars
<1>7. CASE Deliver \/ DataMissing \/ DeliverFails \/ TakeBuffer \/ ReleaseBuffer
  <2>1. cache' = cache /\ last' = last /\ (pipe' = pipe \/ (pipe # <<>> /\ pipe' = Tail(pipe)))
    BY <1>7 DEF Deliver, DataMissing, DeliverFails, ReaderReports, TakeBuffer, ReleaseBuffer, driveVars, copyVars
  <2>2. pipe # <<>> => Len(Tail(pipe)) = Len(pipe) - 1
    BY HeadTailProperties DEF BlockTypes
  <2>3. Len(pipe) \in Nat
    BY DEF BlockTypes
  <2> QED
    BY <2>1, <2>2, <2>3, Sizes
<1>8. CASE Written \/ Unlock \/ EjectMedium
  BY <1>job, Sizes, <1>8 DEF Written, AfterWrite, Unlock, Prevent, AfterUnlock, EjectMedium, Eject, driveVars,
     driverVars, copyVars
<1>9. CASE RemoveImage \/ Cleanup
  BY <1>job, Sizes, <1>9 DEF RemoveImage, Cleanup, KillReader, driveVars, driverVars
<1>10. CASE InitDao /\ UNCHANGED copyVars
  BY <1>job, Sizes, <1>10 DEF InitDao, ReadDiskInfo, Usable, Responsive, driveVars, driverVars, copyVars
<1>11. CASE (SetSpeed \/ SetWriteParameters \/ Calibrate) /\ UNCHANGED copyVars
  BY <1>job, Sizes, <1>11 DEF SetSpeed, SetWriteParameters, TestWrite, Calibrate, Command, driveVars, driverVars,
     copyVars
<1>12. CASE SendCueSheet /\ UNCHANGED copyVars
  <2>1. cache = <<>> /\ cache' = cache /\ pipe' = pipe
    BY <1>12 DEF SendCueSheet, Command, copyVars, EarlyInv, Early, Preparing
  <2> QED
    BY <2>1, Sizes
<1>13. CASE WriteCommand /\ UNCHANGED copyVars
  <2>1. pipe' = pipe /\ last' = last
    BY <1>13 DEF WriteCommand, Accept, copyVars
  <2>2. CASE cache' = cache \o Chunk
    <3>1. Chunk \in Seq(Block) /\ Len(cache) + Len(Chunk) <= CacheBlocks
      BY ChunkTypes, <1>13 DEF WriteCommand, HasRoom
    <3>2. Len(cache') = Len(cache) + Len(Chunk)
      BY <2>2, <3>1, ConcatProperties DEF BlockTypes
    <3> QED
      BY <2>1, <3>1, <3>2, Sizes
  <2>3. CASE cache' = cache
    BY <2>1, <2>3
  <2> QED
    BY <1>13, <2>2, <2>3 DEF WriteCommand, Accept
<1>14. CASE (LongWriteInProgress \/ AllWritten) /\ UNCHANGED copyVars
  BY <1>job, Sizes, <1>14 DEF LongWriteInProgress, AllWritten, Writing, Behind, driveVars, driverVars, copyVars
<1>15. CASE (FlushCache \/ AbortDao) /\ UNCHANGED copyVars
  <2>1. last' = NoSession /\ pipe' = pipe /\ (cache' = cache \/ (last # NoSession /\ cache' = Append(cache, LeadOut)))
    BY <1>15 DEF FlushCache, AbortDao, Synchronize, copyVars
  <2>2. Len(Append(cache, LeadOut)) = Len(cache) + 1
    BY DEF BlockTypes
  <2> QED
    BY <2>1, <2>2, Sizes
<1>16. CASE (CheckDriveReady \/ SetSimulationMode \/ BlankDisk) /\ UNCHANGED copyVars
  <2>1. UNCHANGED <<last, pipe>> /\ (cache' = cache \/ (pc = "blank" /\ cache' = Append(cache, Erase)))
    BY <1>16 DEF CheckDriveReady, SetSimulationMode, BlankDisk, Command, copyVars
  <2>2. pc = "blank" => Len(Append(cache, Erase)) = 1
    BY DEF EarlyInv, Early
  <2> QED
    BY <2>1, <2>2, Sizes
<1>17. CASE Burns \/ (~Ended /\ (BurningFails \/ OpenTray) /\ UNCHANGED <<progVars, driverVars, copyVars>>) \/ Person
  <2>1. /\ pipe' = pipe /\ (last' = last \/ last' = NoSession)
        /\ cache' = cache \/ cache' = <<>> \/ (cache # <<>> /\ cache' = Tail(cache))
    BY <1>17 DEF Burns, BurnOne, BurningFails, OpenTray, Person, CloseTray, Insert, copyVars
  <2>2. cache # <<>> => Len(Tail(cache)) = Len(cache) - 1
    BY HeadTailProperties DEF BlockTypes
  <2>3. Len(cache) \in Nat
    BY DEF BlockTypes
  <2> QED
    BY <2>1, <2>2, <2>3, Sizes
<1>18. CASE ChildReads \/ ChildEnds
  <2>1. cache' = cache /\ last' = last
    BY <1>18 DEF ChildReads, ChildEnds, driveVars
  <2>2. pipe' = pipe \/ (Len(pipe) < PipeBlocks /\ pipe' = Append(pipe, Data(produced + 1)))
    BY <1>18 DEF ChildReads, ChildEnds
  <2>3. Len(Append(pipe, Data(produced + 1))) = Len(pipe) + 1 /\ Len(pipe) \in Nat
    BY DEF BlockTypes
  <2> QED
    BY <2>1, <2>2, <2>3, Sizes
<1>19. CASE Interrupt
  BY <1>job, Sizes, <1>19 DEF Interrupt, Ended, Shielded, driveVars, driverVars
<1>20. CASE Done \/ UNCHANGED vars
  BY <1>job, Sizes, <1>20 DEF Done, vars, progVars, driveVars, driverVars, copyVars
<1> QED
  BY <1>1, <1>2, <1>3, <1>4, <1>5, <1>6, <1>7, <1>8, <1>9, <1>10, <1>11, <1>12, <1>13, <1>14, <1>15, <1>16, <1>17,
     <1>18, <1>19, <1>20
  DEF Next, CommandNext, DriverNext, Reader

\* Every variable keeps its type, and neither the buffer of the drive nor the pipe
\* ever holds more than it can, for every list of jobs, medium, size of a buffer
\* and number of blocks.
THEOREM TypeCorrect == Spec => []TypeOK
<1>1. Init => PlaceInv /\ TypeInv /\ EarlyInv /\ RoomInv
  BY PlaceInit, TypeInit, EarlyInit, RoomInit
<1>2. PlaceInv /\ TypeInv /\ EarlyInv /\ RoomInv /\ [Next]_vars => (PlaceInv /\ TypeInv /\ EarlyInv /\ RoomInv)'
  BY PlaceStep, TypeStep, EarlyStep, RoomStep DEF TypeInv
<1>3. PlaceInv /\ TypeInv /\ RoomInv => TypeOK
  <2> SUFFICES ASSUME PlaceInv, TypeInv, RoomInv PROVE TypeOK
    OBVIOUS
  <2>1. Len(cache) <= CacheBlocks + 2
    BY Sizes DEF TypeInv, BlockTypes, RoomInv
  <2> QED
    BY <2>1 DEF TypeOK, PlaceInv, TypeInv, StateTypes, FlagTypes, DiscTypes, CountTypes, AddressTypes, RoomInv
<1> QED
  BY <1>1, <1>2, <1>3, PTL DEF Spec
=============================================================================
