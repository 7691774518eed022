------------------------- MODULE CdrdaoSession_proofs -------------------------
(***************************************************************************)
(* Proofs about Cdrdao: the blocks of a session, from the reader process   *)
(* through the pipe and the driver to the medium, and why a command fails. *)
(***************************************************************************)
EXTENDS Cdrdao_proofs

(* What the blocks are.                                                    *)

\* A recording puts nothing into the buffer of the drive that erases.
Recordable == {"text", "zero", "data", "pad", "leadout"} \X Nat
RecordInv == Records => cache \in Seq(Recordable) /\ todo \in Seq(Recordable) /\ pipe \in Seq(Recordable)

LEMMA RecordBlocks ==
    /\ Text \in Recordable /\ ZeroBlock \in Recordable /\ Pad \in Recordable /\ LeadOut \in Recordable
    /\ \A k \in Nat : Data(k) \in Recordable
    /\ \A n \in Nat : Zeros(n) \in Seq(Recordable)
    /\ <<>> \in Seq(Recordable) /\ Erase \notin Recordable
<1>1. /\ Text \in Recordable /\ ZeroBlock \in Recordable /\ Pad \in Recordable /\ LeadOut \in Recordable
      /\ \A k \in Nat : Data(k) \in Recordable
  BY DEF Recordable, Text, ZeroBlock, Pad, LeadOut, Data
<1>2. \A n \in Nat : Zeros(n) \in Seq(Recordable)
  BY <1>1 DEF Zeros
<1>3. Erase \notin Recordable
  BY DEF Recordable, Erase
<1> QED
  BY <1>1, <1>2, <1>3

LEMMA Regrouped ==
    ASSUME NEW a \in Int, NEW b \in Int, NEW c \in Int, NEW d \in Int, NEW e \in Int, NEW j \in Int,
           e = a + b - c - d
    PROVE  e + j - 1 = a + (b + j - c - d) - 1
OBVIOUS

LEMMA Retyped ==
    ASSUME NEW S, NEW T, NEW s \in Seq(T), \A i \in 1 .. Len(s) : s[i] \in S
    PROVE  s \in Seq(S)
OBVIOUS

LEMMA RecordInit == Init => RecordInv
BY DEF Init, DriveInit, RecordInv

LEMMA RecordStep == PlaceInv /\ CountTypes /\ BlockTypes /\ RecordInv /\ [Next]_vars => RecordInv'
<1> USE DEF RecordInv, Records
<1> SUFFICES ASSUME PlaceInv, CountTypes, BlockTypes, RecordInv, [Next]_vars PROVE RecordInv'
  OBVIOUS
<1>job. job.command \in {"write", "copy", "fly", "blank", "unlock"} /\ job.simulate \in BOOLEAN
  BY JobTypes DEF PlaceInv
<1>1. CASE Setup
  BY <1>job, Sizes, <1>1 DEF Setup, ReadDiskInfo, Refresh, Prepared, copyVars
<1>2. CASE ReadDisk \/ CheckToc
  BY <1>job, Sizes, <1>2 DEF ReadDisk, CheckToc, AfterChecks, driveVars, driverVars
<1>3. CASE SwapMedium \/ Swapped \/ AskMedium \/ AnotherMedium
  BY <1>job, Sizes, RecordBlocks, <1>3 DEF SwapMedium, Swapped, AskMedium, AnotherMedium, ReadDiskInfo, Eject,
     Insert, driveVars, driverVars, copyVars
<1>4. CASE CreatePipe \/ ForkReader \/ CloseWriteEnd \/ DupStdin
  BY <1>job, Sizes, <1>4 DEF CreatePipe, ForkReader, CloseWriteEnd, DupStdin, OwnEnds, driveVars, driverVars
<1>5. CASE Lock
  BY <1>job, Sizes, <1>5 DEF Lock, Prevent, Blocked, AfterNoLock, driveVars, driverVars, copyVars
<1>6. CASE GetSharedMemory \/ AskStart \/ StartReader
  BY <1>job, Sizes, <1>6 DEF GetSharedMemory, AskStart, ReadDiskInfo, StartReader, driveVars, driverVars, copyVars
<1>7. CASE Deliver \/ DataMissing \/ DeliverFails \/ TakeBuffer \/ ReleaseBuffer
  <2>1. cache' = cache /\ job' = job
    BY <1>7 DEF Deliver, DataMissing, DeliverFails, ReaderReports, TakeBuffer, ReleaseBuffer, driveVars, progVars
  <2>2. CASE Deliver
    <3>1. Data(input + 1) \in Recordable /\ Pad \in Recordable
      BY RecordBlocks DEF CountTypes
    <3>2. CASE job.command = "fly" /\ pipe # <<>> /\ todo' = Append(todo, Head(pipe)) /\ pipe' = Tail(pipe)
      <4>1. Records => Head(pipe) \in Recordable /\ Tail(pipe) \in Seq(Recordable)
        BY <3>2, HeadTailProperties
      <4> QED
        BY <2>1, <3>2, <4>1
    <3>3. CASE todo' = Append(todo, Data(input + 1)) /\ UNCHANGED pipe
      BY <2>1, <3>1, <3>3
    <3>4. CASE todo' = Append(todo, Pad) /\ UNCHANGED pipe
      BY <2>1, <3>1, <3>4
    <3> QED
      BY <2>2, <3>2, <3>3, <3>4 DEF Deliver
  <2>3. CASE ~Deliver
    BY <1>7, <2>1, <2>3 DEF DataMissing, DeliverFails, ReaderReports, TakeBuffer, ReleaseBuffer, driverVars, copyVars
  <2> QED
    BY <2>2, <2>3
<1>8. CASE Written \/ Unlock \/ EjectMedium
  <2>1. UNCHANGED <<todo, pipe, job>> /\ (cache' = cache \/ cache' = <<>>)
    BY <1>8 DEF Written, Unlock, Prevent, EjectMedium, Eject, driveVars, driverVars, copyVars
  <2> QED
    BY <2>1, RecordBlocks
<1>9. CASE RemoveImage \/ Cleanup
  <2>1. UNCHANGED <<cache, todo, job>> /\ (pipe' = pipe \/ pipe' = <<>>)
    BY <1>9 DEF RemoveImage, Cleanup, driveVars, driverVars
  <2> QED
    BY <2>1, RecordBlocks
<1>10. CASE InitDao /\ UNCHANGED copyVars
  BY <1>job, Sizes, <1>10 DEF InitDao, ReadDiskInfo, Usable, Responsive, driveVars, driverVars, copyVars
<1>11. CASE (SetSpeed \/ SetWriteParameters \/ Calibrate) /\ UNCHANGED copyVars
  BY <1>job, Sizes, <1>11 DEF SetSpeed, SetWriteParameters, TestWrite, Calibrate, Command, driveVars, driverVars,
     copyVars
<1>12. CASE SendCueSheet /\ UNCHANGED copyVars
  <2>1. [i \in 1 .. LeadInBlocks |-> Text] \in Seq(Recordable) /\ Zeros(Pregap) \in Seq(Recordable)
    BY RecordBlocks, Sizes
  <2> QED
    BY <2>1, <1>12 DEF SendCueSheet, Command, copyVars
<1>13. CASE WriteCommand /\ UNCHANGED copyVars
  <2>1. pipe' = pipe /\ job' = job
    BY <1>13 DEF WriteCommand, copyVars
  <2>2. CASE Records /\ cache' = cache \o Chunk /\ todo' = SubSeq(todo, Len(Chunk) + 1, Len(todo))
    <3>1. Chunk \in Seq(Recordable) /\ SubSeq(todo, Len(Chunk) + 1, Len(todo)) \in Seq(Recordable)
      <4>1. Len(Chunk) \in 1 .. Len(todo) /\ \A i \in 1 .. Len(Chunk) : Chunk[i] = todo[i]
        BY ChunkTypes, <1>13 DEF WriteCommand
      <4>2. PICK n \in 1 .. Len(todo) : n = Len(Chunk)
        BY <4>1
      <4>3. Chunk \in Seq(Recordable)
        <5>1. Chunk \in Seq(Block)
          BY ChunkTypes, <1>13 DEF WriteCommand
        <5>2. \A i \in 1 .. Len(Chunk) : Chunk[i] \in Recordable
          <6>1. todo \in Seq(Recordable)
            BY <2>2
          <6>2. \A i \in 1 .. n : todo[i] \in Recordable
            BY <6>1
          <6> QED
            BY <4>1, <4>2, <6>2
        <5> HIDE DEF RecordInv, Records
        <5> QED
          BY ONLY <5>1, <5>2, Retyped
      <4>4. SubSeq(todo, n + 1, Len(todo)) \in Seq(Recordable)
        BY <2>2, <4>2
      <4> QED
        BY <4>2, <4>3, <4>4
    <3>2. cache' \in Seq(Recordable)
      BY <2>2, <3>1, ConcatProperties
    <3> QED
      BY <2>1, <2>2, <3>1, <3>2
  <2>3. CASE UNCHANGED <<cache, todo>>
    BY <2>1, <2>3
  <2> QED
    BY <1>13, <2>1, <2>2, <2>3 DEF WriteCommand, Accept
<1>14. CASE (LongWriteInProgress \/ AllWritten) /\ UNCHANGED copyVars
  BY <1>job, Sizes, RecordBlocks, <1>14 DEF LongWriteInProgress, AllWritten, Writing, Behind, driveVars,
     driverVars, copyVars
<1>15. CASE (FlushCache \/ AbortDao) /\ UNCHANGED copyVars
  <2>1. UNCHANGED <<todo, pipe, job>> /\ (cache' = cache \/ cache' = Append(cache, LeadOut))
    BY <1>15 DEF FlushCache, AbortDao, Synchronize, driverVars, copyVars
  <2>2. Records => Append(cache, LeadOut) \in Seq(Recordable)
    BY RecordBlocks
  <2> QED
    BY <2>1, <2>2
<1>16. CASE (CheckDriveReady \/ SetSimulationMode \/ BlankDisk) /\ UNCHANGED copyVars
  <2>1. UNCHANGED <<todo, pipe, job>> /\ (cache' = cache \/ ~Records)
    BY <1>job, <1>16 DEF CheckDriveReady, SetSimulationMode, BlankDisk, Command, driverVars, copyVars,
                         PlaceInv, Recording, Held, Session, Opened, Preparing
  <2> QED
    BY <2>1
<1>17. CASE Burns \/ (~Ended /\ (BurningFails \/ OpenTray) /\ UNCHANGED <<progVars, driverVars, copyVars>>) \/ Person
  <2>1. UNCHANGED <<todo, pipe, job>> /\ (cache' = cache \/ cache' = <<>> \/ (cache # <<>> /\ cache' = Tail(cache)))
    BY <1>17 DEF Burns, BurnOne, BurningFails, OpenTray, Person, CloseTray, Insert, progVars, driverVars, copyVars
  <2>2. Records /\ cache # <<>> => Tail(cache) \in Seq(Recordable)
    BY HeadTailProperties
  <2> QED
    BY <2>1, <2>2, RecordBlocks
<1>18. CASE ChildReads \/ ChildEnds
  <2>1. Records => Append(pipe, Data(produced + 1)) \in Seq(Recordable)
    BY RecordBlocks DEF CountTypes
  <2>2. UNCHANGED <<cache, todo, job>> /\ (pipe' = pipe \/ pipe' = Append(pipe, Data(produced + 1)))
    BY <1>18 DEF ChildReads, ChildEnds, progVars, driveVars, driverVars
  <2> QED
    BY <2>1, <2>2
<1>19. CASE Interrupt
  BY <1>job, Sizes, <1>19 DEF Interrupt, Ended, Shielded, driveVars, driverVars
<1>20. CASE Done \/ UNCHANGED vars
  BY <1>job, Sizes, <1>20 DEF Done, vars, progVars, driveVars, driverVars, copyVars
<1> QED
  BY <1>1, <1>2, <1>3, <1>4, <1>5, <1>6, <1>7, <1>8, <1>9, <1>10, <1>11, <1>12, <1>13, <1>14, <1>15, <1>16, <1>17,
     <1>18, <1>19, <1>20
  DEF Next, CommandNext, DriverNext, Reader

\* From InitDao to FlushCache nothing can change the medium: it is locked, no other
\* one can be inserted, and nothing erases it.
LEMMA MediumKept == PlaceInv /\ SheetInv /\ RecordInv /\ Records /\ pc \in Session /\ [Next]_vars => medium' = medium
<1> USE DEF PlaceInv, SheetInv, Records, Recording, Held, Session, Opened, Preparing, Goto
<1> SUFFICES ASSUME PlaceInv, SheetInv, RecordInv, Records, pc \in Session, [Next]_vars PROVE medium' = medium
  OBVIOUS
<1>job. job.command \in {"write", "copy", "fly", "blank", "unlock"} /\ job.simulate \in BOOLEAN
  BY JobTypes DEF PlaceInv
<1>1. CASE Setup
  BY <1>job, <1>1 DEF Setup, ReadDiskInfo, Refresh, Prepared, copyVars
<1>2. CASE ReadDisk \/ CheckToc
  BY <1>job, <1>2 DEF ReadDisk, CheckToc, AfterChecks, driveVars, driverVars
<1>3. CASE SwapMedium \/ Swapped \/ AskMedium \/ AnotherMedium
  BY <1>job, <1>3 DEF SwapMedium, Swapped, AskMedium, AnotherMedium, ReadDiskInfo, Eject, Insert, driveVars,
     driverVars, copyVars
<1>4. CASE CreatePipe \/ ForkReader \/ CloseWriteEnd \/ DupStdin
  BY <1>job, <1>4 DEF CreatePipe, ForkReader, CloseWriteEnd, DupStdin, OwnEnds, driveVars, driverVars
<1>5. CASE Lock
  BY <1>job, <1>5 DEF Lock, Prevent, Blocked, AfterNoLock, driveVars, driverVars, copyVars
<1>6. CASE GetSharedMemory \/ AskStart \/ StartReader
  BY <1>job, <1>6 DEF GetSharedMemory, AskStart, ReadDiskInfo, StartReader, driveVars, driverVars, copyVars
<1>7. CASE Deliver \/ DataMissing \/ DeliverFails \/ TakeBuffer \/ ReleaseBuffer
  BY <1>job, <1>7 DEF Deliver, DataMissing, DeliverFails, ReaderReports, TakeBuffer, ReleaseBuffer, progVars,
     driveVars, driverVars, copyVars
<1>8. CASE Written \/ Unlock \/ EjectMedium
  BY <1>job, <1>8 DEF Written, AfterWrite, Unlock, Prevent, AfterUnlock, EjectMedium, Eject, driveVars, driverVars,
     copyVars
<1>9. CASE RemoveImage \/ Cleanup
  BY <1>job, <1>9 DEF RemoveImage, Cleanup, KillReader, driveVars, driverVars
<1>10. CASE InitDao /\ UNCHANGED copyVars
  BY <1>job, <1>10 DEF InitDao, ReadDiskInfo, Usable, Responsive, driveVars, driverVars, copyVars
<1>11. CASE (SetSpeed \/ SetWriteParameters \/ Calibrate) /\ UNCHANGED copyVars
  BY <1>job, <1>11 DEF SetSpeed, SetWriteParameters, TestWrite, Calibrate, Command, driveVars, driverVars, copyVars
<1>12. CASE SendCueSheet /\ UNCHANGED copyVars
  BY <1>job, <1>12 DEF SendCueSheet, Command, copyVars
<1>13. CASE WriteCommand /\ UNCHANGED copyVars
  BY <1>job, <1>13 DEF WriteCommand, Writing, Accept, copyVars
<1>14. CASE (LongWriteInProgress \/ AllWritten) /\ UNCHANGED copyVars
  BY <1>job, <1>14 DEF LongWriteInProgress, AllWritten, Writing, Behind, driveVars, driverVars, copyVars
<1>15. CASE (FlushCache \/ AbortDao) /\ UNCHANGED copyVars
  BY <1>job, <1>15 DEF FlushCache, AbortDao, Synchronize, driverVars, copyVars
<1>16. CASE (CheckDriveReady \/ SetSimulationMode \/ BlankDisk) /\ UNCHANGED copyVars
  BY <1>job, <1>16 DEF CheckDriveReady, SetSimulationMode, BlankDisk, Command, driverVars, copyVars
<1>17. CASE Burns \/ (~Ended /\ (BurningFails \/ OpenTray) /\ UNCHANGED <<progVars, driverVars, copyVars>>) \/ Person
  <2>1. CASE BurnOne
    <3>1. Head(cache) # Erase
      BY <2>1, RecordBlocks, HeadTailProperties DEF BurnOne, RecordInv
    <3> QED
      BY <2>1, <3>1 DEF BurnOne
  <2>2. CASE ~BurnOne
    BY <1>job, <1>17, <2>2 DEF Burns, BurningFails, OpenTray, Person, CloseTray
  <2> QED
    BY <2>1, <2>2
<1>18. CASE ChildReads \/ ChildEnds
  BY <1>job, <1>18 DEF ChildReads, ChildEnds, progVars, driveVars, driverVars
<1>19. CASE Interrupt
  BY <1>job, <1>19 DEF Interrupt, Ended, Shielded, driveVars, driverVars
<1>20. CASE Done \/ UNCHANGED vars
  BY <1>job, <1>20 DEF Done, vars, progVars, driveVars, driverVars, copyVars
<1> QED
  BY <1>1, <1>2, <1>3, <1>4, <1>5, <1>6, <1>7, <1>8, <1>9, <1>10, <1>11, <1>12, <1>13, <1>14, <1>15, <1>16, <1>17,
     <1>18, <1>19, <1>20
  DEF Next, CommandNext, DriverNext, Reader

-----------------------------------------------------------------------------
(* The reader process and its pipe.                                        *)

\* What the reader process has read and the recorder has not: the pipe, in order.
\* The write end is open as long as the process reads.
PipeInv ==
    /\ job.command # "fly" => pipe = <<>> /\ produced = 0 /\ child = "none"
    /\ child = "none" => pipe = <<>> /\ produced = 0
    /\ child = "reading" => "child" \in writers
    /\ pc \in {"closeEnd", "dup", "lock"} \cup Held /\ job.command = "fly" => child \in {"reading", "sleeping"}
    /\ pc # "exit" =>
        /\ input + Len(pipe) >= produced
        /\ child = "reading" \/ pipe # <<>> => input + Len(pipe) = produced
        /\ \A i \in 1 .. Len(pipe) : pipe[i] = Data(input + i)

LEMMA PipeInit == Init => PipeInv
BY JobTypes, Sizes DEF Init, PipeInv, FirstStep, Held, Session, Opened, Preparing

LEMMA PipeStep == PlaceInv /\ CountTypes /\ BlockTypes /\ EarlyInv /\ ProcessInv /\ PipeInv /\ [Next]_vars => PipeInv'
<1> USE DEF PipeInv, PlaceInv, Recording, Held, Session, Opened, Preparing, Goto, Failed
<1> SUFFICES ASSUME PlaceInv, CountTypes, BlockTypes, EarlyInv, ProcessInv, PipeInv, [Next]_vars PROVE PipeInv'
  OBVIOUS
<1>job. job.command \in {"write", "copy", "fly", "blank", "unlock"} /\ job.simulate \in BOOLEAN
  BY JobTypes DEF PlaceInv
<1>1. CASE Setup
  BY <1>job, <1>1 DEF Setup, ReadDiskInfo, Refresh, Prepared, copyVars
<1>2. CASE ReadDisk \/ CheckToc
  BY <1>job, <1>2 DEF ReadDisk, CheckToc, AfterChecks, driveVars, driverVars
<1>3. CASE SwapMedium \/ Swapped \/ AskMedium \/ AnotherMedium
  BY <1>job, <1>3 DEF SwapMedium, Swapped, AskMedium, AnotherMedium, ReadDiskInfo, Eject, Insert, driveVars,
     driverVars, copyVars
<1>4. CASE CreatePipe \/ ForkReader \/ CloseWriteEnd \/ DupStdin
  <2>1. pc = "fork" => input = 0 /\ pipe = <<>> /\ produced = 0
    BY DEF EarlyInv, Early, ProcessInv
  <2>2. UNCHANGED <<job, input, pipe, produced>> /\ Len(<<>>) = 0
    BY <1>4 DEF CreatePipe, ForkReader, CloseWriteEnd, DupStdin
  <2>3. CASE /\ pc = "fork" /\ child' \in {"none", "reading"}
             /\ child' = "reading" => "child" \in writers'
             /\ pc' = "closeEnd" => child' = "reading"
    BY <1>job, <2>1, <2>2, <2>3, <1>4 DEF CreatePipe, ForkReader, CloseWriteEnd, DupStdin
  <2>4. CASE child' = child /\ ("child" \in writers => "child" \in writers')
    BY <1>job, <2>1, <2>2, <2>4, <1>4 DEF CreatePipe, ForkReader, CloseWriteEnd, DupStdin
  <2> QED
    BY <1>job, <2>3, <2>4, <1>4 DEF CreatePipe, ForkReader, CloseWriteEnd, DupStdin, OwnEnds, ProcessInv
<1>5. CASE Lock
  BY <1>job, <1>5 DEF Lock, Prevent, Blocked, AfterNoLock, driveVars, driverVars, copyVars
<1>6. CASE GetSharedMemory \/ AskStart \/ StartReader
  BY <1>job, <1>6 DEF GetSharedMemory, AskStart, ReadDiskInfo, StartReader, driveVars, driverVars, copyVars
<1>7. CASE Deliver \/ DataMissing \/ DeliverFails \/ TakeBuffer \/ ReleaseBuffer
  <2>1. UNCHANGED <<job, child, produced, writers>>
    BY <1>7 DEF Deliver, DataMissing, DeliverFails, ReaderReports, TakeBuffer, ReleaseBuffer, progVars, copyVars
  <2>2. CASE ~Deliver
    BY <1>job, <1>7, <2>1, <2>2 DEF DataMissing, DeliverFails, ReaderReports, TakeBuffer, ReleaseBuffer, copyVars
  <2>3. CASE Deliver
    <3>1. pc = "fifo" /\ pc' = pc /\ input' = input + 1 /\ input \in Nat /\ produced \in Nat /\ Len(pipe) \in Nat
      BY <2>3, Sizes DEF Deliver, progVars, CountTypes, BlockTypes
    <3>2. CASE pipe # <<>> /\ pipe' = Tail(pipe) /\ job.command = "fly"
      <4>0. Len(pipe) \in Nat \ {0}
        BY <3>2, EmptySeq DEF BlockTypes
      <4>1. PICK n \in Nat : n = Len(pipe) - 1
        BY <4>0
      <4>2. Len(pipe') = n /\ \A i \in 1 .. n : pipe'[i] = pipe[i + 1]
        BY <3>2, <4>1, HeadTailProperties DEF BlockTypes
      <4>3. \A i \in 1 .. n : pipe[i + 1] = Data(input' + i)
        <5> SUFFICES ASSUME NEW i \in 1 .. n PROVE pipe[i + 1] = Data(input' + i)
          OBVIOUS
        <5>1. i + 1 \in 1 .. Len(pipe) /\ input + (i + 1) = input' + i
          BY <3>1, <4>1
        <5> QED
          BY <3>1, <5>1
      <4>4. input + Len(pipe) = produced
        BY <3>1, <3>2
      <4>5. input' + n = produced
        BY <3>1, <4>1, <4>4
      <4> QED
        BY <1>job, <2>1, <3>1, <3>2, <4>2, <4>3, <4>5
    <3>3. CASE UNCHANGED pipe /\ (job.command # "fly" \/ EndOfData)
      <4>1. pipe = <<>> /\ child # "reading"
        BY <1>job, <3>3 DEF EndOfData
      <4>2. Len(<<>>) = 0 /\ input' + 0 >= produced
        BY <3>1, <4>1
      <4> QED
        BY <1>job, <2>1, <3>1, <3>3, <4>1, <4>2
    <3> QED
      BY <2>3, <3>2, <3>3 DEF Deliver
  <2> QED
    BY <2>2, <2>3
<1>8. CASE Written \/ Unlock \/ EjectMedium
  BY <1>job, <1>8 DEF Written, AfterWrite, Unlock, Prevent, AfterUnlock, EjectMedium, Eject, driveVars, driverVars,
     copyVars
<1>9. CASE RemoveImage \/ Cleanup
  BY <1>job, <1>9 DEF RemoveImage, Cleanup, KillReader, driveVars, driverVars
<1>10. CASE InitDao /\ UNCHANGED copyVars
  BY <1>job, <1>10 DEF InitDao, ReadDiskInfo, Usable, Responsive, driveVars, driverVars, copyVars
<1>11. CASE (SetSpeed \/ SetWriteParameters \/ Calibrate) /\ UNCHANGED copyVars
  BY <1>job, <1>11 DEF SetSpeed, SetWriteParameters, TestWrite, Calibrate, Command, driveVars, driverVars, copyVars
<1>12. CASE SendCueSheet /\ UNCHANGED copyVars
  BY <1>job, <1>12 DEF SendCueSheet, Command, copyVars
<1>13. CASE WriteCommand /\ UNCHANGED copyVars
  BY <1>job, <1>13 DEF WriteCommand, Writing, Accept, copyVars
<1>14. CASE (LongWriteInProgress \/ AllWritten) /\ UNCHANGED copyVars
  BY <1>job, <1>14 DEF LongWriteInProgress, AllWritten, Writing, Behind, driveVars, driverVars, copyVars
<1>15. CASE (FlushCache \/ AbortDao) /\ UNCHANGED copyVars
  BY <1>job, <1>15 DEF FlushCache, AbortDao, Synchronize, driverVars, copyVars
<1>16. CASE (CheckDriveReady \/ SetSimulationMode \/ BlankDisk) /\ UNCHANGED copyVars
  BY <1>job, <1>16 DEF CheckDriveReady, SetSimulationMode, BlankDisk, Command, driverVars, copyVars
<1>17. CASE Burns \/ (~Ended /\ (BurningFails \/ OpenTray) /\ UNCHANGED <<progVars, driverVars, copyVars>>) \/ Person
  BY <1>job, <1>17 DEF Burns, BurnOne, BurningFails, OpenTray, Person, CloseTray, Insert, Ended, progVars,
     driverVars, copyVars
<1>18. CASE ChildReads \/ ChildEnds
  <2>1. UNCHANGED <<job, pc, input>> /\ child = "reading" /\ ~Ended
    BY <1>18 DEF ChildReads, ChildEnds, progVars
  <2>2. CASE ChildEnds
    BY <1>job, <2>1, <2>2 DEF ChildEnds
  <2>3. CASE ChildReads
    <3>1. pc # "exit" /\ input + Len(pipe) = produced /\ input \in Nat /\ Len(pipe) \in Nat
      BY <2>1, Sizes DEF Ended, CountTypes, BlockTypes
    <3>2. PICK n \in Nat : n = Len(pipe)
      BY <3>1
    <3>3. /\ pipe' = Append(pipe, Data(produced + 1)) /\ produced' = produced + 1
          /\ child' = child /\ writers' = writers
      BY <2>3 DEF ChildReads
    <3>4. Len(pipe') = n + 1 /\ \A i \in 1 .. n + 1 : pipe'[i] = Data(input + i)
      <4>1. Len(pipe') = n + 1 /\ pipe'[n + 1] = Data(produced + 1) /\ \A i \in 1 .. n : pipe'[i] = pipe[i]
        BY <3>2, <3>3, AppendProperties DEF BlockTypes
      <4>2. produced + 1 = input + (n + 1)
        BY <3>1, <3>2
      <4> QED
        BY <3>1, <3>2, <4>1, <4>2
    <3> QED
      BY <1>job, <2>1, <3>1, <3>2, <3>3, <3>4
  <2> QED
    BY <1>18, <2>2, <2>3
<1>19. CASE Interrupt
  BY <1>job, <1>19 DEF Interrupt, Ended, Shielded, driveVars, driverVars
<1>20. CASE Done \/ UNCHANGED vars
  BY <1>job, <1>20 DEF Done, vars, progVars, driveVars, driverVars, copyVars
<1> QED
  BY <1>1, <1>2, <1>3, <1>4, <1>5, <1>6, <1>7, <1>8, <1>9, <1>10, <1>11, <1>12, <1>13, <1>14, <1>15, <1>16, <1>17,
     <1>18, <1>19, <1>20
  DEF Next, CommandNext, DriverNext, Reader

-----------------------------------------------------------------------------
(* The blocks of a session.                                                *)

LEMMA Concatenation ==
    ASSUME NEW S, NEW a \in Seq(S), NEW b \in Seq(S)
    PROVE  /\ Len(a \o b) = Len(a) + Len(b)
           /\ \A i \in 1 .. Len(a) : (a \o b)[i] = a[i]
           /\ \A i \in 1 .. Len(b) : (a \o b)[Len(a) + i] = b[i]
OBVIOUS

\* A WRITE that the drive accepts takes the first blocks of todo.
LEMMA Sending ==
    ASSUME BlockTypes, AddressTypes, WriteCommand, pc' # "abortDao"
    PROVE  /\ Responsive /\ RightAddress(lba)
           /\ UNCHANGED <<pc, err, job, diskInfo, healthy, tray, medium, testWrite, last, burned, deferred>>
           /\ \E n \in 1 .. Len(todo) :
                /\ Len(todo') = Len(todo) - n /\ Len(sent') = Len(sent) + n /\ Len(cache') = Len(cache) + n
                /\ lba' = lba + n /\ next' = lba + n
                /\ \A i \in 1 .. Len(todo) - n : todo'[i] = todo[n + i]
                /\ \A i \in 1 .. Len(sent) : sent'[i] = sent[i]
                /\ \A i \in 1 .. n : sent'[Len(sent) + i] = <<lba + i - 1, todo[i]>>
                /\ \A i \in 1 .. Len(cache) : cache'[i] = cache[i]
                /\ \A i \in 1 .. n : cache'[Len(cache) + i] = todo[i]
<1>1. /\ Responsive /\ RightAddress(lba) /\ todo # <<>>
      /\ UNCHANGED <<pc, err, job, diskInfo, healthy, tray, medium, testWrite, last, burned, deferred>>
      /\ cache' = cache \o Chunk
      /\ sent' = sent \o [i \in 1 .. Len(Chunk) |-> <<lba + i - 1, Chunk[i]>>]
      /\ lba' = lba + Len(Chunk) /\ next' = lba + Len(Chunk)
      /\ todo' = SubSeq(todo, Len(Chunk) + 1, Len(todo))
  BY DEF WriteCommand, Accept, Failed
<1>2. /\ Chunk \in Seq(Block) /\ Len(Chunk) \in 1 .. Len(todo)
      /\ \A i \in 1 .. Len(Chunk) : Chunk[i] = todo[i]
      /\ Len(todo') = Len(todo) - Len(Chunk)
      /\ \A i \in 1 .. Len(todo) - Len(Chunk) : todo'[i] = todo[Len(Chunk) + i]
  BY <1>1, ChunkTypes
<1>3. PICK n \in 1 .. Len(todo) : n = Len(Chunk)
  BY <1>2
<1>4. PICK batch \in Seq(Int \X Block) : batch = [i \in 1 .. Len(Chunk) |-> <<lba + i - 1, Chunk[i]>>]
  BY <1>2, SentBlocks DEF AddressTypes
<1>5. Len(batch) = n /\ \A i \in 1 .. n : batch[i] = <<lba + i - 1, todo[i]>>
  BY <1>2, <1>3, <1>4
<1>6. /\ Len(sent') = Len(sent) + n
      /\ \A i \in 1 .. Len(sent) : sent'[i] = sent[i]
      /\ \A i \in 1 .. n : sent'[Len(sent) + i] = batch[i]
  <2>1. sent' = sent \o batch /\ sent \in Seq(Int \X Block)
    BY <1>1, <1>4 DEF BlockTypes
  <2>2. /\ Len(sent \o batch) = Len(sent) + Len(batch)
        /\ \A i \in 1 .. Len(sent) : (sent \o batch)[i] = sent[i]
        /\ \A i \in 1 .. Len(batch) : (sent \o batch)[Len(sent) + i] = batch[i]
    BY <2>1, Concatenation
  <2> QED
    BY <2>1, <2>2, <1>5
<1>7. /\ Len(cache') = Len(cache) + n
      /\ \A i \in 1 .. Len(cache) : cache'[i] = cache[i]
      /\ \A i \in 1 .. n : cache'[Len(cache) + i] = todo[i]
  <2>1. cache' = cache \o Chunk /\ cache \in Seq(Block)
    BY <1>1 DEF BlockTypes
  <2> QED
    BY <2>1, <1>2, <1>3, Concatenation
<1>8. /\ Len(todo') = Len(todo) - n /\ lba' = lba + n /\ next' = lba + n
      /\ \A i \in 1 .. Len(todo) - n : todo'[i] = todo[n + i]
  BY <1>1, <1>2, <1>3
<1>9. \A i \in 1 .. n : sent'[Len(sent) + i] = <<lba + i - 1, todo[i]>>
  BY <1>5, <1>6
<1> QED
  BY <1>1, <1>6, <1>7, <1>8, <1>9

\* The drive knows the medium that is in it: what it waits for.
AddressInv ==
    /\ pc \in {"leadIn", "pregap"} => input = 0
    /\ pc \in Opened => last = medium.start + Length
    /\ pc = "leadIn" =>
        /\ job.cdText /\ Len(sent) + Len(todo) = LeadInBlocks
        /\ lba = Len(sent) - Pregap - LeadInBlocks
    /\ pc \in Opened \ {"leadIn"} =>
        /\ Len(sent) + Len(todo) = TextBlocks + Pregap + input
        /\ next = medium.start + Len(sent) - TextBlocks - Pregap

LEMMA AddressInit == Init => AddressInv
BY JobTypes DEF Init, AddressInv, FirstStep, Opened

LEMMA AddressesStep ==
    PlaceInv /\ SheetInv /\ RecordInv /\ DiscTypes /\ CountTypes /\ AddressTypes /\ BlockTypes /\ EarlyInv
    /\ AddressInv /\ [Next]_vars
    => AddressInv'
<1> USE DEF AddressInv, PlaceInv, Records, Recording, Held, Session, Opened, Preparing, Goto, Failed
<1> SUFFICES ASSUME PlaceInv, SheetInv, RecordInv, DiscTypes, CountTypes, AddressTypes, BlockTypes, EarlyInv,
                    AddressInv, [Next]_vars
             PROVE  AddressInv'
  OBVIOUS
<1>job. job.command \in {"write", "copy", "fly", "blank", "unlock"} /\ job.simulate \in BOOLEAN
  BY JobTypes DEF PlaceInv
<1>text. UNCHANGED job => TextBlocks' = TextBlocks
  BY DEF TextBlocks
<1>kept. Records /\ pc \in Session => medium' = medium
  BY MediumKept
<1>num. /\ input \in Nat /\ Len(sent) \in Nat /\ Len(todo) \in Nat /\ lba \in Int /\ next \in Int /\ last \in Int
        /\ medium.start \in Nat /\ TextBlocks \in Nat /\ Pregap \in Nat /\ LeadInBlocks \in Nat
  BY Sizes, MediumTypes DEF CountTypes, BlockTypes, AddressTypes, DiscTypes, MediumType, TextBlocks
<1>1. CASE Setup
  BY <1>job, <1>1 DEF Setup, ReadDiskInfo, Refresh, Prepared, copyVars
<1>2. CASE ReadDisk \/ CheckToc
  BY <1>job, <1>2 DEF ReadDisk, CheckToc, AfterChecks, driveVars, driverVars
<1>3. CASE SwapMedium \/ Swapped \/ AskMedium \/ AnotherMedium
  BY <1>job, <1>3 DEF SwapMedium, Swapped, AskMedium, AnotherMedium, ReadDiskInfo, Eject, Insert, driveVars,
     driverVars, copyVars
<1>4. CASE CreatePipe \/ ForkReader \/ CloseWriteEnd \/ DupStdin
  BY <1>job, <1>4 DEF CreatePipe, ForkReader, CloseWriteEnd, DupStdin, OwnEnds, driveVars, driverVars
<1>5. CASE Lock
  BY <1>job, <1>5 DEF Lock, Prevent, Blocked, AfterNoLock, driveVars, driverVars, copyVars
<1>6. CASE GetSharedMemory \/ AskStart \/ StartReader
  BY <1>job, <1>6 DEF GetSharedMemory, AskStart, ReadDiskInfo, StartReader, driveVars, driverVars, copyVars
<1>7. CASE Deliver \/ DataMissing \/ DeliverFails \/ TakeBuffer \/ ReleaseBuffer
  <2>1. UNCHANGED <<job, lba, next, last, sent, medium>>
    BY <1>7 DEF Deliver, DataMissing, DeliverFails, ReaderReports, TakeBuffer, ReleaseBuffer, progVars, driveVars,
       driverVars
  <2>2. CASE Deliver
    <3>1. pc = "fifo" /\ pc' = pc /\ input' = input + 1
      BY <2>2 DEF Deliver, progVars
    <3>2. Len(todo') = Len(todo) + 1
      BY <2>2 DEF Deliver, BlockTypes
    <3> QED
      BY <1>num, <1>text, <2>1, <3>1, <3>2
  <2>3. CASE ~Deliver
    BY <1>job, <1>7, <2>1, <2>3 DEF DataMissing, DeliverFails, ReaderReports, TakeBuffer, ReleaseBuffer,
       driverVars, copyVars, TextBlocks
  <2> QED
    BY <2>2, <2>3
<1>8. CASE Written \/ Unlock \/ EjectMedium
  BY <1>job, <1>8 DEF Written, AfterWrite, Unlock, Prevent, AfterUnlock, EjectMedium, Eject, driveVars, driverVars,
     copyVars
<1>9. CASE RemoveImage \/ Cleanup
  BY <1>job, <1>9 DEF RemoveImage, Cleanup, KillReader, driveVars, driverVars
<1>10. CASE InitDao /\ UNCHANGED copyVars
  BY <1>job, <1>10 DEF InitDao, ReadDiskInfo, Usable, Responsive, driveVars, driverVars, copyVars
<1>11. CASE (SetSpeed \/ SetWriteParameters \/ Calibrate) /\ UNCHANGED copyVars
  BY <1>job, <1>11 DEF SetSpeed, SetWriteParameters, TestWrite, Calibrate, Command, driveVars, driverVars, copyVars
<1>12. CASE SendCueSheet /\ UNCHANGED copyVars
  <2>1. input = 0 /\ sent = <<>> /\ UNCHANGED <<job, input, sent>>
    BY <1>12 DEF SendCueSheet, copyVars, EarlyInv, Early
  <2>2. CASE pc' = "abortDao"
    BY <2>2
  <2>3. CASE pc' # "abortDao"
    <3>1. /\ medium' = medium /\ last' = medium.start + Length
          /\ next' = IF job.cdText THEN AnyAddress ELSE medium.start - Pregap
          /\ pc' = IF job.cdText THEN "leadIn" ELSE "pregap"
      BY <1>12, <2>3 DEF SendCueSheet, Command
    <3>2. CASE job.cdText
      <4>1. lba' = -Pregap - LeadInBlocks /\ Len(todo') = LeadInBlocks
        BY <1>12, <3>2, Sizes DEF SendCueSheet
      <4> QED
        BY <2>1, <3>1, <3>2, <4>1, Sizes DEF TextBlocks
    <3>3. CASE ~job.cdText
      <4>1. Len(todo') = Pregap
        BY <1>12, <3>3, Sizes DEF SendCueSheet, Zeros
      <4> QED
        BY <1>num, <2>1, <3>1, <3>3, <4>1, Sizes DEF TextBlocks
    <3> QED
      BY <3>2, <3>3
  <2> QED
    BY <2>2, <2>3
<1>13. CASE WriteCommand /\ UNCHANGED copyVars
  <2>1. input' = input /\ Writing
    BY <1>13 DEF WriteCommand, copyVars
  <2>2. CASE pc' = "abortDao"
    BY <2>2
  <2>3. CASE pc' # "abortDao"
    <3>1. RightAddress(lba) /\ UNCHANGED <<pc, job, medium, last>>
      BY <1>13, <2>3, Sending
    <3>2. PICK n \in 1 .. Len(todo) :
            Len(todo') = Len(todo) - n /\ Len(sent') = Len(sent) + n /\ lba' = lba + n /\ next' = lba + n
      BY <1>13, <2>3, Sending
    <3>3. n \in Nat /\ Len(sent') + Len(todo') = Len(sent) + Len(todo)
      BY <3>2, <1>num
    <3>4. CASE pc = "leadIn"
      <4>1. /\ job.cdText /\ Len(sent) + Len(todo) = LeadInBlocks /\ lba = Len(sent) - Pregap - LeadInBlocks
            /\ input = 0 /\ last = medium.start + Length
        BY <3>4
      <4>2. lba' = Len(sent') - Pregap - LeadInBlocks
        BY <1>num, <3>2, <3>3, <4>1
      <4> QED
        BY <2>1, <3>1, <3>3, <3>4, <4>1, <4>2
    <3>5. CASE pc # "leadIn"
      <4>1. next # AnyAddress
        BY <1>num, <2>1, <3>5, DriverAssumption DEF Writing, AnyAddress, TextBlocks
      <4>2. lba = next
        BY <3>1, <4>1 DEF RightAddress
      <4>3. pc \in {"pregap", "write"} /\ next = medium.start + Len(sent) - TextBlocks - Pregap
        BY <2>1, <3>5 DEF Writing
      <4>4. next' = medium.start + Len(sent') - TextBlocks - Pregap
        BY <1>num, <3>2, <3>3, <4>2, <4>3
      <4>5. Len(sent') + Len(todo') = TextBlocks + Pregap + input /\ last = medium.start + Length
        BY <3>3, <4>3
      <4> QED
        BY <1>text, <2>1, <3>1, <4>3, <4>4, <4>5
    <3> QED
      BY <3>4, <3>5
  <2> QED
    BY <2>2, <2>3
<1>14. CASE (LongWriteInProgress \/ AllWritten) /\ UNCHANGED copyVars
  <2>1. UNCHANGED <<job, input, sent, medium, last>>
    BY <1>14 DEF LongWriteInProgress, AllWritten, driveVars, copyVars
  <2>2. CASE LongWriteInProgress
    BY <2>1, <2>2 DEF LongWriteInProgress, RetryFrom, driveVars, TextBlocks
  <2>3. CASE AllWritten /\ pc = "leadIn"
    <3>1. pc' = "pregap" /\ Len(todo') = Pregap /\ next' = medium.start - Pregap /\ Len(todo) = 0
      BY <2>3, Sizes DEF AllWritten, Behind, Zeros
    <3> QED
      BY <1>num, <2>1, <2>3, <3>1 DEF TextBlocks
  <2>4. CASE AllWritten /\ pc # "leadIn"
    <3>1. UNCHANGED <<todo, lba, next>> /\ pc' \in {"fifo", "released"} /\ pc \in {"pregap", "write"}
      BY <2>4 DEF AllWritten, Writing, Behind, driveVars
    <3> QED
      BY <2>1, <3>1 DEF TextBlocks
  <2> QED
    BY <1>14, <2>2, <2>3, <2>4
<1>15. CASE (FlushCache \/ AbortDao) /\ UNCHANGED copyVars
  BY <1>job, <1>15 DEF FlushCache, AbortDao, Synchronize, driverVars, copyVars
<1>16. CASE (CheckDriveReady \/ SetSimulationMode \/ BlankDisk) /\ UNCHANGED copyVars
  BY <1>job, <1>16 DEF CheckDriveReady, SetSimulationMode, BlankDisk, Command, driverVars, copyVars
<1>17. CASE Burns \/ (~Ended /\ (BurningFails \/ OpenTray) /\ UNCHANGED <<progVars, driverVars, copyVars>>) \/ Person
  <2>1. UNCHANGED <<job, pc, input, lba, todo, sent>>
    BY <1>17 DEF Burns, Person, progVars, driverVars, copyVars
  <2>2. Records /\ pc \in Session => UNCHANGED <<last, next>>
    BY <1>job, <1>17 DEF Burns, BurnOne, BurningFails, OpenTray, Person, CloseTray, SheetInv
  <2> QED
    BY <1>job, <1>kept, <2>1, <2>2 DEF TextBlocks
<1>18. CASE ChildReads \/ ChildEnds
  <2>1. UNCHANGED <<progVars, driverVars, driveVars, input>>
    BY <1>18 DEF ChildReads, ChildEnds
  <2> QED
    BY <2>1 DEF progVars, driverVars, driveVars, TextBlocks
<1>19. CASE Interrupt
  BY <1>job, <1>19 DEF Interrupt, Ended, Shielded, driveVars, driverVars
<1>20. CASE Done \/ UNCHANGED vars
  <2>1. UNCHANGED <<progVars, driverVars, driveVars, input>>
    BY <1>20 DEF Done, vars, copyVars
  <2> QED
    BY <2>1 DEF progVars, driverVars, driveVars, TextBlocks
<1> QED
  BY <1>1, <1>2, <1>3, <1>4, <1>5, <1>6, <1>7, <1>8, <1>9, <1>10, <1>11, <1>12, <1>13, <1>14, <1>15, <1>16, <1>17,
     <1>18, <1>19, <1>20
  DEF Next, CommandNext, DriverNext, Reader

\* What is still to be sent goes on where sent ends.
TodoInv ==
    /\ pc = "leadIn" => \A i \in 1 .. Len(todo) : todo[i] = Text
    /\ pc = "pregap" => Len(sent) >= TextBlocks /\ \A i \in 1 .. Len(todo) : todo[i] = ZeroBlock
    /\ pc \in {"fifo", "write", "released"} =>
        /\ Len(sent) >= TextBlocks + Pregap
        /\ \A i \in 1 .. Len(todo) :
            \/ todo[i] = Data(Len(sent) + i - TextBlocks - Pregap)
            \/ /\ todo[i] = Pad /\ job.command = "fly" /\ child # "reading"
               /\ Len(sent) + i - TextBlocks - Pregap > produced

LEMMA TodoInit == Init => TodoInv
BY JobTypes DEF Init, TodoInv, FirstStep

LEMMA TodoStep ==
    PlaceInv /\ CountTypes /\ BlockTypes /\ AddressTypes /\ EarlyInv /\ PipeInv /\ AddressInv /\ TodoInv
    /\ [Next]_vars
    => TodoInv'
<1> USE DEF TodoInv, PlaceInv, Recording, Held, Session, Opened, Preparing, Goto, Failed
<1> SUFFICES ASSUME PlaceInv, CountTypes, BlockTypes, AddressTypes, EarlyInv, PipeInv, AddressInv, TodoInv,
                    [Next]_vars
             PROVE  TodoInv'
  OBVIOUS
<1>job. job.command \in {"write", "copy", "fly", "blank", "unlock"} /\ job.simulate \in BOOLEAN
  BY JobTypes DEF PlaceInv
<1>text. UNCHANGED job => TextBlocks' = TextBlocks
  BY DEF TextBlocks
<1>num. /\ input \in Nat /\ produced \in Nat /\ Len(sent) \in Nat /\ Len(todo) \in Nat
        /\ TextBlocks \in Nat /\ Pregap \in Nat
  BY Sizes DEF CountTypes, BlockTypes, TextBlocks
<1>1. CASE Setup
  BY <1>job, <1>1 DEF Setup, ReadDiskInfo, Refresh, Prepared, copyVars
<1>2. CASE ReadDisk \/ CheckToc
  BY <1>job, <1>2 DEF ReadDisk, CheckToc, AfterChecks, driveVars, driverVars
<1>3. CASE SwapMedium \/ Swapped \/ AskMedium \/ AnotherMedium
  BY <1>job, <1>3 DEF SwapMedium, Swapped, AskMedium, AnotherMedium, ReadDiskInfo, Eject, Insert, driveVars,
     driverVars, copyVars
<1>4. CASE CreatePipe \/ ForkReader \/ CloseWriteEnd \/ DupStdin
  BY <1>job, <1>4 DEF CreatePipe, ForkReader, CloseWriteEnd, DupStdin, OwnEnds, driveVars, driverVars
<1>5. CASE Lock
  BY <1>job, <1>5 DEF Lock, Prevent, Blocked, AfterNoLock, driveVars, driverVars, copyVars
<1>6. CASE GetSharedMemory \/ AskStart \/ StartReader
  BY <1>job, <1>6 DEF GetSharedMemory, AskStart, ReadDiskInfo, StartReader, driveVars, driverVars, copyVars
<1>7. CASE Deliver \/ DataMissing \/ DeliverFails \/ TakeBuffer \/ ReleaseBuffer
  <2>1. UNCHANGED <<job, sent, child, produced>>
    BY <1>7 DEF Deliver, DataMissing, DeliverFails, ReaderReports, TakeBuffer, ReleaseBuffer, progVars, driverVars,
       copyVars
  <2>2. CASE Deliver
    <3>1. pc = "fifo" /\ pc' = pc
      BY <2>2 DEF Deliver, progVars
    <3>2. PICK n \in Nat : n = Len(todo) + 1
      BY <1>num
    <3>3. Len(sent) + n - TextBlocks - Pregap = input + 1
      <4>1. Len(sent) + Len(todo) = TextBlocks + Pregap + input
        BY <3>1 DEF AddressInv
      <4> QED
        BY <1>num, <3>2, <4>1
    <3>4. ASSUME NEW b, todo' = Append(todo, b),
                 b = Data(input + 1) \/ (b = Pad /\ job.command = "fly" /\ child # "reading" /\ input + 1 > produced)
          PROVE  TodoInv'
      <4>1. Len(todo') = n /\ todo'[n] = b /\ \A i \in 1 .. n - 1 : todo'[i] = todo[i]
        BY <3>2, <3>4 DEF BlockTypes
      <4>2. \A i \in 1 .. n : i \in 1 .. Len(todo) \/ i = n
        BY <1>num, <3>2
      <4> QED
        BY <1>num, <1>text, <2>1, <3>1, <3>2, <3>3, <3>4, <4>1, <4>2
    <3>5. CASE pipe # <<>> /\ todo' = Append(todo, Head(pipe))
      <4>1. Head(pipe) = pipe[1] /\ 1 \in 1 .. Len(pipe)
        BY <3>5, EmptySeq DEF BlockTypes
      <4>2. Head(pipe) = Data(input + 1)
        BY <3>1, <4>1 DEF PipeInv
      <4> QED
        BY <3>4, <3>5, <4>2
    <3>6. CASE job.command = "fly" /\ EndOfData /\ todo' = Append(todo, Pad)
      <4>1. child # "reading" /\ pipe = <<>> /\ input + 0 >= produced
        BY <3>1, <3>6 DEF EndOfData, PipeInv
      <4>2. input + 1 > produced
        BY <1>num, <4>1
      <4> QED
        BY <3>4, <3>6, <4>1, <4>2
    <3>7. CASE todo' = Append(todo, Data(input + 1))
      BY <3>4, <3>7
    <3> QED
      BY <2>2, <3>5, <3>6, <3>7 DEF Deliver
  <2>3. CASE ~Deliver
    BY <1>job, <1>text, <1>7, <2>1, <2>3 DEF DataMissing, DeliverFails, ReaderReports, TakeBuffer, ReleaseBuffer,
       driverVars, copyVars
  <2> QED
    BY <2>2, <2>3
<1>8. CASE Written \/ Unlock \/ EjectMedium
  BY <1>job, <1>8 DEF Written, AfterWrite, Unlock, Prevent, AfterUnlock, EjectMedium, Eject, driveVars, driverVars,
     copyVars
<1>9. CASE RemoveImage \/ Cleanup
  BY <1>job, <1>9 DEF RemoveImage, Cleanup, KillReader, driveVars, driverVars
<1>10. CASE InitDao /\ UNCHANGED copyVars
  BY <1>job, <1>10 DEF InitDao, ReadDiskInfo, Usable, Responsive, driveVars, driverVars, copyVars
<1>11. CASE (SetSpeed \/ SetWriteParameters \/ Calibrate) /\ UNCHANGED copyVars
  BY <1>job, <1>11 DEF SetSpeed, SetWriteParameters, TestWrite, Calibrate, Command, driveVars, driverVars, copyVars
<1>12. CASE SendCueSheet /\ UNCHANGED copyVars
  <2>1. CASE pc' = "abortDao"
    BY <2>1
  <2>2. CASE pc' # "abortDao"
    <3>1. pc' = IF job.cdText THEN "leadIn" ELSE "pregap"
      BY <1>12, <2>2 DEF SendCueSheet, Command
    <3>2. job.cdText => \A i \in 1 .. Len(todo') : todo'[i] = Text
      BY <1>12, Sizes DEF SendCueSheet
    <3>3. ~job.cdText => \A i \in 1 .. Len(todo') : todo'[i] = ZeroBlock
      BY <1>12, Sizes DEF SendCueSheet, Zeros
    <3>4. sent' = <<>> /\ job' = job
      BY <1>12 DEF SendCueSheet, EarlyInv, Early
    <3>5. ~job.cdText => Len(sent') >= TextBlocks
      BY <3>4 DEF TextBlocks
    <3> QED
      BY <1>text, <3>1, <3>2, <3>3, <3>4, <3>5
  <2> QED
    BY <2>1, <2>2
<1>13. CASE WriteCommand /\ UNCHANGED copyVars
  <2>1. Writing /\ UNCHANGED <<child, produced>>
    BY <1>13 DEF WriteCommand, copyVars
  <2>2. CASE pc' = "abortDao"
    BY <2>2
  <2>3. CASE pc' # "abortDao"
    <3>1. UNCHANGED <<pc, job>>
      BY <1>13, <2>3, Sending
    <3>2. PICK n \in 1 .. Len(todo) :
            /\ Len(todo') = Len(todo) - n /\ Len(sent') = Len(sent) + n
            /\ \A i \in 1 .. Len(todo) - n : todo'[i] = todo[n + i]
      BY <1>13, <2>3, Sending
    <3>3. ASSUME NEW i \in 1 .. Len(todo')
          PROVE  /\ n + i \in 1 .. Len(todo) /\ todo'[i] = todo[n + i]
                 /\ Len(sent') + i - TextBlocks - Pregap = Len(sent) + (n + i) - TextBlocks - Pregap
      <4>1. i \in Nat /\ n \in Nat /\ i <= Len(todo) - n
        BY <1>num, <3>2
      <4>2. n + i \in 1 .. Len(todo) /\ todo'[i] = todo[n + i]
        BY <1>num, <3>2, <4>1
      <4>3. Len(sent') + i - TextBlocks - Pregap = Len(sent) + (n + i) - TextBlocks - Pregap
        BY <1>num, <3>2, <4>1
      <4> QED
        BY <4>2, <4>3
    <3>4. Len(sent) >= TextBlocks + Pregap => Len(sent') >= TextBlocks + Pregap
      BY <1>num, <3>2
    <3>5. Len(sent) >= TextBlocks => Len(sent') >= TextBlocks
      BY <1>num, <3>2
    <3> QED
      BY <1>text, <2>1, <3>1, <3>3, <3>4, <3>5
  <2> QED
    BY <2>2, <2>3
<1>14. CASE (LongWriteInProgress \/ AllWritten) /\ UNCHANGED copyVars
  <2>1. UNCHANGED <<job, sent, child, produced>>
    BY <1>14 DEF LongWriteInProgress, AllWritten, copyVars
  <2>2. CASE LongWriteInProgress
    BY <1>text, <2>1, <2>2 DEF LongWriteInProgress
  <2>3. CASE AllWritten /\ pc = "leadIn"
    <3>1. pc' = "pregap" /\ (\A i \in 1 .. Len(todo') : todo'[i] = ZeroBlock) /\ Len(todo) = 0
      BY <2>3, Sizes DEF AllWritten, Behind, Zeros
    <3>2. job.cdText /\ Len(sent) + Len(todo) = LeadInBlocks
      BY <2>3 DEF AddressInv
    <3>3. Len(sent) >= TextBlocks
      BY <1>num, Sizes, <3>1, <3>2 DEF TextBlocks
    <3> QED
      BY <1>text, <2>1, <3>1, <3>3
  <2>4. CASE AllWritten /\ pc # "leadIn"
    <3>1. UNCHANGED todo /\ todo = <<>> /\ pc' \in {"fifo", "released"} /\ pc \in {"pregap", "write"}
      BY <2>4 DEF AllWritten, Writing, Behind
    <3>2. Len(sent) >= TextBlocks + Pregap
      BY <1>num, <3>1 DEF AddressInv
    <3> QED
      BY <1>text, <2>1, <3>1, <3>2
  <2> QED
    BY <1>14, <2>2, <2>3, <2>4
<1>15. CASE (FlushCache \/ AbortDao) /\ UNCHANGED copyVars
  BY <1>job, <1>15 DEF FlushCache, AbortDao, Synchronize, driverVars, copyVars
<1>16. CASE (CheckDriveReady \/ SetSimulationMode \/ BlankDisk) /\ UNCHANGED copyVars
  BY <1>job, <1>16 DEF CheckDriveReady, SetSimulationMode, BlankDisk, Command, driverVars, copyVars
<1>17. CASE Burns \/ (~Ended /\ (BurningFails \/ OpenTray) /\ UNCHANGED <<progVars, driverVars, copyVars>>) \/ Person
  <2>1. UNCHANGED <<job, pc, sent, todo, child, produced>>
    BY <1>17 DEF Burns, Person, progVars, driverVars, copyVars
  <2> QED
    BY <1>text, <2>1
<1>18. CASE ChildReads \/ ChildEnds
  <2>1. UNCHANGED <<progVars, driverVars>> /\ child = "reading"
    BY <1>18 DEF ChildReads, ChildEnds
  <2> QED
    BY <1>text, <2>1 DEF progVars, driverVars
<1>19. CASE Interrupt
  BY <1>job, <1>19 DEF Interrupt, Ended, Shielded, driveVars, driverVars
<1>20. CASE Done \/ UNCHANGED vars
  <2>1. UNCHANGED <<progVars, driverVars, child, produced>>
    BY <1>20 DEF Done, vars, copyVars
  <2> QED
    BY <1>text, <2>1 DEF progVars, driverVars
<1> QED
  BY <1>1, <1>2, <1>3, <1>4, <1>5, <1>6, <1>7, <1>8, <1>9, <1>10, <1>11, <1>12, <1>13, <1>14, <1>15, <1>16, <1>17,
     <1>18, <1>19, <1>20
  DEF Next, CommandNext, DriverNext, Reader

LEMMA OnlyWritesSend == PlaceInv /\ [Next]_vars => sent' = sent \/ (WriteCommand /\ pc' # "abortDao")
<1> SUFFICES ASSUME PlaceInv, [Next]_vars PROVE sent' = sent \/ (WriteCommand /\ pc' # "abortDao")
  OBVIOUS
<1>job. job.command \in {"write", "copy", "fly", "blank", "unlock"} /\ job.simulate \in BOOLEAN
  BY JobTypes DEF PlaceInv
<1>1. CASE Setup
  BY <1>job, <1>1 DEF Setup, ReadDiskInfo, Refresh, Prepared, copyVars
<1>2. CASE ReadDisk \/ CheckToc
  BY <1>job, <1>2 DEF ReadDisk, CheckToc, AfterChecks, driveVars, driverVars
<1>3. CASE SwapMedium \/ Swapped \/ AskMedium \/ AnotherMedium
  BY <1>job, <1>3 DEF SwapMedium, Swapped, AskMedium, AnotherMedium, ReadDiskInfo, Eject, Insert, driveVars,
     driverVars, copyVars
<1>4. CASE CreatePipe \/ ForkReader \/ CloseWriteEnd \/ DupStdin
  BY <1>job, <1>4 DEF CreatePipe, ForkReader, CloseWriteEnd, DupStdin, OwnEnds, driveVars, driverVars
<1>5. CASE Lock
  BY <1>job, <1>5 DEF Lock, Prevent, Blocked, AfterNoLock, driveVars, driverVars, copyVars
<1>6. CASE GetSharedMemory \/ AskStart \/ StartReader
  BY <1>job, <1>6 DEF GetSharedMemory, AskStart, ReadDiskInfo, StartReader, driveVars, driverVars, copyVars
<1>7. CASE Deliver \/ DataMissing \/ DeliverFails \/ TakeBuffer \/ ReleaseBuffer
  BY <1>job, <1>7 DEF Deliver, DataMissing, DeliverFails, ReaderReports, TakeBuffer, ReleaseBuffer, progVars,
     driveVars, driverVars, copyVars
<1>8. CASE Written \/ Unlock \/ EjectMedium
  BY <1>job, <1>8 DEF Written, AfterWrite, Unlock, Prevent, AfterUnlock, EjectMedium, Eject, driveVars, driverVars,
     copyVars
<1>9. CASE RemoveImage \/ Cleanup
  BY <1>job, <1>9 DEF RemoveImage, Cleanup, KillReader, driveVars, driverVars
<1>10. CASE InitDao /\ UNCHANGED copyVars
  BY <1>job, <1>10 DEF InitDao, ReadDiskInfo, Usable, Responsive, driveVars, driverVars, copyVars
<1>11. CASE (SetSpeed \/ SetWriteParameters \/ Calibrate) /\ UNCHANGED copyVars
  BY <1>job, <1>11 DEF SetSpeed, SetWriteParameters, TestWrite, Calibrate, Command, driveVars, driverVars, copyVars
<1>12. CASE SendCueSheet /\ UNCHANGED copyVars
  BY <1>job, <1>12 DEF SendCueSheet, Command, copyVars
<1>13. CASE WriteCommand /\ UNCHANGED copyVars
  BY <1>job, <1>13 DEF WriteCommand, Writing, Accept, copyVars, Failed
<1>14. CASE (LongWriteInProgress \/ AllWritten) /\ UNCHANGED copyVars
  BY <1>job, <1>14 DEF LongWriteInProgress, AllWritten, Writing, Behind, driveVars, driverVars, copyVars
<1>15. CASE (FlushCache \/ AbortDao) /\ UNCHANGED copyVars
  BY <1>job, <1>15 DEF FlushCache, AbortDao, Synchronize, driverVars, copyVars
<1>16. CASE (CheckDriveReady \/ SetSimulationMode \/ BlankDisk) /\ UNCHANGED copyVars
  BY <1>job, <1>16 DEF CheckDriveReady, SetSimulationMode, BlankDisk, Command, driverVars, copyVars
<1>17. CASE Burns \/ (~Ended /\ (BurningFails \/ OpenTray) /\ UNCHANGED <<progVars, driverVars, copyVars>>) \/ Person
  BY <1>job, <1>17 DEF Burns, BurnOne, BurningFails, OpenTray, Person, CloseTray, Insert, Ended, progVars,
     driverVars, copyVars
<1>18. CASE ChildReads \/ ChildEnds
  BY <1>job, <1>18 DEF ChildReads, ChildEnds, progVars, driveVars, driverVars
<1>19. CASE Interrupt
  BY <1>job, <1>19 DEF Interrupt, Ended, Shielded, driveVars, driverVars
<1>20. CASE Done \/ UNCHANGED vars
  BY <1>job, <1>20 DEF Done, vars, progVars, driveVars, driverVars, copyVars
<1> QED
  BY <1>1, <1>2, <1>3, <1>4, <1>5, <1>6, <1>7, <1>8, <1>9, <1>10, <1>11, <1>12, <1>13, <1>14, <1>15, <1>16, <1>17,
     <1>18, <1>19, <1>20
  DEF Next, CommandNext, DriverNext, Reader

SentRight == \A i \in Len(sent) + 1 .. Len(sent') : sent'[i] = Wanted(i) \/ OnlyPadded(i, sent'[i])

LEMMA Shift ==
    \A s, j, p, l \in Int : s - p - l + j - 1 = s + j - 1 - p - l
OBVIOUS

LEMMA SendRight ==
    PlaceInv /\ DiscTypes /\ CountTypes /\ BlockTypes /\ AddressTypes /\ AddressInv /\ TodoInv /\ [Next]_vars => SentRight
<1> SUFFICES ASSUME PlaceInv, DiscTypes, CountTypes, BlockTypes, AddressTypes, AddressInv, TodoInv, [Next]_vars
             PROVE  SentRight
  OBVIOUS
<1>num. /\ input \in Nat /\ produced \in Nat /\ Len(sent) \in Nat /\ Len(todo) \in Nat /\ lba \in Int /\ next \in Int
        /\ medium.start \in Nat /\ TextBlocks \in Nat /\ Pregap \in Nat /\ LeadInBlocks \in Nat
  BY Sizes, MediumTypes DEF CountTypes, BlockTypes, AddressTypes, DiscTypes, MediumType, TextBlocks
<1>1. CASE sent' = sent
  BY <1>num, <1>1 DEF SentRight
<1>2. CASE WriteCommand /\ pc' # "abortDao"
  <2>1. RightAddress(lba) /\ pc \in {"leadIn", "pregap", "write"}
    BY <1>2, Sending DEF WriteCommand, Writing
  <2>2. PICK n \in 1 .. Len(todo) :
          Len(sent') = Len(sent) + n /\ \A i \in 1 .. n : sent'[Len(sent) + i] = <<lba + i - 1, todo[i]>>
    BY <1>2, Sending
  <2> SUFFICES ASSUME NEW i \in Len(sent) + 1 .. Len(sent') PROVE sent'[i] = Wanted(i) \/ OnlyPadded(i, sent'[i])
    BY DEF SentRight
  <2>3. PICK j \in Nat : j \in 1 .. n /\ i = Len(sent) + j
    <3>1. n \in Nat /\ i \in Len(sent) + 1 .. Len(sent) + n
      BY <1>num, <2>2
    <3>2. i - Len(sent) \in 1 .. n /\ i - Len(sent) \in Nat /\ i = Len(sent) + (i - Len(sent))
      BY <1>num, <3>1
    <3> QED
      BY <3>2
  <2>4. sent'[i] = <<lba + j - 1, todo[j]>> /\ j \in 1 .. Len(todo) /\ i \in Nat
    <3>1. sent'[Len(sent) + j] = <<lba + j - 1, todo[j]>>
      BY <2>2, <2>3
    <3>2. j \in 1 .. Len(todo) /\ Len(sent) + j \in Nat
      BY <1>num, <2>2, <2>3
    <3> QED
      BY <2>3, <3>1, <3>2
  <2>5. CASE pc = "leadIn"
    <3>1. todo[j] = Text /\ job.cdText
      BY <2>4, <2>5 DEF TodoInv, AddressInv
    <3>2. TextBlocks = LeadInBlocks
      BY <3>1 DEF TextBlocks
    <3>3. Len(sent) + Len(todo) = LeadInBlocks /\ lba = Len(sent) - Pregap - LeadInBlocks
      BY <2>5 DEF AddressInv
    <3>4. i <= TextBlocks
      BY <1>num, <2>3, <2>4, <3>2, <3>3
    <3>5. lba + j - 1 = i - 1 - Pregap - LeadInBlocks
      BY <1>num, <2>3, <3>3, Shift
    <3> QED
      BY <2>4, <3>1, <3>4, <3>5 DEF Wanted
  <2>6. CASE pc # "leadIn"
    <3>1. pc \in {"pregap", "write"} /\ next = medium.start + Len(sent) - TextBlocks - Pregap
      BY <2>1, <2>6 DEF AddressInv, Opened
    <3>2. Len(sent) >= TextBlocks
      BY <1>num, <3>1 DEF TodoInv
    <3>3. next # AnyAddress
      BY <1>num, <3>1, <3>2, DriverAssumption DEF AnyAddress
    <3>4. lba = next
      BY <2>1, <3>3 DEF RightAddress
    <3>5. PICK k \in Int : k = i - TextBlocks - Pregap
      BY <1>num, <2>4
    <3>6. lba + j - 1 = medium.start + k - 1 /\ i > TextBlocks
      <4>1. i > TextBlocks
        BY <1>num, <2>3, <2>4, <3>2
      <4>2. k = Len(sent) + j - TextBlocks - Pregap
        BY <1>num, <2>3, <3>5
      <4>3. lba = medium.start + Len(sent) - TextBlocks - Pregap
        BY <3>1, <3>4
      <4>4. lba + j - 1 = medium.start + (Len(sent) + j - TextBlocks - Pregap) - 1
        <5>1. TextBlocks \in Int /\ Pregap \in Int /\ Len(sent) \in Int /\ medium.start \in Int /\ lba \in Int /\ j \in Int
          BY <1>num, <4>3
        <5> QED
          BY <4>3, <5>1, Regrouped
      <4> QED
        BY <4>1, <4>2, <4>4
    <3>7. CASE pc = "pregap"
      <4>1. todo[j] = ZeroBlock /\ Len(sent) + Len(todo) = TextBlocks + Pregap + input /\ input = 0
        BY <2>4, <3>7 DEF TodoInv, AddressInv, Opened
      <4>2. k <= 0
        BY <1>num, <2>3, <2>4, <3>5, <4>1
      <4>3. Wanted(i) = <<medium.start + k - 1, ZeroBlock>>
        BY <1>num, <2>4, <3>5, <3>6, <4>2 DEF Wanted
      <4> QED
        BY <2>4, <3>6, <4>1, <4>3
    <3>8. CASE pc = "write"
      <4>1. Len(sent) >= TextBlocks + Pregap /\ Len(sent) + j - TextBlocks - Pregap = k
        BY <1>num, <2>3, <2>4, <3>5, <3>8 DEF TodoInv
      <4>2. k > 0
        BY <1>num, <2>4, <4>1
      <4>3. todo[j] = Data(k) \/ (todo[j] = Pad /\ job.command = "fly" /\ k > produced)
        BY <2>4, <3>8, <4>1 DEF TodoInv
      <4>4. Wanted(i) = <<medium.start + k - 1, Data(k)>>
        BY <1>num, <2>4, <3>5, <3>6, <4>2 DEF Wanted
      <4>5. CASE todo[j] = Data(k)
        BY <2>4, <3>6, <4>4, <4>5
      <4>6. CASE todo[j] = Pad /\ job.command = "fly" /\ k > produced
        <5>1. Wanted(i)[1] = medium.start + k - 1
          BY <4>4
        <5> QED
          BY <2>4, <3>5, <3>6, <4>6, <5>1 DEF OnlyPadded
      <4> QED
        BY <4>3, <4>5, <4>6
    <3> QED
      BY <3>1, <3>7, <3>8
  <2> QED
    BY <2>5, <2>6
<1> QED
  BY <1>1, <1>2, OnlyWritesSend

\* What these proofs know of every state.
SessionInv ==
    /\ PlaceInv /\ TypeInv /\ EarlyInv /\ SheetInv /\ ProcessInv
    /\ RecordInv /\ PipeInv /\ AddressInv /\ TodoInv

LEMMA SessionInvariant == Spec => []SessionInv
<1>1. Init => SessionInv
  BY PlaceInit, TypeInit, EarlyInit, SheetInit, LeftInit, RecordInit, PipeInit, AddressInit, TodoInit DEF SessionInv
<1>2. SessionInv /\ [Next]_vars => SessionInv'
  <2> SUFFICES ASSUME SessionInv, [Next]_vars PROVE SessionInv'
    OBVIOUS
  <2>1. /\ PlaceInv /\ TypeInv /\ EarlyInv /\ SheetInv /\ ProcessInv
        /\ RecordInv /\ PipeInv /\ AddressInv /\ TodoInv
        /\ DiscTypes /\ CountTypes /\ AddressTypes /\ BlockTypes
    BY DEF SessionInv, TypeInv
  <2>2. PlaceInv' /\ TypeInv' /\ EarlyInv' /\ SheetInv' /\ ProcessInv'
    BY <2>1, PlaceStep, TypeStep, EarlyStep, SheetStep, ProcessStep
  <2>3. RecordInv' /\ PipeInv'
    BY <2>1, RecordStep, PipeStep
  <2>4. AddressInv' /\ TodoInv'
    BY <2>1, AddressesStep, TodoStep
  <2> QED
    BY <2>2, <2>3, <2>4 DEF SessionInv
<1> QED
  BY <1>1, <1>2, PTL DEF Spec

\* The driver sends the blocks of the session in order, each once and at its address
\* on the medium that is in the drive, however often the drive has no room
\* (writeData(), GenericMMC.cc) and however the reader process and the drive interleave.
THEOREM SentInOrder == Spec => SessionIsImage
<1>1. SessionInv /\ [Next]_vars 
      => [\A i \in Len(sent) + 1 .. Len(sent') : sent'[i] = Wanted(i) \/ OnlyPadded(i, sent'[i])]_vars
  BY SendRight DEF SessionInv, TypeInv, SentRight
<1> QED
  BY <1>1, SessionInvariant, PTL DEF Spec, SessionIsImage
-----------------------------------------------------------------------------
(* Why a command fails.                                                    *)

\* Without a fault the drive answers every command and no one opens it, the driver
\* knows the medium, and the reader process reads to the end.
CalmInv ==
    healthy => /\ ~deferred /\ pc # "killed"
               /\ tray = "in" \/ pc \in {"swapped", "askMedium", "prompt", "removeImage", "cleanup", "exit"}
InformedInv == healthy /\ pc \in Preparing \cup Opened => diskInfo = Told(medium)
AimedInv ==
    healthy => /\ pc = "leadIn" => next \in {AnyAddress, lba}
               /\ pc \in {"pregap", "fifo", "write", "released"} => lba = next
ReadToEndInv == healthy /\ child = "sleeping" => produced = Length

Reason == ~Usable(Told(medium)) \/ (job.oneDrive /\ medium.empty)
ReasonInv ==
    healthy /\ err = 1 => /\ Reason /\ tray = "in" /\ Records
                          /\ pc \in {"written", "unlock", "removeImage", "cleanup", "exit"}

LEMMA NextPlaces ==
    /\ PlaceInv /\ Setup => pc' \in {"lock", "readDisk", "pipe", "simulationMode", "exit"}
    /\ PlaceInv /\ Lock => pc' \in {"shared", "exit", "removeImage", "cleanup"}
    /\ PlaceInv /\ pc \in Session => Records
<1>1. PlaceInv => job.command \in {"write", "copy", "fly", "blank", "unlock"}
  BY JobTypes DEF PlaceInv
<1> QED
  BY <1>1 DEF PlaceInv, Setup, Prepared, Lock, AfterNoLock, Session, Preparing, Opened, Recording, Held, Records

LEMMA HealthyInit == Init => CalmInv /\ InformedInv /\ AimedInv /\ ReadToEndInv /\ ReasonInv
<1> SUFFICES ASSUME Init PROVE CalmInv /\ InformedInv /\ AimedInv /\ ReadToEndInv /\ ReasonInv
  OBVIOUS
<1>1. pc \in {"setup", "abortDao"}
  BY JobTypes DEF Init, FirstStep
<1>2. ~deferred /\ tray = "in" /\ child = "none" /\ err = 0
  BY DEF Init, DriveInit
<1> QED
  BY <1>1, <1>2 DEF CalmInv, InformedInv, AimedInv, ReadToEndInv, ReasonInv, Preparing, Opened

LEMMA CalmStep == PlaceInv /\ CalmInv /\ [Next]_vars => CalmInv'
<1> USE DEF CalmInv, MayFail, Recording, Held, Session, Opened, Preparing, Goto, Failed, Responsive
<1> SUFFICES ASSUME PlaceInv, CalmInv, [Next]_vars PROVE CalmInv'
  OBVIOUS
<1>job. job.command \in {"write", "copy", "fly", "blank", "unlock"} /\ job.simulate \in BOOLEAN
  BY JobTypes DEF PlaceInv, SessionInv
<1>info. ReadDiskInfo /\ diskInfo'.knowsEmpty => Responsive
  BY InfoNeedsMedium
<1>1. CASE Setup
  <2>1. pc' # "killed"
    BY <1>1, NextPlaces
  <2>2. UNCHANGED <<healthy, tray>> /\ deferred' = FALSE /\ pc = "setup"
    BY <1>1 DEF Setup, ReadDiskInfo
  <2> QED
    BY <2>1, <2>2
<1>2. CASE ReadDisk \/ CheckToc
  BY <1>job, <1>info, <1>2 DEF ReadDisk, CheckToc, AfterChecks, driveVars, driverVars
<1>3. CASE SwapMedium \/ Swapped \/ AskMedium \/ AnotherMedium
  BY <1>job, <1>info, <1>3 DEF SwapMedium, Swapped, AskMedium, AnotherMedium, ReadDiskInfo, Eject, Insert,
     driveVars, driverVars, copyVars
<1>4. CASE CreatePipe \/ ForkReader \/ CloseWriteEnd \/ DupStdin
  BY <1>job, <1>info, <1>4 DEF CreatePipe, ForkReader, CloseWriteEnd, DupStdin, OwnEnds, driveVars, driverVars
<1>5. CASE Lock
  BY <1>job, <1>info, <1>5 DEF Lock, Prevent, Blocked, AfterNoLock, driveVars, driverVars, copyVars
<1>6. CASE GetSharedMemory \/ AskStart \/ StartReader
  BY <1>job, <1>info, <1>6 DEF GetSharedMemory, AskStart, ReadDiskInfo, StartReader, driveVars, driverVars, copyVars
<1>7. CASE Deliver \/ DataMissing \/ DeliverFails \/ TakeBuffer \/ ReleaseBuffer
  BY <1>job, <1>info, <1>7 DEF Deliver, DataMissing, DeliverFails, ReaderReports, TakeBuffer, ReleaseBuffer,
     progVars, driveVars, driverVars, copyVars
<1>8. CASE Written \/ Unlock \/ EjectMedium
  BY <1>job, <1>info, <1>8 DEF Written, AfterWrite, Unlock, Prevent, AfterUnlock, EjectMedium, Eject, driveVars,
     driverVars, copyVars
<1>9. CASE RemoveImage \/ Cleanup
  BY <1>job, <1>info, <1>9 DEF RemoveImage, Cleanup, KillReader, driveVars, driverVars
<1>10. CASE InitDao /\ UNCHANGED copyVars
  BY <1>job, <1>info, <1>10 DEF InitDao, ReadDiskInfo, Usable, Responsive, driveVars, driverVars, copyVars
<1>11. CASE (SetSpeed \/ SetWriteParameters \/ Calibrate) /\ UNCHANGED copyVars
  BY <1>job, <1>info, <1>11 DEF SetSpeed, SetWriteParameters, TestWrite, Calibrate, Command, driveVars, driverVars,
     copyVars
<1>12. CASE SendCueSheet /\ UNCHANGED copyVars
  BY <1>job, <1>info, <1>12 DEF SendCueSheet, Command, copyVars
<1>13. CASE WriteCommand /\ UNCHANGED copyVars
  BY <1>job, <1>info, <1>13 DEF WriteCommand, Writing, Accept, copyVars
<1>14. CASE (LongWriteInProgress \/ AllWritten) /\ UNCHANGED copyVars
  BY <1>job, <1>info, <1>14 DEF LongWriteInProgress, AllWritten, Writing, Behind, driveVars, driverVars, copyVars
<1>15. CASE (FlushCache \/ AbortDao) /\ UNCHANGED copyVars
  BY <1>job, <1>info, <1>15 DEF FlushCache, AbortDao, Synchronize, driverVars, copyVars
<1>16. CASE (CheckDriveReady \/ SetSimulationMode \/ BlankDisk) /\ UNCHANGED copyVars
  BY <1>job, <1>info, <1>16 DEF CheckDriveReady, SetSimulationMode, BlankDisk, Command, driverVars, copyVars
<1>17. CASE Burns \/ (~Ended /\ (BurningFails \/ OpenTray) /\ UNCHANGED <<progVars, driverVars, copyVars>>) \/ Person
  BY <1>job, <1>info, <1>17 DEF Burns, BurnOne, BurningFails, OpenTray, Person, CloseTray, Insert, Ended, progVars,
     driverVars, copyVars
<1>18. CASE ChildReads \/ ChildEnds
  BY <1>job, <1>info, <1>18 DEF ChildReads, ChildEnds, progVars, driveVars, driverVars
<1>19. CASE Interrupt
  BY <1>job, <1>info, <1>19 DEF Interrupt, Ended, Shielded, driveVars, driverVars
<1>20. CASE Done \/ UNCHANGED vars
  BY <1>job, <1>info, <1>20 DEF Done, vars, progVars, driveVars, driverVars, copyVars
<1> QED
  BY <1>1, <1>2, <1>3, <1>4, <1>5, <1>6, <1>7, <1>8, <1>9, <1>10, <1>11, <1>12, <1>13, <1>14, <1>15, <1>16, <1>17,
     <1>18, <1>19, <1>20
  DEF Next, CommandNext, DriverNext, Reader

LEMMA InformedStep == PlaceInv /\ SheetInv /\ RecordInv /\ CalmInv /\ InformedInv /\ [Next]_vars => InformedInv'
<1> USE DEF InformedInv, MayFail, Recording, Held, Session, Opened, Preparing, Goto, Failed
<1> SUFFICES ASSUME PlaceInv, SheetInv, RecordInv, CalmInv, InformedInv, [Next]_vars PROVE InformedInv'
  OBVIOUS
<1>job. job.command \in {"write", "copy", "fly", "blank", "unlock"} /\ job.simulate \in BOOLEAN
  BY JobTypes DEF PlaceInv, SessionInv
<1>kept. Records /\ pc \in Session => medium' = medium
  BY MediumKept
<1>1. CASE Setup
  BY <1>1, NextPlaces
<1>2. CASE ReadDisk \/ CheckToc
  BY <1>job, <1>kept, <1>2 DEF ReadDisk, CheckToc, AfterChecks, driveVars, driverVars
<1>3. CASE SwapMedium \/ Swapped \/ AskMedium \/ AnotherMedium
  BY <1>job, <1>kept, <1>3 DEF SwapMedium, Swapped, AskMedium, AnotherMedium, ReadDiskInfo, Eject, Insert,
     driveVars, driverVars, copyVars
<1>4. CASE CreatePipe \/ ForkReader \/ CloseWriteEnd \/ DupStdin
  BY <1>job, <1>kept, <1>4 DEF CreatePipe, ForkReader, CloseWriteEnd, DupStdin, OwnEnds, driveVars, driverVars
<1>5. CASE Lock
  BY <1>5, NextPlaces
<1>6. CASE GetSharedMemory \/ AskStart \/ StartReader
  <2>1. medium' = medium /\ (pc \in Preparing => diskInfo' = diskInfo \/ AskStart)
    BY <1>6 DEF GetSharedMemory, AskStart, ReadDiskInfo, StartReader, driveVars, driverVars
  <2>2. healthy /\ AskStart => diskInfo' = Told(medium)
    BY <1>job DEF AskStart, ReadDiskInfo, Refresh, Answers, Responsive, CalmInv
  <2> QED
    BY <1>job, <2>1, <2>2, <1>6 DEF GetSharedMemory, AskStart, ReadDiskInfo, StartReader, driveVars
<1>7. CASE Deliver \/ DataMissing \/ DeliverFails \/ TakeBuffer \/ ReleaseBuffer
  BY <1>job, <1>kept, <1>7 DEF Deliver, DataMissing, DeliverFails, ReaderReports, TakeBuffer, ReleaseBuffer,
     progVars, driveVars, driverVars, copyVars
<1>8. CASE Written \/ Unlock \/ EjectMedium
  BY <1>job, <1>kept, <1>8 DEF Written, AfterWrite, Unlock, Prevent, AfterUnlock, EjectMedium, Eject, driveVars,
     driverVars, copyVars
<1>9. CASE RemoveImage \/ Cleanup
  BY <1>job, <1>kept, <1>9 DEF RemoveImage, Cleanup, KillReader, driveVars, driverVars
<1>10. CASE InitDao /\ UNCHANGED copyVars
  <2>1. CASE ReadDiskInfo
    <3>1. medium' = medium /\ healthy' = healthy /\ pc = "initDao"
      BY <2>1, <1>10 DEF ReadDiskInfo, InitDao
    <3>2. healthy => diskInfo' = Told(medium)
      BY <2>1, <3>1 DEF ReadDiskInfo, Refresh, Answers, Responsive, CalmInv
    <3>3. Told(medium)' = Told(medium)
      BY <3>1 DEF Told
    <3> QED
      BY <3>1, <3>2, <3>3
  <2>2. CASE ~ReadDiskInfo
    BY <2>2, <1>10 DEF InitDao
  <2> QED
    BY <2>1, <2>2
<1>11. CASE (SetSpeed \/ SetWriteParameters \/ Calibrate) /\ UNCHANGED copyVars
  BY <1>job, <1>kept, <1>11 DEF SetSpeed, SetWriteParameters, TestWrite, Calibrate, Command, driveVars, driverVars,
     copyVars
<1>12. CASE SendCueSheet /\ UNCHANGED copyVars
  BY <1>job, <1>kept, <1>12 DEF SendCueSheet, Command, copyVars
<1>13. CASE WriteCommand /\ UNCHANGED copyVars
  BY <1>job, <1>kept, <1>13 DEF WriteCommand, Writing, Accept, copyVars
<1>14. CASE (LongWriteInProgress \/ AllWritten) /\ UNCHANGED copyVars
  BY <1>job, <1>kept, <1>14 DEF LongWriteInProgress, AllWritten, Writing, Behind, driveVars, driverVars, copyVars
<1>15. CASE (FlushCache \/ AbortDao) /\ UNCHANGED copyVars
  BY <1>job, <1>kept, <1>15 DEF FlushCache, AbortDao, Synchronize, driverVars, copyVars
<1>16. CASE (CheckDriveReady \/ SetSimulationMode \/ BlankDisk) /\ UNCHANGED copyVars
  BY <1>job, <1>kept, <1>16 DEF CheckDriveReady, SetSimulationMode, BlankDisk, Command, driverVars, copyVars
<1>17. CASE Burns \/ (~Ended /\ (BurningFails \/ OpenTray) /\ UNCHANGED <<progVars, driverVars, copyVars>>) \/ Person
  <2>1. UNCHANGED <<pc, diskInfo, healthy>>
    BY <1>17 DEF Burns, BurnOne, BurningFails, OpenTray, Person, CloseTray, Insert, progVars, driverVars
  <2>2. medium' = medium => Told(medium)' = Told(medium)
    BY DEF Told
  <2> QED
    BY <1>kept, <2>1, <2>2, NextPlaces
<1>18. CASE ChildReads \/ ChildEnds
  BY <1>job, <1>kept, <1>18 DEF ChildReads, ChildEnds, progVars, driveVars, driverVars
<1>19. CASE Interrupt
  BY <1>job, <1>kept, <1>19 DEF Interrupt, Ended, Shielded, driveVars, driverVars
<1>20. CASE Done \/ UNCHANGED vars
  BY <1>job, <1>kept, <1>20 DEF Done, vars, progVars, driveVars, driverVars, copyVars
<1> QED
  BY <1>1, <1>2, <1>3, <1>4, <1>5, <1>6, <1>7, <1>8, <1>9, <1>10, <1>11, <1>12, <1>13, <1>14, <1>15, <1>16, <1>17,
     <1>18, <1>19, <1>20
  DEF Next, CommandNext, DriverNext, Reader

LEMMA AimedStep ==
    PlaceInv /\ SheetInv /\ BlockTypes /\ AddressTypes /\ InformedInv /\ AimedInv /\ [Next]_vars
    => AimedInv'
<1> USE DEF AimedInv, MayFail, Recording, Held, Session, Opened, Preparing, Goto, Failed
<1> SUFFICES ASSUME PlaceInv, SheetInv, BlockTypes, AddressTypes, InformedInv, AimedInv, [Next]_vars PROVE AimedInv'
  OBVIOUS
<1>job. job.command \in {"write", "copy", "fly", "blank", "unlock"} /\ job.simulate \in BOOLEAN
  BY JobTypes DEF PlaceInv, SessionInv
<1>1. CASE Setup
  BY <1>1, NextPlaces
<1>2. CASE ReadDisk \/ CheckToc
  BY <1>job, <1>2 DEF ReadDisk, CheckToc, AfterChecks, driveVars, driverVars
<1>3. CASE SwapMedium \/ Swapped \/ AskMedium \/ AnotherMedium
  BY <1>job, <1>3 DEF SwapMedium, Swapped, AskMedium, AnotherMedium, ReadDiskInfo, Eject, Insert, driveVars,
     driverVars, copyVars
<1>4. CASE CreatePipe \/ ForkReader \/ CloseWriteEnd \/ DupStdin
  BY <1>job, <1>4 DEF CreatePipe, ForkReader, CloseWriteEnd, DupStdin, OwnEnds, driveVars, driverVars
<1>5. CASE Lock
  BY <1>5, NextPlaces
<1>6. CASE GetSharedMemory \/ AskStart \/ StartReader
  BY <1>job, <1>6 DEF GetSharedMemory, AskStart, ReadDiskInfo, StartReader, driveVars, driverVars, copyVars
<1>7. CASE Deliver \/ DataMissing \/ DeliverFails \/ TakeBuffer \/ ReleaseBuffer
  BY <1>job, <1>7 DEF Deliver, DataMissing, DeliverFails, ReaderReports, TakeBuffer, ReleaseBuffer, progVars,
     driveVars, driverVars, copyVars
<1>8. CASE Written \/ Unlock \/ EjectMedium
  BY <1>job, <1>8 DEF Written, AfterWrite, Unlock, Prevent, AfterUnlock, EjectMedium, Eject, driveVars, driverVars,
     copyVars
<1>9. CASE RemoveImage \/ Cleanup
  BY <1>job, <1>9 DEF RemoveImage, Cleanup, KillReader, driveVars, driverVars
<1>10. CASE InitDao /\ UNCHANGED copyVars
  BY <1>job, <1>10 DEF InitDao, ReadDiskInfo, Usable, Responsive, driveVars, driverVars, copyVars
<1>11. CASE (SetSpeed \/ SetWriteParameters \/ Calibrate) /\ UNCHANGED copyVars
  BY <1>job, <1>11 DEF SetSpeed, SetWriteParameters, TestWrite, Calibrate, Command, driveVars, driverVars, copyVars
<1>12. CASE SendCueSheet /\ UNCHANGED copyVars
  <2>1. CASE pc' = "abortDao"
    BY <2>1
  <2>2. CASE pc' # "abortDao"
    <3>1. healthy => diskInfo.start = medium.start
      BY <1>12 DEF SendCueSheet, InformedInv, Told
    <3>2. /\ next' = IF job.cdText THEN AnyAddress ELSE medium.start - Pregap
          /\ pc' = IF job.cdText THEN "leadIn" ELSE "pregap"
      BY <1>12, <2>2 DEF SendCueSheet, Command
    <3>3. healthy' = healthy /\ (~job.cdText => lba' = diskInfo.start - Pregap)
      BY <1>12, <2>2 DEF SendCueSheet, Command
    <3> QED
      BY <3>1, <3>2, <3>3
  <2> QED
    BY <2>1, <2>2
<1>13. CASE WriteCommand /\ UNCHANGED copyVars
  <2>1. CASE pc' = "abortDao"
    BY <2>1
  <2>2. CASE pc' # "abortDao"
    <3>1. UNCHANGED <<pc, healthy>> /\ next' = lba'
      BY <1>13, <2>2, Sending
    <3> QED
      BY <3>1
  <2> QED
    BY <2>1, <2>2
<1>14. CASE (LongWriteInProgress \/ AllWritten) /\ UNCHANGED copyVars
  <2>1. CASE LongWriteInProgress
    BY <2>1 DEF LongWriteInProgress, RetryFrom, driveVars
  <2>2. CASE AllWritten /\ pc = "leadIn"
    <3>1. healthy => diskInfo.start = medium.start
      BY <2>2 DEF InformedInv, Told
    <3>2. pc' = "pregap" /\ healthy' = healthy /\ lba' = diskInfo.start - Pregap /\ next' = medium.start - Pregap
      BY <2>2 DEF AllWritten, Behind
    <3> QED
      BY <3>1, <3>2
  <2>3. CASE AllWritten /\ pc # "leadIn"
    BY <2>3 DEF AllWritten, Writing, Behind, driveVars
  <2> QED
    BY <1>14, <2>1, <2>2, <2>3
<1>15. CASE (FlushCache \/ AbortDao) /\ UNCHANGED copyVars
  BY <1>job, <1>15 DEF FlushCache, AbortDao, Synchronize, driverVars, copyVars
<1>16. CASE (CheckDriveReady \/ SetSimulationMode \/ BlankDisk) /\ UNCHANGED copyVars
  BY <1>job, <1>16 DEF CheckDriveReady, SetSimulationMode, BlankDisk, Command, driverVars, copyVars
<1>17. CASE Burns \/ (~Ended /\ (BurningFails \/ OpenTray) /\ UNCHANGED <<progVars, driverVars, copyVars>>) \/ Person
  <2>1. UNCHANGED <<pc, lba, healthy>>
    BY <1>17 DEF Burns, BurnOne, BurningFails, OpenTray, Person, CloseTray, Insert, progVars, driverVars
  <2>2. Records /\ pc \in Session => next' = next
    BY <1>17 DEF Burns, BurnOne, BurningFails, OpenTray, Person, CloseTray, SheetInv
  <2> QED
    BY <2>1, <2>2, NextPlaces
<1>18. CASE ChildReads \/ ChildEnds
  BY <1>job, <1>18 DEF ChildReads, ChildEnds, progVars, driveVars, driverVars
<1>19. CASE Interrupt
  BY <1>job, <1>19 DEF Interrupt, Ended, Shielded, driveVars, driverVars
<1>20. CASE Done \/ UNCHANGED vars
  BY <1>job, <1>20 DEF Done, vars, progVars, driveVars, driverVars, copyVars
<1> QED
  BY <1>1, <1>2, <1>3, <1>4, <1>5, <1>6, <1>7, <1>8, <1>9, <1>10, <1>11, <1>12, <1>13, <1>14, <1>15, <1>16, <1>17,
     <1>18, <1>19, <1>20
  DEF Next, CommandNext, DriverNext, Reader

LEMMA ReadToEndStep == PlaceInv /\ ReadToEndInv /\ [Next]_vars => ReadToEndInv'
<1> USE DEF ReadToEndInv, MayFail, Recording, Held, Session, Opened, Preparing, Goto, Failed
<1> SUFFICES ASSUME PlaceInv, ReadToEndInv, [Next]_vars PROVE ReadToEndInv'
  OBVIOUS
<1>job. job.command \in {"write", "copy", "fly", "blank", "unlock"} /\ job.simulate \in BOOLEAN
  BY JobTypes DEF PlaceInv, SessionInv
<1>1. CASE Setup
  BY <1>job, <1>1 DEF Setup, ReadDiskInfo, Refresh, Prepared, copyVars
<1>2. CASE ReadDisk \/ CheckToc
  BY <1>job, <1>2 DEF ReadDisk, CheckToc, AfterChecks, driveVars, driverVars
<1>3. CASE SwapMedium \/ Swapped \/ AskMedium \/ AnotherMedium
  BY <1>job, <1>3 DEF SwapMedium, Swapped, AskMedium, AnotherMedium, ReadDiskInfo, Eject, Insert, driveVars,
     driverVars, copyVars
<1>4. CASE CreatePipe \/ ForkReader \/ CloseWriteEnd \/ DupStdin
  BY <1>job, <1>4 DEF CreatePipe, ForkReader, CloseWriteEnd, DupStdin, OwnEnds, driveVars, driverVars
<1>5. CASE Lock
  BY <1>job, <1>5 DEF Lock, Prevent, Blocked, AfterNoLock, driveVars, driverVars, copyVars
<1>6. CASE GetSharedMemory \/ AskStart \/ StartReader
  BY <1>job, <1>6 DEF GetSharedMemory, AskStart, ReadDiskInfo, StartReader, driveVars, driverVars, copyVars
<1>7. CASE Deliver \/ DataMissing \/ DeliverFails \/ TakeBuffer \/ ReleaseBuffer
  BY <1>job, <1>7 DEF Deliver, DataMissing, DeliverFails, ReaderReports, TakeBuffer, ReleaseBuffer, progVars,
     driveVars, driverVars, copyVars
<1>8. CASE Written \/ Unlock \/ EjectMedium
  BY <1>job, <1>8 DEF Written, AfterWrite, Unlock, Prevent, AfterUnlock, EjectMedium, Eject, driveVars, driverVars,
     copyVars
<1>9. CASE RemoveImage \/ Cleanup
  BY <1>job, <1>9 DEF RemoveImage, Cleanup, KillReader, driveVars, driverVars
<1>10. CASE InitDao /\ UNCHANGED copyVars
  BY <1>job, <1>10 DEF InitDao, ReadDiskInfo, Usable, Responsive, driveVars, driverVars, copyVars
<1>11. CASE (SetSpeed \/ SetWriteParameters \/ Calibrate) /\ UNCHANGED copyVars
  BY <1>job, <1>11 DEF SetSpeed, SetWriteParameters, TestWrite, Calibrate, Command, driveVars, driverVars, copyVars
<1>12. CASE SendCueSheet /\ UNCHANGED copyVars
  BY <1>job, <1>12 DEF SendCueSheet, Command, copyVars
<1>13. CASE WriteCommand /\ UNCHANGED copyVars
  BY <1>job, <1>13 DEF WriteCommand, Writing, Accept, copyVars
<1>14. CASE (LongWriteInProgress \/ AllWritten) /\ UNCHANGED copyVars
  BY <1>job, <1>14 DEF LongWriteInProgress, AllWritten, Writing, Behind, driveVars, driverVars, copyVars
<1>15. CASE (FlushCache \/ AbortDao) /\ UNCHANGED copyVars
  BY <1>job, <1>15 DEF FlushCache, AbortDao, Synchronize, driverVars, copyVars
<1>16. CASE (CheckDriveReady \/ SetSimulationMode \/ BlankDisk) /\ UNCHANGED copyVars
  BY <1>job, <1>16 DEF CheckDriveReady, SetSimulationMode, BlankDisk, Command, driverVars, copyVars
<1>17. CASE Burns \/ (~Ended /\ (BurningFails \/ OpenTray) /\ UNCHANGED <<progVars, driverVars, copyVars>>) \/ Person
  BY <1>job, <1>17 DEF Burns, BurnOne, BurningFails, OpenTray, Person, CloseTray, Insert, Ended, progVars,
     driverVars, copyVars
<1>18. CASE ChildReads \/ ChildEnds
  BY <1>18 DEF ChildReads, ChildEnds, driveVars
<1>19. CASE Interrupt
  BY <1>job, <1>19 DEF Interrupt, Ended, Shielded, driveVars, driverVars
<1>20. CASE Done \/ UNCHANGED vars
  BY <1>job, <1>20 DEF Done, vars, progVars, driveVars, driverVars, copyVars
<1> QED
  BY <1>1, <1>2, <1>3, <1>4, <1>5, <1>6, <1>7, <1>8, <1>9, <1>10, <1>11, <1>12, <1>13, <1>14, <1>15, <1>16, <1>17,
     <1>18, <1>19, <1>20
  DEF Next, CommandNext, DriverNext, Reader

LEMMA ReasonStep ==
    SessionInv /\ CalmInv /\ InformedInv /\ AimedInv /\ ReadToEndInv /\ ReasonInv /\ [Next]_vars
    => ReasonInv'
<1> USE DEF ReasonInv, MayFail, Recording, Held, Session, Opened, Preparing, Goto, Failed, CalmInv, Responsive
<1> SUFFICES ASSUME SessionInv, CalmInv, InformedInv, AimedInv, ReadToEndInv, ReasonInv, [Next]_vars PROVE ReasonInv'
  OBVIOUS
<1>job. job.command \in {"write", "copy", "fly", "blank", "unlock"} /\ job.simulate \in BOOLEAN
  BY JobTypes DEF PlaceInv, SessionInv
<1>inv. PlaceInv /\ SheetInv /\ RecordInv /\ PipeInv /\ err \in {0, 1}
  BY DEF SessionInv, TypeInv, StateTypes
<1>kept. UNCHANGED <<medium, job>> => Reason' = Reason /\ Records' = Records
  BY DEF Reason, Usable, Told, Records
<1>1. CASE Setup
  <2>1. err # 1 \/ ~healthy
    BY <1>1 DEF Setup
  <2>2. UNCHANGED <<job, healthy, medium, tray>>
    BY <1>1 DEF Setup, ReadDiskInfo
  <2>3. ASSUME healthy, err' = 1, err # 1
        PROVE  Reason /\ tray = "in" /\ Records /\ pc' = "exit"
    <3>1. pc = "setup" /\ tray = "in" /\ Responsive
      BY <1>1, <2>3 DEF Setup
    <3>2. pc' = "exit" /\ ~AcceptsMedium(diskInfo') /\ diskInfo' = Told(medium)
      BY <1>1, <2>3, <3>1 DEF Setup, ReadDiskInfo, Refresh, Answers
    <3>3. job.command # "unlock"
      BY <1>inv, <3>1 DEF PlaceInv
    <3>4. ~AcceptsMedium(Told(medium))
      BY <3>2
    <3>5. job.command # "blank"
      BY <3>4 DEF AcceptsMedium
    <3>6. CASE job.command = "copy" /\ job.oneDrive
      BY <3>1, <3>2, <3>4, <3>6 DEF AcceptsMedium, Told, Reason, Records
    <3>7. CASE job.command \in {"write", "fly"} \/ (job.command = "copy" /\ ~job.oneDrive)
      <4>1. ~Appendable(Told(medium))
        BY <3>4, <3>7 DEF AcceptsMedium
      <4>2. ~Usable(Told(medium))
        BY <4>1 DEF Appendable, Usable, Told
      <4> QED
        BY <3>1, <3>2, <3>7, <4>2 DEF Reason, Records
    <3> QED
      BY <1>job, <3>3, <3>5, <3>6, <3>7
  <2> QED
    BY <1>kept, <2>1, <2>2, <2>3 DEF Records
<1>2. CASE ReadDisk \/ CheckToc
  BY <1>job, <1>inv, <1>kept, <1>2 DEF ReadDisk, CheckToc, AfterChecks, driveVars, driverVars
<1>3. CASE SwapMedium \/ Swapped \/ AskMedium \/ AnotherMedium
  BY <1>job, <1>inv, <1>kept, <1>3 DEF SwapMedium, Swapped, AskMedium, AnotherMedium, ReadDiskInfo, Eject, Insert,
     driveVars, driverVars, copyVars
<1>4. CASE CreatePipe \/ ForkReader \/ CloseWriteEnd \/ DupStdin
  BY <1>job, <1>inv, <1>kept, <1>4 DEF CreatePipe, ForkReader, CloseWriteEnd, DupStdin, OwnEnds, driveVars, driverVars
<1>5. CASE Lock
  BY <1>job, <1>inv, <1>kept, <1>5 DEF Lock, Prevent, Blocked, AfterNoLock, driveVars, driverVars, copyVars
<1>6. CASE GetSharedMemory \/ AskStart \/ StartReader
  BY <1>job, <1>inv, <1>kept, <1>6 DEF GetSharedMemory, AskStart, ReadDiskInfo, StartReader, driveVars, driverVars,
     copyVars
<1>7. CASE Deliver \/ DataMissing \/ DeliverFails \/ TakeBuffer \/ ReleaseBuffer
  <2>1. UNCHANGED <<job, healthy, medium, tray>> /\ pc \in {"fifo", "released"}
    BY <1>7 DEF Deliver, DataMissing, DeliverFails, ReaderReports, TakeBuffer, ReleaseBuffer, progVars, driveVars
  <2>2. healthy => ~DataMissing
    <3> SUFFICES ASSUME healthy, DataMissing PROVE FALSE
      OBVIOUS
    <3>1. job.command = "fly" /\ pc = "fifo" /\ pipe = <<>> /\ writers = {} /\ input < Length
      BY DEF DataMissing, EndOfData, ReaderReports, InputLeft
    <3>2. child = "sleeping" /\ input + Len(pipe) >= produced
      BY <1>inv, <3>1 DEF PipeInv
    <3>3. produced = Length /\ input + 0 >= produced
      BY <3>1, <3>2 DEF ReadToEndInv
    <3>4. input \in Nat /\ Length \in Nat
      BY Sizes DEF SessionInv, TypeInv, CountTypes
    <3> QED
      BY <3>1, <3>3, <3>4
  <2>3. healthy => err' = err
    BY <1>7, <2>2 DEF Deliver, DeliverFails, TakeBuffer, ReleaseBuffer, progVars
  <2> QED
    BY <2>1, <2>3
<1>8. CASE Written \/ Unlock \/ EjectMedium
  <2>1. CASE Written
    BY <1>kept, <2>1 DEF Written, AfterWrite, driveVars
  <2>2. CASE Unlock
    <3>1. pc = "unlock" /\ UNCHANGED <<job, healthy, medium, tray>> /\ pc' = AfterUnlock
      BY <2>2 DEF Unlock, Prevent, driveVars
    <3>2. healthy => err' = err
      BY <2>2, <3>1 DEF Unlock
    <3>3. err' = 1 => pc' \in {"removeImage", "cleanup", "exit"}
      BY <3>1 DEF AfterUnlock
    <3> QED
      BY <1>kept, <3>1, <3>2, <3>3
  <2>3. CASE EjectMedium
    BY <1>kept, <2>3 DEF EjectMedium, Eject, driveVars
  <2> QED
    BY <1>8, <2>1, <2>2, <2>3
<1>9. CASE RemoveImage \/ Cleanup
  BY <1>job, <1>inv, <1>kept, <1>9 DEF RemoveImage, Cleanup, KillReader, driveVars, driverVars
<1>10. CASE InitDao /\ UNCHANGED copyVars
  <2>1. UNCHANGED <<job, healthy, medium, tray>> /\ pc = "initDao"
    BY <1>10 DEF InitDao, ReadDiskInfo, driveVars
  <2>2. ASSUME healthy, err' = 1
        PROVE  Reason /\ tray = "in" /\ Records /\ pc' = "written"
    <3>1. tray = "in" /\ Responsive /\ err # 1
      BY <2>1, <2>2
    <3>2. diskInfo' = Told(medium) /\ ~Usable(diskInfo') /\ pc' = "written"
      BY <1>10, <2>2, <3>1 DEF InitDao, ReadDiskInfo, Refresh, Answers
    <3>3. Records
      BY <1>job, <1>inv, <2>1 DEF PlaceInv, Records
    <3> QED
      BY <3>1, <3>2, <3>3 DEF Reason
  <2> QED
    BY <1>kept, <2>1, <2>2 DEF Records
<1>11. CASE (SetSpeed \/ SetWriteParameters \/ Calibrate) /\ UNCHANGED copyVars
  BY <1>job, <1>inv, <1>kept, <1>11 DEF SetSpeed, SetWriteParameters, TestWrite, Calibrate, Command, driveVars,
     driverVars, copyVars
<1>12. CASE SendCueSheet /\ UNCHANGED copyVars
  BY <1>job, <1>inv, <1>kept, <1>12 DEF SendCueSheet, Command, copyVars
<1>13. CASE WriteCommand /\ UNCHANGED copyVars
  <2>1. UNCHANGED <<job, healthy, medium, tray>> /\ pc \in {"leadIn", "pregap", "write"}
    BY <1>13 DEF WriteCommand, Writing, Accept
  <2>2. healthy => RightAddress(lba)
    BY <2>1 DEF AimedInv, RightAddress
  <2>3. healthy => err' = err
    BY <1>13, <2>1, <2>2 DEF WriteCommand
  <2> QED
    BY <2>1, <2>3
<1>14. CASE (LongWriteInProgress \/ AllWritten) /\ UNCHANGED copyVars
  BY <1>job, <1>inv, <1>kept, <1>14 DEF LongWriteInProgress, AllWritten, Writing, Behind, driveVars, driverVars,
     copyVars
<1>15. CASE (FlushCache \/ AbortDao) /\ UNCHANGED copyVars
  BY <1>job, <1>inv, <1>kept, <1>15 DEF FlushCache, AbortDao, Synchronize, driverVars, copyVars
<1>16. CASE (CheckDriveReady \/ SetSimulationMode \/ BlankDisk) /\ UNCHANGED copyVars
  BY <1>job, <1>inv, <1>kept, <1>16 DEF CheckDriveReady, SetSimulationMode, BlankDisk, Command, driverVars, copyVars
<1>17. CASE Burns \/ (~Ended /\ (BurningFails \/ OpenTray) /\ UNCHANGED <<progVars, driverVars, copyVars>>) \/ Person
  <2>1. UNCHANGED <<job, pc, err, healthy>>
    BY <1>17 DEF Burns, BurnOne, BurningFails, OpenTray, Person, CloseTray, Insert, progVars
  <2>2. tray = "in" /\ healthy => tray' = tray /\ (medium' = medium \/ BurnOne)
    BY <1>17 DEF Burns, BurnOne, OpenTray, BurningFails, Person, CloseTray
  <2>3. BurnOne /\ Records => medium' = medium
    <3> SUFFICES ASSUME BurnOne, Records PROVE medium' = medium
      OBVIOUS
    <3>1. Head(cache) # Erase
      BY <1>inv, RecordBlocks, HeadTailProperties DEF BurnOne, RecordInv
    <3> QED
      BY <3>1 DEF BurnOne
  <2> QED
    BY <1>kept, <2>1, <2>2, <2>3 DEF Records
<1>18. CASE ChildReads \/ ChildEnds
  BY <1>job, <1>inv, <1>kept, <1>18 DEF ChildReads, ChildEnds, progVars, driveVars, driverVars
<1>19. CASE Interrupt
  BY <1>job, <1>inv, <1>kept, <1>19 DEF Interrupt, Ended, Shielded, driveVars, driverVars
<1>20. CASE Done \/ UNCHANGED vars
  BY <1>job, <1>inv, <1>kept, <1>20 DEF Done, vars, progVars, driveVars, driverVars, copyVars
<1> QED
  BY <1>1, <1>2, <1>3, <1>4, <1>5, <1>6, <1>7, <1>8, <1>9, <1>10, <1>11, <1>12, <1>13, <1>14, <1>15, <1>16, <1>17,
     <1>18, <1>19, <1>20
  DEF Next, CommandNext, DriverNext, Reader

LEMMA HealthyInvariant == Spec => [](SessionInv /\ CalmInv /\ InformedInv /\ AimedInv /\ ReadToEndInv /\ ReasonInv)
<1>1. Init => CalmInv /\ InformedInv /\ AimedInv /\ ReadToEndInv /\ ReasonInv
  BY HealthyInit
<1>2. /\ SessionInv /\ CalmInv /\ InformedInv /\ AimedInv /\ ReadToEndInv /\ ReasonInv
      /\ [Next]_vars
      => (CalmInv /\ InformedInv /\ AimedInv /\ ReadToEndInv /\ ReasonInv)'
  <2> SUFFICES ASSUME SessionInv, CalmInv, InformedInv, AimedInv, ReadToEndInv, ReasonInv, [Next]_vars
               PROVE  (CalmInv /\ InformedInv /\ AimedInv /\ ReadToEndInv /\ ReasonInv)'
    OBVIOUS
  <2>1. PlaceInv /\ SheetInv /\ RecordInv /\ BlockTypes /\ AddressTypes
    BY DEF SessionInv, TypeInv
  <2> QED
    BY <2>1, CalmStep, InformedStep, AimedStep, ReadToEndStep, ReasonStep
<1> QED
  BY <1>1, <1>2, SessionInvariant, PTL DEF Spec

\* A full buffer, an empty pipe or a long burn is no error: when nothing goes wrong at
\* the drive and in the reader, a command fails only for a medium that is not fit for
\* it (main(), copyCd(), writeDiskAtOnce() and the driver).
THEOREM FailsForTheMedium == Spec => []FailureHasReason
<1>1. ReasonInv => FailureHasReason
  BY DEF ReasonInv, Reason, FailureHasReason
<1> QED
  BY <1>1, HealthyInvariant, PTL
-----------------------------------------------------------------------------
(* What a command that succeeds has recorded.                              *)

Over == {"finishDao", "checkReady", "flushAgain", "written", "unlock", "eject", "removeImage", "cleanup", "exit"}
Closed == Over \ {"finishDao"}
CompleteInv ==
    /\ Records /\ pc = "abortDao" => err = 1
    /\ Records /\ err = 0 /\ pc \in Over => Len(sent) = SessionBlocks

Recorded == Records /\ err = 0 /\ pc \in {"calibrate", "cueSheet"} \cup Opened \cup Closed
RealInv == Recorded /\ ~job.simulate => ~testWrite
EmptyInv == healthy /\ Recorded /\ pc \in Closed \ {"checkReady"} => cache = <<>>

\* Every block that was sent is on the medium or in the buffer, in order, and the
\* lead-out behind them once the session is closed.
Sent(i) == IF i <= Len(sent) THEN sent[i][2] ELSE LeadOut
Landed ==
    /\ Len(burned) + Len(cache) = Len(sent) + (IF pc \in Closed THEN 1 ELSE 0)
    /\ \A i \in 1 .. Len(burned) : burned[i] = Sent(i)
    /\ \A i \in 1 .. Len(cache) : cache[i] = Sent(Len(burned) + i)
LandedInv == healthy /\ Recorded /\ ~job.simulate => Landed

LEMMA RecordedInit == Init => CompleteInv /\ RealInv /\ EmptyInv /\ LandedInv
<1> SUFFICES ASSUME Init PROVE CompleteInv /\ RealInv /\ EmptyInv /\ LandedInv
  OBVIOUS
<1>1. pc = "setup" \/ (pc = "abortDao" /\ ~Records)
  BY JobTypes DEF Init, FirstStep, Records
<1>2. CompleteInv /\ ~Recorded
  BY <1>1 DEF CompleteInv, Recorded, Over, Closed, Opened
<1> QED
  BY <1>2 DEF RealInv, EmptyInv, LandedInv

LEMMA CompleteStep == SessionInv /\ CompleteInv /\ [Next]_vars => CompleteInv'
<1> USE DEF CompleteInv, MayFail, Recording, Held, Session, Opened, Preparing, Goto, Failed, Over
<1> SUFFICES ASSUME SessionInv, CompleteInv, [Next]_vars PROVE CompleteInv'
  OBVIOUS
<1>job. job.command \in {"write", "copy", "fly", "blank", "unlock"} /\ job.simulate \in BOOLEAN
  BY JobTypes DEF PlaceInv, SessionInv
<1>inv. PlaceInv /\ AddressInv /\ err \in {0, 1}
  BY DEF SessionInv, TypeInv, StateTypes
<1>num. input \in 0 .. Length /\ Len(sent) \in Nat /\ Len(todo) \in Nat /\ TextBlocks \in Nat /\ Pregap \in Nat
  BY Sizes DEF SessionInv, TypeInv, CountTypes, BlockTypes, TextBlocks
<1>kept. UNCHANGED job => SessionBlocks' = SessionBlocks /\ Records' = Records
  BY DEF SessionBlocks, TextBlocks, Records
<1>1. CASE Setup
  <2>1. pc' \in {"lock", "readDisk", "pipe", "simulationMode", "exit"} /\ (pc' = "exit" => err' = 1)
    BY <1>job, <1>inv, <1>1 DEF Setup, Prepared, PlaceInv
  <2> QED
    BY <2>1
<1>2. CASE ReadDisk \/ CheckToc
  BY <1>job, <1>inv, <1>kept, <1>2 DEF ReadDisk, CheckToc, AfterChecks, driveVars, driverVars
<1>3. CASE SwapMedium \/ Swapped \/ AskMedium \/ AnotherMedium
  BY <1>job, <1>inv, <1>kept, <1>3 DEF SwapMedium, Swapped, AskMedium, AnotherMedium, ReadDiskInfo, Eject, Insert,
     driveVars, driverVars, copyVars
<1>4. CASE CreatePipe \/ ForkReader \/ CloseWriteEnd \/ DupStdin
  BY <1>job, <1>inv, <1>kept, <1>4 DEF CreatePipe, ForkReader, CloseWriteEnd, DupStdin, OwnEnds, driveVars, driverVars
<1>5. CASE Lock
  BY <1>job, <1>inv, <1>kept, <1>5 DEF Lock, Prevent, Blocked, AfterNoLock, driveVars, driverVars, copyVars
<1>6. CASE GetSharedMemory \/ AskStart \/ StartReader
  BY <1>job, <1>inv, <1>kept, <1>6 DEF GetSharedMemory, AskStart, ReadDiskInfo, StartReader, driveVars, driverVars,
     copyVars
<1>7. CASE Deliver \/ DataMissing \/ DeliverFails \/ TakeBuffer \/ ReleaseBuffer
  <2>1. UNCHANGED <<sent, job>>
    BY <1>7 DEF Deliver, DataMissing, DeliverFails, ReaderReports, TakeBuffer, ReleaseBuffer, progVars, driverVars
  <2>2. pc' \in Over => TakeBuffer /\ pc = "fifo" /\ pc' = "finishDao"
    BY <1>7 DEF Deliver, DataMissing, DeliverFails, ReaderReports, TakeBuffer, ReleaseBuffer, progVars
  <2>3. TakeBuffer /\ pc' = "finishDao" => Len(todo) = 0 /\ input = Length
    BY <1>num, Sizes DEF TakeBuffer, InputLeft
  <2>4. pc = "fifo" => Len(sent) + Len(todo) = TextBlocks + Pregap + input
    BY <1>inv DEF AddressInv
  <2>5. pc' \in Over => Len(sent) = SessionBlocks
    BY <1>num, <2>2, <2>3, <2>4 DEF SessionBlocks
  <2>6. pc' = "abortDao" => err' = 1
    BY <1>7 DEF Deliver, DataMissing, DeliverFails, ReaderReports, TakeBuffer, ReleaseBuffer, progVars
  <2> QED
    BY <1>kept, <2>1, <2>5, <2>6
<1>8. CASE Written \/ Unlock \/ EjectMedium
  BY <1>job, <1>inv, <1>kept, <1>8 DEF Written, AfterWrite, Unlock, Prevent, AfterUnlock, EjectMedium, Eject,
     driveVars, driverVars, copyVars
<1>9. CASE RemoveImage \/ Cleanup
  BY <1>job, <1>inv, <1>kept, <1>9 DEF RemoveImage, Cleanup, KillReader, driveVars, driverVars
<1>10. CASE InitDao /\ UNCHANGED copyVars
  BY <1>job, <1>inv, <1>kept, <1>10 DEF InitDao, ReadDiskInfo, Usable, Responsive, driveVars, driverVars, copyVars
<1>11. CASE (SetSpeed \/ SetWriteParameters \/ Calibrate) /\ UNCHANGED copyVars
  BY <1>job, <1>inv, <1>kept, <1>11 DEF SetSpeed, SetWriteParameters, TestWrite, Calibrate, Command, driveVars,
     driverVars, copyVars
<1>12. CASE SendCueSheet /\ UNCHANGED copyVars
  BY <1>job, <1>inv, <1>kept, <1>12 DEF SendCueSheet, Command, copyVars
<1>13. CASE WriteCommand /\ UNCHANGED copyVars
  BY <1>13 DEF WriteCommand, Writing
<1>14. CASE (LongWriteInProgress \/ AllWritten) /\ UNCHANGED copyVars
  BY <1>job, <1>inv, <1>kept, <1>14 DEF LongWriteInProgress, AllWritten, Writing, Behind, driveVars, driverVars,
     copyVars
<1>15. CASE (FlushCache \/ AbortDao) /\ UNCHANGED copyVars
  BY <1>job, <1>inv, <1>kept, <1>15 DEF FlushCache, AbortDao, Synchronize, driverVars, copyVars
<1>16. CASE (CheckDriveReady \/ SetSimulationMode \/ BlankDisk) /\ UNCHANGED copyVars
  <2>1. CASE CheckDriveReady
    <3>1. (pc = "checkReady" /\ pc' = "flushAgain" /\ UNCHANGED <<job, err, sent>>) \/ ~Records
      BY <1>job, <1>inv, <2>1 DEF CheckDriveReady, PlaceInv, Records, driverVars
    <3> QED
      BY <1>kept, <2>1, <3>1 DEF CheckDriveReady, Records
  <2>2. CASE SetSimulationMode \/ BlankDisk
    <3>1. ~Records /\ UNCHANGED job
      BY <1>job, <1>inv, <2>2 DEF SetSimulationMode, BlankDisk, PlaceInv, Records
    <3> QED
      BY <1>kept, <3>1
  <2> QED
    BY <1>16, <2>1, <2>2
<1>17. CASE Burns \/ (~Ended /\ (BurningFails \/ OpenTray) /\ UNCHANGED <<progVars, driverVars, copyVars>>) \/ Person
  BY <1>job, <1>inv, <1>kept, <1>17 DEF Burns, BurnOne, BurningFails, OpenTray, Person, CloseTray, Insert, Ended,
     progVars, driverVars, copyVars
<1>18. CASE ChildReads \/ ChildEnds
  BY <1>job, <1>inv, <1>kept, <1>18 DEF ChildReads, ChildEnds, progVars, driveVars, driverVars
<1>19. CASE Interrupt
  BY <1>job, <1>inv, <1>kept, <1>19 DEF Interrupt, Ended, Shielded, driveVars, driverVars
<1>20. CASE Done \/ UNCHANGED vars
  BY <1>job, <1>inv, <1>kept, <1>20 DEF Done, vars, progVars, driveVars, driverVars, copyVars
<1> QED
  BY <1>1, <1>2, <1>3, <1>4, <1>5, <1>6, <1>7, <1>8, <1>9, <1>10, <1>11, <1>12, <1>13, <1>14, <1>15, <1>16, <1>17,
     <1>18, <1>19, <1>20
  DEF Next, CommandNext, DriverNext, Reader

LEMMA RealStep == SessionInv /\ CompleteInv /\ RealInv /\ [Next]_vars => RealInv'
<1> USE DEF RealInv, MayFail, Recording, Held, Session, Opened, Preparing, Goto, Failed, Over, Closed, Recorded,
            Records
<1> SUFFICES ASSUME SessionInv, CompleteInv, RealInv, [Next]_vars PROVE RealInv'
  OBVIOUS
<1>job. job.command \in {"write", "copy", "fly", "blank", "unlock"} /\ job.simulate \in BOOLEAN
  BY JobTypes DEF PlaceInv, SessionInv
<1>inv. PlaceInv /\ err \in {0, 1} /\ testWrite \in BOOLEAN
  BY DEF SessionInv, TypeInv, StateTypes, FlagTypes
<1>1. CASE Setup
  <2>1. ~Recorded'
    BY <1>job, <1>inv, <1>1 DEF Setup, Prepared, PlaceInv
  <2> QED
    BY <2>1
<1>2. CASE ReadDisk \/ CheckToc
  BY <1>job, <1>inv, <1>2 DEF ReadDisk, CheckToc, AfterChecks, driveVars, driverVars
<1>3. CASE SwapMedium \/ Swapped \/ AskMedium \/ AnotherMedium
  BY <1>job, <1>inv, <1>3 DEF SwapMedium, Swapped, AskMedium, AnotherMedium, ReadDiskInfo, Eject, Insert,
     driveVars, driverVars, copyVars
<1>4. CASE CreatePipe \/ ForkReader \/ CloseWriteEnd \/ DupStdin
  BY <1>job, <1>inv, <1>4 DEF CreatePipe, ForkReader, CloseWriteEnd, DupStdin, OwnEnds, driveVars, driverVars
<1>5. CASE Lock
  BY <1>job, <1>inv, <1>5 DEF Lock, Prevent, Blocked, AfterNoLock, driveVars, driverVars, copyVars
<1>6. CASE GetSharedMemory \/ AskStart \/ StartReader
  BY <1>job, <1>inv, <1>6 DEF GetSharedMemory, AskStart, ReadDiskInfo, StartReader, driveVars, driverVars, copyVars
<1>7. CASE Deliver \/ DataMissing \/ DeliverFails \/ TakeBuffer \/ ReleaseBuffer
  BY <1>job, <1>inv, <1>7 DEF Deliver, DataMissing, DeliverFails, ReaderReports, TakeBuffer, ReleaseBuffer,
     progVars, driveVars, driverVars, copyVars
<1>8. CASE Written \/ Unlock \/ EjectMedium
  BY <1>job, <1>inv, <1>8 DEF Written, AfterWrite, Unlock, Prevent, AfterUnlock, EjectMedium, Eject, driveVars,
     driverVars, copyVars
<1>9. CASE RemoveImage \/ Cleanup
  BY <1>job, <1>inv, <1>9 DEF RemoveImage, Cleanup, KillReader, driveVars, driverVars
<1>10. CASE InitDao /\ UNCHANGED copyVars
  BY <1>job, <1>inv, <1>10 DEF InitDao, ReadDiskInfo, Usable, Responsive, driveVars, driverVars, copyVars
<1>11. CASE (SetSpeed \/ SetWriteParameters \/ Calibrate) /\ UNCHANGED copyVars
  <2>1. Records' = Records /\ UNCHANGED job
    BY <1>11 DEF SetSpeed, SetWriteParameters, Calibrate
  <2>2. CASE SetSpeed \/ Calibrate
    BY <1>11, <2>1, <2>2 DEF SetSpeed, Calibrate, Command, driveVars
  <2>3. CASE SetWriteParameters
    <3>1. err' = 1 \/ testWrite' = job.simulate
      BY <2>3 DEF SetWriteParameters, TestWrite, Command
    <3> QED
      BY <1>job, <2>1, <3>1
  <2> QED
    BY <1>11, <2>2, <2>3
<1>12. CASE SendCueSheet /\ UNCHANGED copyVars
  BY <1>job, <1>inv, <1>12 DEF SendCueSheet, Command, copyVars
<1>13. CASE WriteCommand /\ UNCHANGED copyVars
  BY <1>job, <1>inv, <1>13 DEF WriteCommand, Writing, Accept, copyVars
<1>14. CASE (LongWriteInProgress \/ AllWritten) /\ UNCHANGED copyVars
  BY <1>job, <1>inv, <1>14 DEF LongWriteInProgress, AllWritten, Writing, Behind, driveVars, driverVars, copyVars
<1>15. CASE (FlushCache \/ AbortDao) /\ UNCHANGED copyVars
  <2>1. CASE AbortDao
    <3>1. err' = 1 \/ ~Records'
      BY <1>inv, <2>1 DEF AbortDao, CompleteInv
    <3> QED
      BY <3>1
  <2>2. CASE FlushCache
    <3>1. UNCHANGED <<testWrite, err, job>> /\ pc \in {"finishDao", "flushAgain"}
      BY <2>2 DEF FlushCache, Synchronize
    <3> QED
      BY <3>1
  <2> QED
    BY <1>15, <2>1, <2>2
<1>16. CASE (CheckDriveReady \/ SetSimulationMode \/ BlankDisk) /\ UNCHANGED copyVars
  <2>1. Records => CheckDriveReady
    BY <1>inv, <1>16 DEF SetSimulationMode, BlankDisk, PlaceInv
  <2>2. Records' = Records /\ UNCHANGED job
    BY <1>16 DEF CheckDriveReady, SetSimulationMode, BlankDisk
  <2>3. CheckDriveReady /\ Records => pc = "checkReady" /\ UNCHANGED <<testWrite, err>>
    BY <1>inv DEF CheckDriveReady, PlaceInv
  <2> QED
    BY <2>1, <2>2, <2>3
<1>17. CASE Burns \/ (~Ended /\ (BurningFails \/ OpenTray) /\ UNCHANGED <<progVars, driverVars, copyVars>>) \/ Person
  BY <1>job, <1>inv, <1>17 DEF Burns, BurnOne, BurningFails, OpenTray, Person, CloseTray, Insert, Ended, progVars,
     driverVars, copyVars
<1>18. CASE ChildReads \/ ChildEnds
  BY <1>job, <1>inv, <1>18 DEF ChildReads, ChildEnds, progVars, driveVars, driverVars
<1>19. CASE Interrupt
  BY <1>job, <1>inv, <1>19 DEF Interrupt, Ended, Shielded, driveVars, driverVars
<1>20. CASE Done \/ UNCHANGED vars
  BY <1>job, <1>inv, <1>20 DEF Done, vars, progVars, driveVars, driverVars, copyVars
<1> QED
  BY <1>1, <1>2, <1>3, <1>4, <1>5, <1>6, <1>7, <1>8, <1>9, <1>10, <1>11, <1>12, <1>13, <1>14, <1>15, <1>16, <1>17,
     <1>18, <1>19, <1>20
  DEF Next, CommandNext, DriverNext, Reader

LEMMA EmptyStep == SessionInv /\ CompleteInv /\ CalmInv /\ EmptyInv /\ [Next]_vars => EmptyInv'
<1> USE DEF EmptyInv, MayFail, Recording, Held, Session, Opened, Preparing, Goto, Failed, Over, Closed, Recorded,
            Records, CalmInv
<1> SUFFICES ASSUME SessionInv, CompleteInv, CalmInv, EmptyInv, [Next]_vars PROVE EmptyInv'
  OBVIOUS
<1>job. job.command \in {"write", "copy", "fly", "blank", "unlock"} /\ job.simulate \in BOOLEAN
  BY JobTypes DEF PlaceInv, SessionInv
<1>inv. PlaceInv /\ SheetInv /\ err \in {0, 1}
  BY DEF SessionInv, TypeInv, StateTypes
<1>1. CASE Setup
  <2>1. ~Recorded'
    BY <1>job, <1>inv, <1>1 DEF Setup, Prepared, PlaceInv
  <2> QED
    BY <2>1
<1>2. CASE ReadDisk \/ CheckToc
  BY <1>job, <1>inv, <1>2 DEF ReadDisk, CheckToc, AfterChecks, driveVars, driverVars
<1>3. CASE SwapMedium \/ Swapped \/ AskMedium \/ AnotherMedium
  BY <1>job, <1>inv, <1>3 DEF SwapMedium, Swapped, AskMedium, AnotherMedium, ReadDiskInfo, Eject, Insert,
     driveVars, driverVars, copyVars
<1>4. CASE CreatePipe \/ ForkReader \/ CloseWriteEnd \/ DupStdin
  BY <1>job, <1>inv, <1>4 DEF CreatePipe, ForkReader, CloseWriteEnd, DupStdin, OwnEnds, driveVars, driverVars
<1>5. CASE Lock
  BY <1>job, <1>inv, <1>5 DEF Lock, Prevent, Blocked, AfterNoLock, driveVars, driverVars, copyVars
<1>6. CASE GetSharedMemory \/ AskStart \/ StartReader
  BY <1>job, <1>inv, <1>6 DEF GetSharedMemory, AskStart, ReadDiskInfo, StartReader, driveVars, driverVars, copyVars
<1>7. CASE Deliver \/ DataMissing \/ DeliverFails \/ TakeBuffer \/ ReleaseBuffer
  BY <1>job, <1>inv, <1>7 DEF Deliver, DataMissing, DeliverFails, ReaderReports, TakeBuffer, ReleaseBuffer,
     progVars, driveVars, driverVars, copyVars
<1>8. CASE Written \/ Unlock \/ EjectMedium
  BY <1>job, <1>inv, <1>8 DEF Written, AfterWrite, Unlock, Prevent, AfterUnlock, EjectMedium, Eject, driveVars,
     driverVars, copyVars
<1>9. CASE RemoveImage \/ Cleanup
  BY <1>job, <1>inv, <1>9 DEF RemoveImage, Cleanup, KillReader, driveVars, driverVars
<1>10. CASE InitDao /\ UNCHANGED copyVars
  BY <1>job, <1>inv, <1>10 DEF InitDao, ReadDiskInfo, Usable, Responsive, driveVars, driverVars, copyVars
<1>11. CASE (SetSpeed \/ SetWriteParameters \/ Calibrate) /\ UNCHANGED copyVars
  <2>1. pc' \in {"diskInfo", "calibrate", "cueSheet"} \/ err' = 1
    BY <1>11 DEF SetSpeed, SetWriteParameters, Calibrate, Command
  <2> QED
    BY <2>1
<1>12. CASE SendCueSheet /\ UNCHANGED copyVars
  BY <1>job, <1>inv, <1>12 DEF SendCueSheet, Command, copyVars
<1>13. CASE WriteCommand /\ UNCHANGED copyVars
  BY <1>job, <1>inv, <1>13 DEF WriteCommand, Writing, Accept, copyVars
<1>14. CASE (LongWriteInProgress \/ AllWritten) /\ UNCHANGED copyVars
  BY <1>job, <1>inv, <1>14 DEF LongWriteInProgress, AllWritten, Writing, Behind, driveVars, driverVars, copyVars
<1>15. CASE (FlushCache \/ AbortDao) /\ UNCHANGED copyVars
  <2>1. CASE AbortDao
    <3>1. err' = 1 \/ ~Records'
      BY <1>inv, <2>1 DEF AbortDao, CompleteInv
    <3> QED
      BY <3>1
  <2>2. CASE FlushCache
    <3>1. UNCHANGED <<healthy, err, job>> /\ pc \in {"finishDao", "flushAgain"}
      BY <2>2 DEF FlushCache, Synchronize
    <3>2. pc = "finishDao" => pc' = "checkReady"
      BY <2>2 DEF FlushCache
    <3>3. pc = "flushAgain" => last = NoSession
      BY <1>inv DEF SheetInv
    <3>4. pc = "flushAgain" => cache' = cache
      BY <2>2, <3>3 DEF FlushCache, Synchronize
    <3> QED
      BY <3>1, <3>2, <3>4
  <2> QED
    BY <1>15, <2>1, <2>2
<1>16. CASE (CheckDriveReady \/ SetSimulationMode \/ BlankDisk) /\ UNCHANGED copyVars
  <2>1. Records => CheckDriveReady
    BY <1>inv, <1>16 DEF SetSimulationMode, BlankDisk, PlaceInv
  <2>2. Records' = Records /\ UNCHANGED <<job, healthy>>
    BY <1>16 DEF CheckDriveReady, SetSimulationMode, BlankDisk, Command
  <2>3. CheckDriveReady /\ Records /\ healthy => cache = <<>> /\ cache' = cache
    BY <1>inv DEF CheckDriveReady, Ready
  <2> QED
    BY <2>1, <2>2, <2>3
<1>17. CASE Burns \/ (~Ended /\ (BurningFails \/ OpenTray) /\ UNCHANGED <<progVars, driverVars, copyVars>>) \/ Person
  BY <1>job, <1>inv, <1>17 DEF Burns, BurnOne, BurningFails, OpenTray, Person, CloseTray, Insert, Ended, progVars,
     driverVars, copyVars
<1>18. CASE ChildReads \/ ChildEnds
  BY <1>job, <1>inv, <1>18 DEF ChildReads, ChildEnds, progVars, driveVars, driverVars
<1>19. CASE Interrupt
  BY <1>job, <1>inv, <1>19 DEF Interrupt, Ended, Shielded, driveVars, driverVars
<1>20. CASE Done \/ UNCHANGED vars
  BY <1>job, <1>inv, <1>20 DEF Done, vars, progVars, driveVars, driverVars, copyVars
<1> QED
  BY <1>1, <1>2, <1>3, <1>4, <1>5, <1>6, <1>7, <1>8, <1>9, <1>10, <1>11, <1>12, <1>13, <1>14, <1>15, <1>16, <1>17,
     <1>18, <1>19, <1>20
  DEF Next, CommandNext, DriverNext, Reader

LEMMA LandedStep ==
    SessionInv /\ CalmInv /\ CompleteInv /\ RealInv /\ EmptyInv /\ LandedInv /\ [Next]_vars
    => LandedInv'
<1> USE DEF LandedInv
<1> SUFFICES ASSUME SessionInv, CalmInv, CompleteInv, RealInv, EmptyInv, LandedInv, [Next]_vars PROVE LandedInv'
  OBVIOUS
<1>job. job.command \in {"write", "copy", "fly", "blank", "unlock"} /\ job.simulate \in BOOLEAN
  BY JobTypes DEF PlaceInv, SessionInv
<1>inv. /\ PlaceInv /\ SheetInv /\ RecordInv /\ AddressInv /\ BlockTypes /\ AddressTypes /\ EarlyInv /\ err \in {0, 1}
  BY DEF SessionInv, TypeInv, StateTypes
<1>num. /\ Len(burned) \in Nat /\ Len(cache) \in Nat /\ Len(sent) \in Nat /\ Len(todo) \in Nat /\ next \in Int
        /\ medium.start \in Nat /\ TextBlocks \in Nat /\ Pregap \in Nat /\ Length \in Nat
  BY Sizes, MediumTypes DEF SessionInv, TypeInv, BlockTypes, AddressTypes, DiscTypes, MediumType, TextBlocks
<1>quiet. Landed /\ UNCHANGED <<burned, cache, sent>> /\ (pc' \in Closed <=> pc \in Closed) => Landed'
  BY DEF Landed, Sent
<1>1. CASE Setup
  <2>1. Recorded' => Recorded /\ UNCHANGED <<burned, cache, sent>> /\ (pc' \in Closed <=> pc \in Closed)
    BY <1>job, <1>inv, <1>1 DEF Setup, ReadDiskInfo, Refresh, Prepared, copyVars, Recorded, Over, Closed, Records,
       Recording, Held, Session, Opened, Preparing, Goto, Failed
  <2>2. UNCHANGED <<job, healthy>>
    BY <1>1 DEF Setup, ReadDiskInfo, Refresh, Prepared, copyVars
  <2> QED
    BY <1>quiet, <2>1, <2>2
<1>2. CASE ReadDisk \/ CheckToc
  <2>1. Recorded' => Recorded /\ UNCHANGED <<burned, cache, sent>> /\ (pc' \in Closed <=> pc \in Closed)
    BY <1>job, <1>inv, <1>2 DEF ReadDisk, CheckToc, AfterChecks, driveVars, driverVars, Recorded, Over, Closed,
       Records, Recording, Held, Session, Opened, Preparing, Goto, Failed
  <2>2. UNCHANGED <<job, healthy>>
    BY <1>2 DEF ReadDisk, CheckToc, AfterChecks, driveVars, driverVars
  <2> QED
    BY <1>quiet, <2>1, <2>2
<1>3. CASE SwapMedium \/ Swapped \/ AskMedium \/ AnotherMedium
  <2>1. Recorded' => Recorded /\ UNCHANGED <<burned, cache, sent>> /\ (pc' \in Closed <=> pc \in Closed)
    BY <1>job, <1>inv, <1>3 DEF SwapMedium, Swapped, AskMedium, AnotherMedium, ReadDiskInfo, Eject, Insert,
       driveVars, driverVars, copyVars, Recorded, Over, Closed, Records, Recording, Held, Session, Opened,
       Preparing, Goto, Failed
  <2>2. UNCHANGED <<job, healthy>>
    BY <1>3 DEF SwapMedium, Swapped, AskMedium, AnotherMedium, ReadDiskInfo, Eject, Insert, driveVars, driverVars,
       copyVars
  <2> QED
    BY <1>quiet, <2>1, <2>2
<1>4. CASE CreatePipe \/ ForkReader \/ CloseWriteEnd \/ DupStdin
  <2>1. Recorded' => Recorded /\ UNCHANGED <<burned, cache, sent>> /\ (pc' \in Closed <=> pc \in Closed)
    BY <1>job, <1>inv, <1>4 DEF CreatePipe, ForkReader, CloseWriteEnd, DupStdin, OwnEnds, driveVars, driverVars,
       Recorded, Over, Closed, Records, Recording, Held, Session, Opened, Preparing, Goto, Failed
  <2>2. UNCHANGED <<job, healthy>>
    BY <1>4 DEF CreatePipe, ForkReader, CloseWriteEnd, DupStdin, OwnEnds, driveVars, driverVars
  <2> QED
    BY <1>quiet, <2>1, <2>2
<1>5. CASE Lock
  <2>1. Recorded' => Recorded /\ UNCHANGED <<burned, cache, sent>> /\ (pc' \in Closed <=> pc \in Closed)
    BY <1>job, <1>inv, <1>5 DEF Lock, Prevent, Blocked, AfterNoLock, driveVars, driverVars, copyVars, Recorded,
       Over, Closed, Records, Recording, Held, Session, Opened, Preparing, Goto, Failed
  <2>2. UNCHANGED <<job, healthy>>
    BY <1>5 DEF Lock, Prevent, Blocked, AfterNoLock, driveVars, driverVars, copyVars
  <2> QED
    BY <1>quiet, <2>1, <2>2
<1>6. CASE GetSharedMemory \/ AskStart \/ StartReader
  <2>1. Recorded' => Recorded /\ UNCHANGED <<burned, cache, sent>> /\ (pc' \in Closed <=> pc \in Closed)
    BY <1>job, <1>inv, <1>6 DEF GetSharedMemory, AskStart, ReadDiskInfo, StartReader, driveVars, driverVars,
       copyVars, Recorded, Over, Closed, Records, Recording, Held, Session, Opened, Preparing, Goto, Failed
  <2>2. UNCHANGED <<job, healthy>>
    BY <1>6 DEF GetSharedMemory, AskStart, ReadDiskInfo, StartReader, driveVars, driverVars, copyVars
  <2> QED
    BY <1>quiet, <2>1, <2>2
<1>7. CASE Deliver \/ DataMissing \/ DeliverFails \/ TakeBuffer \/ ReleaseBuffer
  <2>1. Recorded' => Recorded /\ UNCHANGED <<burned, cache, sent>> /\ (pc' \in Closed <=> pc \in Closed)
    BY <1>job, <1>inv, <1>7 DEF Deliver, DataMissing, DeliverFails, ReaderReports, TakeBuffer, ReleaseBuffer,
       progVars, driveVars, driverVars, copyVars, Recorded, Over, Closed, Records, Recording, Held, Session,
       Opened, Preparing, Goto, Failed
  <2>2. UNCHANGED <<job, healthy>>
    BY <1>7 DEF Deliver, DataMissing, DeliverFails, ReaderReports, TakeBuffer, ReleaseBuffer, progVars, driveVars,
       driverVars, copyVars
  <2> QED
    BY <1>quiet, <2>1, <2>2
<1>8. CASE Written \/ Unlock \/ EjectMedium
  <2>1. UNCHANGED <<job, err, healthy, burned, sent>> \/ (Unlock /\ UNCHANGED <<job, healthy, cache, burned, sent>>)
    BY <1>8 DEF Written, Unlock, Prevent, EjectMedium, Eject, driveVars, driverVars
  <2>2. healthy /\ Recorded /\ pc \in {"written", "unlock", "eject"} => cache = <<>>
    BY DEF EmptyInv, Closed, Over
  <2>3. pc \in {"written", "unlock", "eject"} /\ pc' \in {"unlock", "eject", "removeImage", "cleanup", "exit"}
    BY <1>8 DEF Written, AfterWrite, Unlock, AfterUnlock, EjectMedium, Goto
  <2>4. cache' = cache \/ cache' = <<>>
    BY <1>8 DEF Written, Unlock, Prevent, EjectMedium, Eject, driveVars
  <2>5. Recorded' => Recorded
    BY <1>8, <1>inv, <2>3 DEF Written, Unlock, EjectMedium, Recorded, Records, Closed, Over
  <2>6. UNCHANGED <<job, healthy, burned, sent>>
    BY <2>1
  <2>7. pc \in Closed /\ pc' \in Closed
    BY <2>3 DEF Closed, Over
  <2> QED
    BY <1>quiet, <2>2, <2>3, <2>4, <2>5, <2>6, <2>7
<1>9. CASE RemoveImage \/ Cleanup
  <2>1. Recorded' => Recorded /\ UNCHANGED <<burned, cache, sent>> /\ (pc' \in Closed <=> pc \in Closed)
    BY <1>job, <1>inv, <1>9 DEF RemoveImage, Cleanup, KillReader, driveVars, driverVars, Recorded, Over, Closed,
       Records, Recording, Held, Session, Opened, Preparing, Goto, Failed
  <2>2. UNCHANGED <<job, healthy>>
    BY <1>9 DEF RemoveImage, Cleanup, KillReader, driveVars, driverVars
  <2> QED
    BY <1>quiet, <2>1, <2>2
<1>10. CASE InitDao /\ UNCHANGED copyVars
  <2>1. Recorded' => Recorded /\ UNCHANGED <<burned, cache, sent>> /\ (pc' \in Closed <=> pc \in Closed)
    BY <1>job, <1>inv, <1>10 DEF InitDao, ReadDiskInfo, Usable, Responsive, driveVars, driverVars, copyVars,
       Recorded, Over, Closed, Records, Recording, Held, Session, Opened, Preparing, Goto, Failed
  <2>2. UNCHANGED <<job, healthy>>
    BY <1>10 DEF InitDao, ReadDiskInfo, Usable, Responsive, driveVars, driverVars, copyVars
  <2> QED
    BY <1>quiet, <2>1, <2>2
<1>11. CASE (SetSpeed \/ SetWriteParameters \/ Calibrate) /\ UNCHANGED copyVars
  <2>1. CASE SetSpeed
    BY <1>quiet, <2>1 DEF SetSpeed, Command, Recorded, Closed, Over, Opened, driveVars, driverVars
  <2>2. CASE Calibrate
    <3>1. Recorded' => Recorded /\ UNCHANGED <<burned, cache, sent>> /\ pc' \notin Closed /\ pc \notin Closed
      BY <1>inv, <2>2 DEF Calibrate, Command, Recorded, Records, Closed, Over, Opened, driveVars, driverVars, Failed
    <3>2. UNCHANGED <<job, healthy>>
      BY <2>2 DEF Calibrate, Command, driveVars
    <3> QED
      BY <1>quiet, <3>1, <3>2
  <2>3. CASE SetWriteParameters
    <3>1. sent' = <<>> /\ cache' = <<>> /\ burned' = <<>> /\ (pc' \in {"calibrate", "cueSheet", "abortDao"})
      BY <2>3 DEF SetWriteParameters, Command, Failed, EarlyInv, Early, Preparing, SessionInv, driverVars
    <3>2. Landed'
      BY <3>1 DEF Landed, Closed, Over
    <3> QED
      BY <3>2
  <2> QED
    BY <1>11, <2>1, <2>2, <2>3
<1>12. CASE SendCueSheet /\ UNCHANGED copyVars
  <2>1. Recorded' => Recorded /\ UNCHANGED <<burned, cache, sent>> /\ (pc' \in Closed <=> pc \in Closed)
    BY <1>job, <1>inv, <1>12 DEF SendCueSheet, Command, copyVars, Recorded, Over, Closed, Records, Recording, Held,
       Session, Opened, Preparing, Goto, Failed
  <2>2. UNCHANGED <<job, healthy>>
    BY <1>12 DEF SendCueSheet, Command, copyVars
  <2> QED
    BY <1>quiet, <2>1, <2>2
<1>13. CASE WriteCommand /\ UNCHANGED copyVars
  <2>1. CASE pc' = "abortDao"
    BY <1>inv, <2>1 DEF Recorded, Closed, Over, Opened
  <2>2. CASE pc' # "abortDao"
    <3>1. UNCHANGED <<pc, err, job, healthy, burned>> /\ pc \in {"leadIn", "pregap", "write"}
      BY <1>13, <1>inv, <2>2, Sending DEF WriteCommand, Writing
    <3>2. PICK n \in 1 .. Len(todo) :
            /\ Len(sent') = Len(sent) + n /\ Len(cache') = Len(cache) + n
            /\ \A i \in 1 .. Len(sent) : sent'[i] = sent[i]
            /\ \A i \in 1 .. n : sent'[Len(sent) + i] = <<lba + i - 1, todo[i]>>
            /\ \A i \in 1 .. Len(cache) : cache'[i] = cache[i]
            /\ \A i \in 1 .. n : cache'[Len(cache) + i] = todo[i]
      BY <1>13, <1>inv, <2>2, Sending
    <3> SUFFICES ASSUME Landed PROVE Landed'
      BY <3>1 DEF Recorded, Records, LandedInv
    <3>3. n \in Nat /\ Len(burned) + Len(cache) = Len(sent)
      BY <1>num, <3>1, <3>2 DEF Landed, Closed, Over
    <3>4. Len(burned') + Len(cache') = Len(sent')
      <4>1. Len(burned) + (Len(cache) + n) = Len(sent) + n
        BY <1>num, <3>3
      <4> QED
        BY <3>1, <3>2, <4>1
    <3>5. ASSUME NEW i \in 1 .. Len(burned) PROVE i <= Len(sent') /\ burned[i] = sent'[i][2]
      <4>1. i \in 1 .. Len(sent) /\ i <= Len(sent')
        BY <1>num, <3>2, <3>3
      <4>2. burned[i] = sent[i][2]
        BY <4>1 DEF Landed, Sent
      <4> QED
        BY <3>2, <4>1, <4>2
    <3>6. ASSUME NEW i \in 1 .. Len(cache')
          PROVE  Len(burned) + i <= Len(sent') /\ cache'[i] = sent'[Len(burned) + i][2]
      <4>1. i \in Nat /\ i >= 1 /\ i <= Len(cache) + n
        BY <1>num, <3>2, <3>3
      <4>2. CASE i <= Len(cache)
        <5>1. i \in 1 .. Len(cache) /\ Len(burned) + i \in 1 .. Len(sent) /\ Len(burned) + i <= Len(sent) + n
          BY <1>num, <3>3, <4>1, <4>2
        <5>2. cache[i] = sent[Len(burned) + i][2]
          BY <5>1 DEF Landed, Sent
        <5> QED
          BY <3>2, <5>1, <5>2
      <4>3. CASE i > Len(cache)
        <5>1. PICK j \in 1 .. n : i = Len(cache) + j
          <6>1. i - Len(cache) \in 1 .. n /\ i = Len(cache) + (i - Len(cache))
            BY <1>num, <3>3, <4>1, <4>3
          <6> QED
            BY <6>1
        <5>2. Len(burned) + i = Len(sent) + j /\ Len(sent) + j <= Len(sent) + n
          BY <1>num, <3>3, <5>1
        <5>3. cache'[i] = todo[j] /\ sent'[Len(sent) + j] = <<lba + j - 1, todo[j]>>
          BY <3>2, <5>1
        <5>4. sent'[Len(burned) + i][2] = todo[j]
          BY <5>2, <5>3
        <5> QED
          BY <3>2, <5>2, <5>3, <5>4
      <4> QED
        BY <1>num, <4>1, <4>2, <4>3
    <3>7. pc' \notin Closed
      BY <3>1 DEF Closed, Over
    <3>8. \A i \in 1 .. Len(burned') : burned'[i] = IF i <= Len(sent') THEN sent'[i][2] ELSE LeadOut
      BY <3>1, <3>5
    <3>9. \A i \in 1 .. Len(cache') :
            cache'[i] = IF Len(burned') + i <= Len(sent') THEN sent'[Len(burned') + i][2] ELSE LeadOut
      BY <3>1, <3>6
    <3> QED
      BY <3>4, <3>7, <3>8, <3>9 DEF Landed, Sent
  <2> QED
    BY <2>1, <2>2
<1>14. CASE (LongWriteInProgress \/ AllWritten) /\ UNCHANGED copyVars
  <2>1. Recorded' => Recorded /\ UNCHANGED <<burned, cache, sent>> /\ (pc' \in Closed <=> pc \in Closed)
    BY <1>job, <1>inv, <1>14 DEF LongWriteInProgress, AllWritten, Writing, Behind, driveVars, driverVars, copyVars,
       Recorded, Over, Closed, Records, Recording, Held, Session, Opened, Preparing, Goto, Failed
  <2>2. UNCHANGED <<job, healthy>>
    BY <1>14 DEF LongWriteInProgress, AllWritten, Writing, Behind, driveVars, driverVars, copyVars
  <2> QED
    BY <1>quiet, <2>1, <2>2
<1>15. CASE (FlushCache \/ AbortDao) /\ UNCHANGED copyVars
  <2>1. CASE AbortDao
    <3>1. ~Recorded'
      BY <1>inv, <2>1 DEF AbortDao, CompleteInv, Recorded, Records
    <3> QED
      BY <3>1
  <2>2. CASE FlushCache
    <3>1. UNCHANGED <<healthy, err, job, sent, burned>> /\ Records' = Records
      BY <2>2 DEF FlushCache, Synchronize, driverVars, Records
    <3>2. CASE pc = "flushAgain"
      <4>1. cache' = cache /\ pc' = "written"
        BY <1>inv, <2>2, <3>2 DEF FlushCache, Synchronize, SheetInv, Opened
      <4> QED
        BY <1>quiet, <3>1, <3>2, <4>1 DEF Recorded, Closed, Over
    <3>3. CASE pc = "finishDao"
      <4> SUFFICES ASSUME healthy, Recorded, Landed PROVE Landed'
        BY <3>1, <3>3 DEF Recorded, Opened, LandedInv
      <4>1. Responsive
        BY <3>3 DEF CalmInv, Responsive
      <4>2. Len(sent) = TextBlocks + Pregap + Length
        BY <3>3 DEF CompleteInv, Recorded, Over, SessionBlocks
      <4>3. next = medium.start + Len(sent) - TextBlocks - Pregap /\ last = medium.start + Length
        BY <1>inv, <3>3 DEF AddressInv, Opened
      <4>4. next = last /\ last # NoSession
        BY <1>num, <4>2, <4>3 DEF NoSession
      <4>5. cache' = Append(cache, LeadOut) /\ pc' = "checkReady"
        BY <2>2, <3>3, <4>1, <4>4 DEF FlushCache, Synchronize
      <4>6. PICK n \in Nat : n = Len(cache) + 1
        BY <1>num
      <4>7. Len(cache') = n /\ cache'[n] = LeadOut /\ \A i \in 1 .. n - 1 : cache'[i] = cache[i]
        BY <1>inv, <4>5, <4>6 DEF BlockTypes
      <4>8. Len(burned) + Len(cache) = Len(sent)
        BY <1>num, <3>3 DEF Landed, Closed, Over
      <4>9. Len(burned') + Len(cache') = Len(sent') + 1
        BY <1>num, <3>1, <4>6, <4>7, <4>8
      <4>10. \A i : Sent(i)' = Sent(i)
        BY <3>1 DEF Sent
      <4>11. Sent(Len(burned) + n) = LeadOut
        BY <1>num, <4>6, <4>8 DEF Sent
      <4>12. ASSUME NEW i \in 1 .. Len(cache') PROVE cache'[i] = Sent(Len(burned) + i)
        <5>1. i = n \/ (i \in 1 .. Len(cache) /\ i \in 1 .. n - 1)
          BY <1>num, <4>6, <4>7
        <5> QED
          BY <4>7, <4>11, <5>1 DEF Landed
      <4>13. \A i \in 1 .. Len(burned) : burned[i] = Sent(i)
        BY DEF Landed
      <4> QED
        BY <3>1, <4>5, <4>9, <4>10, <4>12, <4>13 DEF Landed, Closed, Over
    <3> QED
      BY <2>2, <3>2, <3>3 DEF FlushCache
  <2> QED
    BY <1>15, <2>1, <2>2
<1>16. CASE (CheckDriveReady \/ SetSimulationMode \/ BlankDisk) /\ UNCHANGED copyVars
  <2>1. Records => CheckDriveReady
    BY <1>inv, <1>16 DEF SetSimulationMode, BlankDisk, PlaceInv, Records, Recording, Held, Session, Opened, Preparing
  <2>2. UNCHANGED <<job, healthy>> /\ Records' = Records
    BY <1>16 DEF CheckDriveReady, SetSimulationMode, BlankDisk, Command, Records
  <2>3. CASE CheckDriveReady /\ Records
    <3>1. pc = "checkReady" /\ pc' = "flushAgain" /\ UNCHANGED <<err, burned, cache, sent>>
      BY <1>inv, <2>3 DEF CheckDriveReady, driverVars, PlaceInv, Records, Recording, Held, Session, Opened, Preparing
    <3> QED
      BY <1>quiet, <2>2, <3>1 DEF Recorded, Closed, Over
  <2> QED
    BY <2>1, <2>2, <2>3 DEF Recorded
<1>17. CASE Burns \/ (~Ended /\ (BurningFails \/ OpenTray) /\ UNCHANGED <<progVars, driverVars, copyVars>>) \/ Person
  <2>1. UNCHANGED <<pc, err, job, healthy, sent>> /\ Recorded' = Recorded
    BY <1>17 DEF Burns, BurnOne, BurningFails, OpenTray, Person, CloseTray, Insert, progVars, driverVars, Recorded,
       Records
  <2> SUFFICES ASSUME healthy, Recorded, ~job.simulate, Landed PROVE Landed'
    BY <2>1 DEF LandedInv
  <2>2. CASE BurnOne
    <3>1. cache # <<>> /\ ~testWrite /\ Head(cache) # Erase
      <4>1. cache # <<>>
        BY <2>2 DEF BurnOne
      <4>2. Head(cache) # Erase
        BY <1>inv, <4>1, RecordBlocks, HeadTailProperties DEF RecordInv, Recorded
      <4> QED
        BY <4>1, <4>2 DEF RealInv
    <3>2. burned' = Append(burned, Head(cache)) /\ cache' = Tail(cache)
      BY <2>2, <3>1 DEF BurnOne
    <3>3. Len(cache) \in Nat \ {0}
      BY <1>inv, <3>1, EmptySeq DEF BlockTypes
    <3>4. PICK n \in Nat : n = Len(cache) - 1
      BY <3>3
    <3>5. Len(cache') = n /\ \A i \in 1 .. n : cache'[i] = cache[i + 1]
      BY <1>inv, <3>1, <3>2, <3>4, HeadTailProperties DEF BlockTypes
    <3>6. PICK m \in Nat : m = Len(burned) + 1
      BY <1>num
    <3>7. Head(cache) = cache[1] /\ Head(cache) \in Block
      BY <1>inv, <3>1, HeadTailProperties DEF BlockTypes
    <3>8. Len(burned') = m /\ burned'[m] = cache[1] /\ \A i \in 1 .. m - 1 : burned'[i] = burned[i]
      BY <1>inv, <3>2, <3>6, <3>7, AppendProperties DEF BlockTypes
    <3>9. \A i : Sent(i)' = Sent(i)
      BY <2>1 DEF Sent
    <3>10. Len(burned') + Len(cache') = Len(burned) + Len(cache)
      BY <1>num, <3>4, <3>5, <3>6, <3>8
    <3>11. cache[1] = Sent(m)
      BY <1>num, <3>3, <3>6 DEF Landed
    <3>12. ASSUME NEW i \in 1 .. m PROVE burned'[i] = Sent(i)
      <4>1. i = m \/ (i \in 1 .. Len(burned) /\ i \in 1 .. m - 1)
        BY <1>num, <3>6
      <4> QED
        BY <3>8, <3>11, <4>1 DEF Landed
    <3>13. ASSUME NEW i \in 1 .. n PROVE cache'[i] = Sent(m + i)
      <4>1. i + 1 \in 1 .. Len(cache) /\ Len(burned) + (i + 1) = m + i
        BY <1>num, <3>3, <3>4, <3>6
      <4>2. cache[i + 1] = Sent(m + i)
        BY <4>1 DEF Landed
      <4> QED
        BY <3>5, <4>2
    <3> QED
      BY <2>1, <3>5, <3>8, <3>9, <3>10, <3>12, <3>13 DEF Landed
  <2>3. CASE ~BurnOne
    <3>1. UNCHANGED <<burned, cache>>
      BY <1>17, <2>3 DEF Burns, BurningFails, OpenTray, Person, CloseTray, Insert, MayFail, CalmInv, Recorded,
                         EmptyInv, Closed, Over, Opened
    <3> QED
      BY <1>quiet, <2>1, <3>1
  <2> QED
    BY <2>2, <2>3
<1>18. CASE ChildReads \/ ChildEnds
  <2>1. Recorded' => Recorded /\ UNCHANGED <<burned, cache, sent>> /\ (pc' \in Closed <=> pc \in Closed)
    BY <1>job, <1>inv, <1>18 DEF ChildReads, ChildEnds, progVars, driveVars, driverVars, Recorded, Over, Closed,
       Records, Recording, Held, Session, Opened, Preparing, Goto, Failed
  <2>2. UNCHANGED <<job, healthy>>
    BY <1>18 DEF ChildReads, ChildEnds, progVars, driveVars, driverVars
  <2> QED
    BY <1>quiet, <2>1, <2>2
<1>19. CASE Interrupt
  <2>1. Recorded' => Recorded /\ UNCHANGED <<burned, cache, sent>> /\ (pc' \in Closed <=> pc \in Closed)
    BY <1>job, <1>inv, <1>19 DEF Interrupt, Ended, Shielded, driveVars, driverVars, Recorded, Over, Closed,
       Records, Recording, Held, Session, Opened, Preparing, Goto, Failed
  <2>2. UNCHANGED <<job, healthy>>
    BY <1>19 DEF Interrupt, Ended, Shielded, driveVars, driverVars
  <2> QED
    BY <1>quiet, <2>1, <2>2
<1>20. CASE Done \/ UNCHANGED vars
  <2>1. Recorded' => Recorded /\ UNCHANGED <<burned, cache, sent>> /\ (pc' \in Closed <=> pc \in Closed)
    BY <1>job, <1>inv, <1>20 DEF Done, vars, progVars, driveVars, driverVars, copyVars, Recorded, Over, Closed,
       Records, Recording, Held, Session, Opened, Preparing, Goto, Failed
  <2>2. UNCHANGED <<job, healthy>>
    BY <1>20 DEF Done, vars, progVars, driveVars, driverVars, copyVars
  <2> QED
    BY <1>quiet, <2>1, <2>2
<1> QED
  BY <1>1, <1>2, <1>3, <1>4, <1>5, <1>6, <1>7, <1>8, <1>9, <1>10, <1>11, <1>12, <1>13, <1>14, <1>15, <1>16, <1>17,
     <1>18, <1>19, <1>20
  DEF Next, CommandNext, DriverNext, Reader

LEMMA RecordedInvariant == Spec => [](SessionInv /\ CompleteInv /\ EmptyInv /\ LandedInv)
<1>1. Init => CompleteInv /\ RealInv /\ EmptyInv /\ LandedInv
  BY RecordedInit
<1>2. /\ SessionInv /\ CalmInv /\ CompleteInv /\ RealInv /\ EmptyInv /\ LandedInv /\ [Next]_vars
      => (CompleteInv /\ RealInv /\ EmptyInv /\ LandedInv)'
  BY CompleteStep, RealStep, EmptyStep, LandedStep
<1> QED
  BY <1>1, <1>2, SessionInvariant, HealthyInvariant, PTL DEF Spec

\* A command that reports success has had every block of the session accepted, and if
\* nothing went wrong the medium holds exactly these blocks and the lead-out: the wait
\* for the end of burning cannot be over before (finishDao(), flushCache() and
\* checkDriveReady(), GenericMMC.cc).
THEOREM SuccessComplete == Spec => []SuccessIsComplete
<1>1. SessionInv /\ CompleteInv /\ EmptyInv /\ LandedInv => SuccessIsComplete
  <2> SUFFICES ASSUME SessionInv, CompleteInv, EmptyInv, LandedInv, pc = "exit", err = 0, Records
               PROVE  /\ Len(sent) = SessionBlocks
                      /\ healthy /\ ~job.simulate =>
                           burned = Append([i \in 1 .. SessionBlocks |-> sent[i][2]], LeadOut)
    BY DEF SuccessIsComplete
  <2>1. Len(sent) = SessionBlocks
    BY DEF CompleteInv, Over
  <2>2. ASSUME healthy, ~job.simulate
        PROVE  burned = Append([i \in 1 .. SessionBlocks |-> sent[i][2]], LeadOut)
    <3>1. Recorded /\ pc \in Closed \ {"checkReady"}
      BY DEF Recorded, Closed, Over
    <3>2. cache = <<>> /\ Landed
      BY <2>2, <3>1 DEF EmptyInv, LandedInv
    <3>3. /\ burned \in Seq(Block) /\ sent \in Seq(Int \X Block) /\ LeadOut \in Block
          /\ Len(sent) \in Nat /\ Len(burned) \in Nat
      <4>1. burned \in Seq(Block) /\ sent \in Seq(Int \X Block)
        BY DEF SessionInv, TypeInv, BlockTypes
      <4>2. LeadOut \in Block
        BY Blocks
      <4> QED
        BY <4>1, <4>2
    <3>4. PICK n \in Nat : n = Len(sent)
      BY <3>3
    <3>5. PICK blocks \in Seq(Block) : blocks = [i \in 1 .. SessionBlocks |-> sent[i][2]]
      <4>1. \A i \in 1 .. n : sent[i][2] \in Block
        BY <3>3, <3>4
      <4>2. SessionBlocks = n
        BY <2>1, <3>4
      <4>3. [i \in 1 .. n |-> sent[i][2]] \in Seq(Block)
        BY <4>1
      <4> QED
        BY <4>2, <4>3
    <3>6. Len(blocks) = n /\ \A i \in 1 .. n : blocks[i] = sent[i][2]
      BY <2>1, <3>4, <3>5
    <3>7. Len(burned) = n + 1
      BY <3>1, <3>2, <3>3, <3>4 DEF Landed
    <3>8. PICK expected \in Seq(Block) : expected = Append(blocks, LeadOut)
      <4>1. Append(blocks, LeadOut) \in Seq(Block)
        BY <3>3, AppendProperties
      <4> QED
        BY <4>1
    <3>9. Len(expected) = n + 1 /\ expected[n + 1] = LeadOut /\ \A i \in 1 .. n : expected[i] = sent[i][2]
      <4>1. /\ Len(Append(blocks, LeadOut)) = Len(blocks) + 1
            /\ Append(blocks, LeadOut)[Len(blocks) + 1] = LeadOut
            /\ \A i \in 1 .. Len(blocks) : Append(blocks, LeadOut)[i] = blocks[i]
        BY <3>3, AppendProperties
      <4> QED
        BY <3>6, <3>8, <4>1
    <3>10. ASSUME NEW i \in 1 .. n + 1 PROVE burned[i] = expected[i]
      <4>1. burned[i] = IF i <= n THEN sent[i][2] ELSE LeadOut
        BY <3>2, <3>4, <3>7 DEF Landed, Sent
      <4> QED
        BY <3>9, <4>1
    <3>11. burned = expected
      BY <3>3, <3>7, <3>8, <3>9, <3>10, SeqEqual
    <3> QED
      BY <3>5, <3>8, <3>11
  <2> QED
    BY <2>1, <2>2
<1> QED
  BY <1>1, RecordedInvariant, PTL
===============================================================================
