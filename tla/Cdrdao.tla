------------------------------- MODULE Cdrdao -------------------------------
(***************************************************************************)
(* dao/main.cc: the commands that need a recorder.  write (and simulate)   *)
(* records a TOC, copy reads a disc into an image file or, on the fly, in  *)
(* a child process through a pipe and records it, blank and unlock.  All   *)
(* of them go through writeDiskAtOnce() and the driver of GenericMMC; the  *)
(* ring of buffers in dao.cc (module Dao) is reduced to one buffer at a    *)
(* time here.                                                              *)
(***************************************************************************)
EXTENDS GenericMMC

CONSTANTS
    Jobs,         \* commands with their options
    BufferBlocks, \* BUFFER_SIZE
    PipeBlocks    \* what fits into the pipe

ASSUME CommandAssumption ==
    /\ Jobs \subseteq [command : {"write", "copy", "fly", "blank", "unlock"},
                       simulate : BOOLEAN, force : BOOLEAN, eject : BOOLEAN, keep : BOOLEAN, oneDrive : BOOLEAN,
                       cdText : BOOLEAN, firstTrack : BOOLEAN, audio : BOOLEAN]
    /\ BufferBlocks \in Nat \ {0} /\ PipeBlocks \in Nat \ {0}

VARIABLES
    input,     \* blocks of the TOC the reader has delivered
    image,     \* the image file of a copy: "none", "there", "removed"
    child,     \* the reader process: "none", "reading", "sleeping", "reaped"
    pipe,      \* blocks in the pipe
    produced,  \* blocks the child has read
    writers,   \* processes that hold the write end of the pipe
    stdin,     \* what stdin refers to
    refused,   \* the drive has refused to allow medium removal
    checked    \* a check between reading and recording has failed

copyVars == <<input, image, child, pipe, produced, writers, stdin, refused, checked>>
progVars == <<job, pc, err>>
vars == <<progVars, driverVars, driveVars, copyVars>>

Pad == <<"pad", 0>>
Appendable(d) == ~(d.knowsEmpty /\ ~d.empty /\ (~d.knowsAppend \/ ~d.append))
FirstStep == [write |-> "setup", copy |-> "setup", fly |-> "setup", blank |-> "setup", unlock |-> "abortDao"]
Ended == pc \in {"exit", "killed"}
Goto(from, to) == pc = from /\ pc' = to

Init ==
    /\ DriveInit /\ medium \in Media
    /\ job \in Jobs
    /\ locked \in IF job.command = "unlock" THEN BOOLEAN ELSE {FALSE}
    /\ pc = FirstStep[job.command] /\ err = 0
    /\ diskInfo = Unknown /\ lba = 0 /\ todo = <<>> /\ sent = <<>>
    /\ input = 0 /\ image = "none" /\ child = "none" /\ pipe = <<>> /\ produced = 0
    /\ writers = {} /\ stdin = "terminal" /\ refused = FALSE /\ checked = FALSE
-----------------------------------------------------------------------------
(* Before the recording.                                                   *)

\* setupDevice() and diskInfo(), and what the command demands of the medium.
\* A copy with one drive has the source in it.
AcceptsMedium(d) ==
    CASE job.command = "write" -> Appendable(d)
      [] job.command = "fly" -> Appendable(d)
      [] job.command = "copy" -> IF job.oneDrive THEN ~(d.knowsEmpty /\ d.empty) ELSE Appendable(d)
      [] job.command = "blank" -> TRUE
Prepared == [write |-> "lock", copy |-> "readDisk", fly |-> "pipe", blank |-> "simulationMode"]
Setup ==
    /\ pc = "setup"
    /\ ReadDiskInfo
    /\ \/ AcceptsMedium(diskInfo') /\ pc' = Prepared[job.command] /\ UNCHANGED err
       \/ /\ ~AcceptsMedium(diskInfo') \/ MayFail
          /\ pc' = "exit" /\ err' = 1
    /\ UNCHANGED <<job, lba, todo, sent, copyVars>>

\* copyCd(): readDisk() creates the image; one that fails is removed.
ReadDisk ==
    /\ pc = "readDisk"
    /\ \/ pc' = "checkToc" /\ image' = "there" /\ UNCHANGED err
       \/ MayFail /\ pc' = "exit" /\ image' = "removed" /\ err' = 1
    /\ UNCHANGED <<job, driverVars, driveVars, input, child, pipe, produced, writers, stdin, refused, checked>>

\* CDDB and the checks of the TOC; on the fly before the child is created.
AfterChecks == IF job.command = "fly" THEN "fork" ELSE IF job.oneDrive THEN "swap" ELSE "askMedium"
CheckToc ==
    /\ pc = "checkToc"
    /\ \/ pc' = AfterChecks /\ UNCHANGED <<err, checked>>
       \/ /\ MayFail /\ err' = 1 /\ checked' = TRUE
          /\ pc' = IF job.command = "fly" THEN "cleanup" ELSE "exit"
    /\ UNCHANGED <<job, driverVars, driveVars, input, image, child, pipe, produced, writers, stdin, refused>>

\* The source is taken out of the drive by a person, who inserts another medium.
SwapMedium ==
    /\ Goto("swap", "swapped")
    /\ Eject
    /\ UNCHANGED <<job, err, driverVars, copyVars>>
Swapped ==
    /\ Goto("swapped", "askMedium")
    /\ UNCHANGED <<job, err, driverVars, driveVars, copyVars>>

\* The medium must be appendable, otherwise a person is asked for another one.
AskMedium ==
    /\ pc = "askMedium"
    /\ ReadDiskInfo
    /\ pc' = IF diskInfo'.knowsEmpty /\ Appendable(diskInfo') THEN "lock" ELSE "prompt"
    /\ UNCHANGED <<job, err, lba, todo, sent, copyVars>>
AnotherMedium ==
    /\ Goto("prompt", "askMedium")
    /\ \E m \in Media : Insert(m)
    /\ UNCHANGED <<job, err, driverVars, copyVars>>

\* copyCdOnTheFly() up to the recording.
CreatePipe ==
    /\ pc = "pipe"
    /\ \/ pc' = "checkToc" /\ writers' = {"parent"} /\ UNCHANGED err
       \/ MayFail /\ pc' = "exit" /\ err' = 1 /\ UNCHANGED writers
    /\ UNCHANGED <<job, driverVars, driveVars, input, image, child, pipe, produced, stdin, refused, checked>>

ForkReader ==
    /\ pc = "fork"
    /\ \/ pc' = "closeEnd" /\ child' = "reading" /\ writers' = {"parent", "child"} /\ UNCHANGED err
       \/ MayFail /\ pc' = "cleanup" /\ err' = 1 /\ UNCHANGED <<child, writers>>
    /\ UNCHANGED <<job, driverVars, driveVars, input, image, pipe, produced, stdin, refused, checked>>

OwnEndsMutant == {}
OwnEnds == {"parent"}
CloseWriteEnd ==
    /\ Goto("closeEnd", "dup")
    /\ writers' = writers \ OwnEnds
    /\ UNCHANGED <<job, err, driverVars, driveVars, input, image, child, pipe, produced, stdin, refused, checked>>

DupStdin ==
    /\ pc = "dup"
    /\ \/ pc' = "lock" /\ stdin' = "pipe" /\ UNCHANGED err
       \/ MayFail /\ pc' = "cleanup" /\ err' = 1 /\ UNCHANGED stdin
    /\ UNCHANGED <<job, driverVars, driveVars, input, image, child, pipe, produced, writers, refused, checked>>

\* preventMediumRemoval(1)
AfterNoLock == [write |-> "exit", copy |-> "removeImage", fly |-> "cleanup"]
BlockedMutant == FALSE
Blocked == TRUE
Lock ==
    /\ pc = "lock"
    /\ \/ Prevent(Blocked) /\ pc' = "shared" /\ UNCHANGED err
       \/ (MayFail \/ ~Responsive) /\ pc' = AfterNoLock[job.command] /\ err' = 1 /\ UNCHANGED driveVars
    /\ UNCHANGED <<job, driverVars, copyVars>>
-----------------------------------------------------------------------------
(* writeDiskAtOnce() around the driver.                                    *)

GetSharedMemory ==
    /\ pc = "shared"
    /\ \/ pc' = "initDao" /\ UNCHANGED err
       \/ MayFail /\ pc' = "written" /\ err' = 1
    /\ UNCHANGED <<job, driverVars, driveVars, copyVars>>

\* The start of the session is asked for once more.
AskStart ==
    /\ Goto("diskInfo", "reader")
    /\ ReadDiskInfo
    /\ UNCHANGED <<job, err, lba, todo, sent, copyVars>>

\* The reader thread or process, whose first buffers come before startDao().
StartReader ==
    /\ pc = "reader"
    /\ \/ pc' = "startDao" /\ UNCHANGED err
       \/ MayFail /\ pc' \in {"written", Failed} /\ err' = 1
    /\ UNCHANGED <<job, driverVars, driveVars, copyVars>>

\* The reader puts a block into the buffer.  On the fly it comes from the
\* pipe; behind the end of the data a missing audio block is padded, a
\* missing data block is an error.
InputLeftMutant == Len(todo) < BufferBlocks
InputLeft == input < Length /\ Len(todo) < BufferBlocks
EndOfDataMutant == pipe = <<>>
EndOfData == pipe = <<>> /\ writers = {}
Deliver ==
    /\ pc = "fifo" /\ InputLeft
    /\ \/ /\ job.command # "fly"
          /\ todo' = Append(todo, Data(input + 1)) /\ UNCHANGED pipe
       \/ /\ job.command = "fly" /\ pipe # <<>>
          /\ todo' = Append(todo, Head(pipe)) /\ pipe' = Tail(pipe)
       \/ /\ job.command = "fly" /\ EndOfData /\ job.audio
          /\ todo' = Append(todo, Pad) /\ UNCHANGED pipe
    /\ input' = input + 1
    /\ UNCHANGED <<progVars, diskInfo, lba, sent, driveVars, image, child, produced, writers, stdin, refused, checked>>

ReaderReports ==
    /\ pc = "fifo" /\ InputLeft
    /\ pc' = Failed /\ err' = 1
    /\ UNCHANGED <<job, driverVars, driveVars, copyVars>>
DataMissing == job.command = "fly" /\ EndOfData /\ ~job.audio /\ ReaderReports
DeliverFails == MayFail /\ ReaderReports

\* A buffer is written, or there is none any more.
TakeBuffer ==
    /\ pc = "fifo" /\ ~InputLeft
    /\ pc' = IF todo = <<>> THEN "finishDao" ELSE "write"
    /\ UNCHANGED <<job, err, driverVars, driveVars, copyVars>>

\* The writer releases the buffer and goes on, unless it was told to quit.
ReleaseBuffer ==
    /\ pc = "released"
    /\ \/ pc' = "fifo" /\ UNCHANGED err
       \/ MayFail /\ pc' = Failed /\ err' = 1
    /\ UNCHANGED <<job, driverVars, driveVars, copyVars>>
-----------------------------------------------------------------------------
(* After the recording.                                                    *)

\* rezeroUnit() and preventMediumRemoval(0), for better or worse.
AfterWriteMutant == IF err = 0 THEN "unlock" ELSE "exit"
AfterWrite == "unlock"
Written ==
    /\ Goto("written", AfterWrite)
    /\ UNCHANGED <<job, err, driverVars, driveVars, copyVars>>

AfterUnlock == IF err' = 0 /\ job.eject THEN "eject"
               ELSE IF job.command = "copy" THEN "removeImage"
               ELSE IF job.command = "fly" THEN "cleanup" ELSE "exit"
Unlock ==
    /\ pc = "unlock"
    /\ \/ Prevent(FALSE) /\ UNCHANGED <<err, refused>>
       \/ (MayFail \/ ~Responsive) /\ err' = 1 /\ refused' = TRUE /\ UNCHANGED driveVars
    /\ pc' = AfterUnlock
    /\ UNCHANGED <<job, driverVars, input, image, child, pipe, produced, writers, stdin, checked>>

\* loadUnload(1), whose result does not matter.
EjectMedium ==
    /\ pc = "eject"
    /\ IF job.eject THEN Eject ELSE UNCHANGED driveVars
    /\ pc' = IF job.command = "copy" THEN "removeImage" ELSE IF job.command = "fly" THEN "cleanup" ELSE "exit"
    /\ UNCHANGED <<job, err, driverVars, copyVars>>

RemoveImage ==
    /\ Goto("removeImage", "exit")
    /\ image' = IF job.keep THEN image ELSE "removed"
    /\ UNCHANGED <<job, err, driverVars, driveVars, input, child, pipe, produced, writers, stdin, refused, checked>>

\* fail: of copyCdOnTheFly(): kill(), wait(), and the files as they were.
KillReader == IF child # "none" THEN "reaped" ELSE child
Cleanup ==
    /\ Goto("cleanup", "exit")
    /\ child' = KillReader /\ stdin' = "terminal" /\ writers' = {} /\ pipe' = <<>>
    /\ UNCHANGED <<job, err, driverVars, driveVars, input, image, produced, refused, checked>>
-----------------------------------------------------------------------------
(* The reader process: readDisk() into the pipe, and a sleep until it is   *)
(* killed.                                                                 *)

ChildReads ==
    /\ child = "reading" /\ ~Ended /\ produced < Length /\ Len(pipe) < PipeBlocks
    /\ pipe' = Append(pipe, Data(produced + 1)) /\ produced' = produced + 1
    /\ UNCHANGED <<progVars, driverVars, driveVars, input, image, child, writers, stdin, refused, checked>>

ChildEnds ==
    /\ child = "reading" /\ ~Ended
    /\ produced = Length \/ MayFail
    /\ child' = "sleeping" /\ writers' = writers \ {"child"}
    /\ UNCHANGED <<progVars, driverVars, driveVars, input, image, pipe, produced, stdin, refused, checked>>
-----------------------------------------------------------------------------
(* SIGINT ends the program, except in writeDiskAtOnce() after it has        *)
(* allocated the buffers and before it returns.                            *)

Shielded == pc \in {"initDao", "setSpeed", "diskInfo", "reader", "startDao", "calibrate", "cueSheet",
                    "leadIn", "pregap", "fifo", "write", "released", "finishDao", "checkReady",
                    "flushAgain", "abortDao"}
Interrupt ==
    /\ MayFail /\ ~Ended /\ (~Shielded \/ job.command = "unlock")
    /\ pc' = "killed"
    /\ writers' = writers \ {"parent"}
    /\ UNCHANGED <<job, err, driverVars, driveVars, input, image, child, pipe, produced, stdin, refused, checked>>

CommandNext ==
    \/ Setup \/ ReadDisk \/ CheckToc \/ SwapMedium \/ Swapped \/ AskMedium
    \/ CreatePipe \/ ForkReader \/ CloseWriteEnd \/ DupStdin \/ Lock
    \/ GetSharedMemory \/ AskStart \/ StartReader \/ Deliver \/ DataMissing \/ TakeBuffer \/ ReleaseBuffer
    \/ Written \/ Unlock \/ EjectMedium \/ RemoveImage \/ Cleanup
Program == CommandNext \/ (DriverNext /\ UNCHANGED copyVars)
Burns == BurnOne /\ UNCHANGED <<progVars, driverVars, copyVars>>
Person == ~Ended /\ CloseTray /\ UNCHANGED <<progVars, driverVars, copyVars>>
Reader == ChildReads \/ ChildEnds
Done == Ended /\ UNCHANGED vars

Next ==
    \/ CommandNext
    \/ DriverNext /\ UNCHANGED copyVars
    \/ Burns
    \/ ~Ended /\ (BurningFails \/ OpenTray) /\ UNCHANGED <<progVars, driverVars, copyVars>>
    \/ Person
    \/ AnotherMedium
    \/ Reader
    \/ DeliverFails
    \/ Interrupt
    \/ Done

Spec == Init /\ [][Next]_vars

\* The program and its reader process go on (but no file need fail), the drive burns, a person who has
\* opened the tray closes it, and one who is asked for a medium again and again
\* inserts, at last, one that will do and that the drive recognizes.
Helps == AnotherMedium /\ Usable(Told(medium'))
Recognized == AskMedium /\ pc' = "lock"
FairSpec == Spec /\ WF_vars(Program \/ Burns) /\ WF_vars(Reader) /\ WF_vars(Person)
                 /\ SF_vars(Helps) /\ SF_vars(Recognized)
-----------------------------------------------------------------------------
(* Properties.                                                             *)

TypeOK ==
    /\ job \in Jobs /\ err \in {0, 1}
    /\ healthy \in BOOLEAN /\ tray \in {"in", "out"} /\ locked \in BOOLEAN /\ testWrite \in BOOLEAN
    /\ medium \in Media \cup {Blank} /\ swaps \in 0 .. MaxSwaps
    /\ next \in Int /\ last \in Int /\ lba \in Int /\ deferred \in BOOLEAN
    /\ Len(cache) <= CacheBlocks + 2 /\ Len(pipe) <= PipeBlocks
    /\ input \in 0 .. Length /\ produced \in 0 .. Length
    /\ image \in {"none", "there", "removed"} /\ child \in {"none", "reading", "sleeping", "reaped"}
    /\ writers \subseteq {"parent", "child"} /\ stdin \in {"terminal", "pipe"}

Records == job.command \in {"write", "copy", "fly"}
TextBlocks == IF job.cdText THEN LeadInBlocks ELSE 0
SessionBlocks == TextBlocks + Pregap + Length

\* The i-th block of a session: CD-TEXT, pre-gap, image, without a gap in the
\* addresses.
Wanted(i) ==
    IF i <= TextBlocks THEN <<i - 1 - Pregap - LeadInBlocks, Text>>
    ELSE LET k == i - TextBlocks - Pregap
         IN  <<medium.start + k - 1, IF k <= 0 THEN ZeroBlock ELSE Data(k)>>
OnlyPadded(i, block) ==
    /\ job.command = "fly" /\ i - TextBlocks - Pregap > produced
    /\ block = <<Wanted(i)[1], Pad>>

\* However often the drive has no room, writeData() sends the blocks of the
\* session in order, each once and at its address on the medium that is in the
\* drive now; on the fly only what the reader process has not read is padded.
SessionIsImage ==
    [][\A i \in Len(sent) + 1 .. Len(sent') : sent'[i] = Wanted(i) \/ OnlyPadded(i, sent'[i])]_vars

\* A command that reports success has had the whole session accepted, and has
\* waited for the end of burning if nothing went wrong.
SuccessIsComplete ==
    pc = "exit" /\ err = 0 /\ Records =>
        /\ Len(sent) = SessionBlocks
        /\ healthy /\ ~job.simulate =>
            burned = Append([i \in 1 .. SessionBlocks |-> sent[i][2]], LeadOut)

\* A full buffer, an empty pipe or a long burn is not an error: a command fails
\* without a fault only if the medium is not fit for it.
FailureHasReason ==
    pc = "exit" /\ err = 1 /\ healthy => ~Usable(Told(medium)) \/ (job.oneDrive /\ medium.empty)

\* Nobody can take the medium while the drive waits for blocks of the session.
MediumStays == [][tray = "in" /\ tray' = "out" => last = NoSession]_vars

\* Every way out of a command, an interrupt too, leaves the drive without an open
\* session.  One that is not killed undoes all it has done: the medium can be
\* taken unless the drive refused that, the reader process is gone and waited
\* for, stdin and the pipe are as before, and the image is gone once the
\* recording was tried.
LeavesNothingBehind ==
    /\ Ended => last = NoSession
    /\ pc = "exit" =>
        /\ locked => refused
        /\ child \in {"none", "reaped"} /\ stdin = "terminal" /\ writers = {}
        /\ image = "there" => job.keep \/ checked

\* A simulation changes nothing on the medium, whatever diskInfo() and earlier
\* commands have done to the write parameters.
SimulationBurnsNothing == Records /\ job.simulate => burned = <<>>

\* Every command ends: behind "long write in progress", the wait for the end of
\* burning, the end of the data in the pipe and the question for a medium.
CommandEnds == <>Ended
=============================================================================
