-------------------------------- MODULE Dao --------------------------------
(***************************************************************************)
(* dao/dao.cc: disc-at-once writing.  A reader (thread or child process)   *)
(* fills a ring of buffers with encoded blocks of the TOC, the writer      *)
(* takes them out and sends them to the recorder.  writeDiskAtOnce() sets  *)
(* both up, runs the writer in its own thread of control, and tears both   *)
(* down.  One action is one access to the memory the two share, or one     *)
(* call into the driver.                                                   *)
(*                                                                         *)
(* Sample data is abstracted to the number of the block it belongs to:     *)
(* block k of the image is the k-th block of the concatenated tracks.      *)
(***************************************************************************)
EXTENDS Integers, Sequences

CONSTANTS
    NTracks,        \* number of tracks of the TOC
    TrackStart,     \* 1..NTracks+1 -> first block of a track; the last entry is the TOC's length
    TrackType,      \* 1..NTracks -> track mode
    SubChanType,    \* 1..NTracks -> sub-channel mode
    BufferSize,     \* BUFFER_SIZE: blocks per buffer
    MinNofBuffers,  \* the lower limit writeDiskAtOnce() puts on the FIFO (10)
    FifoBuffers,    \* option --buffers
    BlocksPerWrite, \* blocksPerWrite_: blocks per WRITE command
    StartLba,       \* thisSessionLba of the driver's disk info
    FirstTrackNo,   \* firstTrackNo() of the TOC, 0 if it is not chosen
    ReadTest,       \* the read test: no driver, test mode
    EncodeAll,      \* encodingMode() = 0: every block is encoded as an audio block
    Threads,        \* built with USE_POSIX_THREADS, else the reader is a child process
    Ordered,        \* the reader's stores become visible in program order
    OtherChild      \* the process has another child, the reader of an on-the-fly copy

TocLength == TrackStart[NTracks + 1]
NofBuffers == IF FifoBuffers < MinNofBuffers THEN MinNofBuffers ELSE FifoBuffers
Tracks == 1 .. NTracks
NoBlock == -1

ASSUME TocAssumption ==
    /\ NTracks \in Nat \ {0}
    /\ TrackStart \in [1 .. NTracks + 1 -> Nat]
    /\ TrackStart[1] = 0
    /\ \A s, t \in 1 .. NTracks + 1 : s < t => TrackStart[s] < TrackStart[t]
    /\ DOMAIN TrackType = Tracks
    /\ DOMAIN SubChanType = Tracks
ASSUME BufferAssumption ==
    /\ BufferSize \in Nat \ {0}
    /\ MinNofBuffers \in Nat \ {0}
    /\ FifoBuffers \in Int
    /\ BlocksPerWrite \in Nat \ {0}
ASSUME SessionAssumption == StartLba \in Int /\ FirstTrackNo \in Nat
ASSUME BuildAssumption ==
    /\ {ReadTest, EncodeAll, Threads, Ordered, OtherChild} \subseteq BOOLEAN
    /\ Threads => ~OtherChild \* the thread build has no wait3() another child could disturb

SessionStart == IF ReadTest THEN 0 ELSE StartLba
EncodedStartMutant == SessionStart
EncodedStart == SessionStart + 150
FirstNumber == IF FirstTrackNo = 0 THEN 1 ELSE FirstTrackNo
WriteMode(t) == IF EncodeAll THEN "AUDIO" ELSE TrackType[t]
SmallerOf(a, b) == IF a < b THEN a ELSE b

VARIABLES
    \* BufferHeader, the memory reader and writer share
    buffersRead, buffersWritten, buffersFilled,
    readerFinished, readerTerminated, terminateReader,
    buffers,            \* 0..NofBuffers-1 -> Buffer
    memory,             \* "none", "allocated", "released"
    \* reader()
    rpc,                \* where the reader is
    reader,             \* the reader as the system sees it: "none", "running", "exited", "reaped"
    rTrack, rTact,      \* current track, number of its blocks already read
    rLeft,              \* length: blocks of the TOC still to be put into the ring
    rLba,               \* lba: address encoded into the next block's sector header
    rFirst, rNewTrack,  \* first, newTrack
    put,                \* the buffer the reader is storing
    pending,            \* the parts of it that are not in memory yet
    \* writer() and writeDiskAtOnce()
    wpc, wLba, wBuf, wPos, actTrackNr, blkCount,
    ret,                \* what writer() returned
    err,
    started,            \* threadStarted, in the process build pid # 0
    \* the rest of the process and the recorder
    TERMINATE, otherChild,
    killed,             \* whom kill() was sent to: "nobody", "reader", "everybody"
    session, disc

headerVars == <<buffersRead, buffersWritten, buffersFilled, readerFinished,
                readerTerminated, terminateReader>>
readerVars == <<rTrack, rTact, rLeft, rLba, rFirst, rNewTrack, put>>
writerVars == <<wLba, wBuf, wPos, actTrackNr, blkCount>>
resultVars == <<ret, err, started>>
driveVars  == <<session, disc>>
vars == <<headerVars, buffers, memory, rpc, reader, readerVars, pending,
          wpc, writerVars, resultVars, TERMINATE, otherChild, killed, driveVars>>

-----------------------------------------------------------------------------
(* The shared buffers.  The memory is fresh from the system: all zero.     *)

Block(k, address) == [blk |-> k, msf |-> address]
Fields(len, mode, sub, nr) == [bufLen |-> len, mode |-> mode, sub |-> sub, trackNr |-> nr]
ZeroFields == Fields(0, "ZERO", "ZERO", 0)
FreshBuffer == [data |-> [i \in 0 .. BufferSize - 1 |-> Block(NoBlock, 0)],
                fields |-> ZeroFields]
NothingPut == [first |-> 0, n |-> 0, msf |-> 0, fields |-> ZeroFields]

ReadSlot == buffersRead % NofBuffers       \* the buffer the reader fills
WriteSlot == buffersWritten % NofBuffers   \* the buffer the writer takes
Buffered == buffersRead - buffersWritten
FullMutant == Buffered > NofBuffers
Full == Buffered = NofBuffers

Init ==
    /\ buffersRead = 0 /\ buffersWritten = 0 /\ buffersFilled = 0
    /\ readerFinished = 0 /\ readerTerminated = 0 /\ terminateReader = 0
    /\ buffers = [s \in 0 .. NofBuffers - 1 |-> FreshBuffer]
    /\ memory = "none"
    /\ rpc = "open" /\ reader = "none"
    /\ rTrack = 1 /\ rTact = 0 /\ rLeft = TocLength /\ rLba = EncodedStart
    /\ rFirst = NofBuffers /\ rNewTrack = 1
    /\ put = NothingPut /\ pending = {}
    /\ wpc = "alloc" /\ wLba = SessionStart /\ wBuf = ZeroFields /\ wPos = 0
    /\ actTrackNr = 0 /\ blkCount = 0
    /\ ret = 0 /\ err = 0 /\ started = 0
    /\ TERMINATE = 0
    /\ otherChild = IF OtherChild THEN "running" ELSE "none"
    /\ killed = "nobody"
    /\ session = "none" /\ disc = <<>>

-----------------------------------------------------------------------------
(* reader()                                                                *)

ReaderUnchanged == UNCHANGED <<memory, wpc, writerVars, resultVars, TERMINATE, otherChild, killed, driveVars>>

TrackLeft == TrackStart[rTrack + 1] - TrackStart[rTrack] - rTact

\* trackNr of a buffer: not 0 if a new track starts with it.
StartedTrackMutant == IF rTrack = 1 /\ rNewTrack = 1 THEN FirstNumber ELSE 0
StartedTrack == IF rNewTrack = 1 THEN FirstNumber + rTrack - 1 ELSE 0

\* openData() of the first track.
OpenFirstTrack ==
    /\ reader = "running" /\ rpc = "open"
    /\ rpc' \in {"read", "fail"}
    /\ UNCHANGED <<headerVars, buffers, reader, readerVars, pending>>
    /\ ReaderUnchanged

\* readData() returns 0: the track is exhausted, go on with the next one.
NextTrack ==
    /\ reader = "running" /\ rpc = "read" /\ TrackLeft = 0
    /\ \/ rpc' = "fail" /\ UNCHANGED readerVars
       \/ /\ rpc' = "read"
          /\ rTrack' = rTrack + 1 /\ rTact' = 0 /\ rNewTrack' = 1
          /\ UNCHANGED <<rLeft, rLba, rFirst, put>>
    /\ UNCHANGED <<headerVars, buffers, reader, pending>>
    /\ ReaderUnchanged

\* readData() reads and encodes blocks into the buffer, the reader swaps
\* samples and sets the buffer's fields: the stores are issued.
ReadBuffer ==
    /\ reader = "running" /\ rpc = "read" /\ TrackLeft > 0 /\ pending = {}
    /\ LET n == SmallerOf(SmallerOf(rLeft, BufferSize), TrackLeft)
       IN /\ put' = [first |-> TrackStart[rTrack] + rTact, n |-> n, msf |-> rLba,
                     fields |-> Fields(n, WriteMode(rTrack), SubChanType[rTrack], StartedTrack)]
          /\ rLba' = rLba + n
          /\ rTact' = rTact + n
    /\ pending' = {"data", "fields"}
    /\ rpc' = "publish"
    /\ UNCHANGED <<headerVars, buffers, reader, rTrack, rLeft, rFirst, rNewTrack>>
    /\ ReaderUnchanged

\* Reading the track's data fails.
ReadFails ==
    /\ reader = "running" /\ rpc = "read" /\ TrackLeft > 0
    /\ rpc' = "fail"
    /\ UNCHANGED <<headerVars, buffers, reader, readerVars, pending>>
    /\ ReaderUnchanged

\* One part of the stored buffer arrives in memory: in program order that is
\* before buffersRead counts the buffer, without it maybe after.
StoreSlot == (IF rpc \in {"publish", "publishEnd"} THEN buffersRead ELSE buffersRead - 1) % NofBuffers
NewData(old) == [i \in 0 .. BufferSize - 1 |->
                   IF i < put.n THEN Block(put.first + i, put.msf + i) ELSE old[i]]
StoreArrives ==
    \E part \in pending :
        /\ pending' = pending \ {part}
        /\ buffers' = IF part = "fields" THEN [buffers EXCEPT ![StoreSlot].fields = put.fields]
                      ELSE [buffers EXCEPT ![StoreSlot].data = NewData(@)]
        /\ UNCHANGED <<headerVars, rpc, reader, readerVars>>
        /\ ReaderUnchanged

\* first: the buffers missing until the ring is full for the first time.
LessFirstMutant == rFirst - 1
LessFirst == IF rFirst > 0 THEN rFirst - 1 ELSE 0
FirstFillMutant(left) == rFirst > 0 /\ (rFirst = 2 \/ left = 0)
FirstFill(left) == rFirst > 0 /\ (rFirst = 1 \/ left = 0)

\* buffersRead += 1; length -= rn; if (first > 0) first--
Publish ==
    /\ reader = "running" /\ rpc = "publish"
    /\ Ordered => pending = {}
    /\ buffersRead' = buffersRead + 1
    /\ rLeft' = rLeft - put.n
    /\ rFirst' = LessFirst
    /\ rpc' = IF FirstFill(rLeft - put.n) THEN "filled" ELSE "full"
    /\ UNCHANGED <<buffersWritten, buffersFilled, readerFinished, readerTerminated,
                   terminateReader, buffers, reader, rTrack, rTact, rLba, rNewTrack, put, pending>>
    /\ ReaderUnchanged

\* The ring is full for the first time, or the whole TOC is in it.
SetFilled ==
    /\ reader = "running" /\ rpc = "filled"
    /\ buffersFilled' = 1
    /\ rpc' = "full"
    /\ UNCHANGED <<buffersRead, buffersWritten, readerFinished, readerTerminated,
                   terminateReader, buffers, reader, readerVars, pending>>
    /\ ReaderUnchanged

\* The reader sleeps while the ring is full; a step is the poll that ends it.
RingHasRoom ==
    /\ reader = "running" /\ rpc = "full"
    /\ ~Full \/ terminateReader # 0
    /\ rNewTrack' = 0
    /\ rpc' = "again"
    /\ UNCHANGED <<headerVars, buffers, reader, rTrack, rTact, rLeft, rLba, rFirst, put, pending>>
    /\ ReaderUnchanged

ReadOnMutant == rLeft > BufferSize /\ terminateReader = 0
ReadOn == rLeft > 0 /\ terminateReader = 0
ReadOnOrFinish ==
    /\ reader = "running" /\ rpc = "again"
    /\ rpc' = IF ReadOn THEN "read" ELSE "finish"
    /\ UNCHANGED <<headerVars, buffers, reader, readerVars, pending>>
    /\ ReaderUnchanged

SetFinished ==
    /\ reader = "running" /\ rpc = "finish"
    /\ readerFinished' = 1
    /\ rpc' = "mark"
    /\ UNCHANGED <<buffersRead, buffersWritten, buffersFilled, readerTerminated,
                   terminateReader, buffers, reader, readerVars, pending>>
    /\ ReaderUnchanged

\* Unless it was told to stop the reader appends an empty buffer as end
\* marker; only its length and track number are stored.
EndMarkerNeededMutant == FALSE
EndMarkerNeeded == terminateReader = 0
MarkEnd ==
    /\ reader = "running" /\ rpc = "mark" /\ pending = {}
    /\ IF EndMarkerNeeded
       THEN /\ put' = [put EXCEPT !.n = 0, !.fields = [buffers[ReadSlot].fields EXCEPT
                                                         !.bufLen = 0, !.trackNr = 0]]
            /\ pending' = {"fields"}
            /\ rpc' = "publishEnd"
       ELSE rpc' = "return" /\ UNCHANGED <<put, pending>>
    /\ UNCHANGED <<headerVars, buffers, reader, rTrack, rTact, rLeft, rLba, rFirst, rNewTrack>>
    /\ ReaderUnchanged

PublishEnd ==
    /\ reader = "running" /\ rpc = "publishEnd"
    /\ Ordered => pending = {}
    /\ buffersRead' = buffersRead + 1
    /\ rpc' = "return"
    /\ UNCHANGED <<buffersWritten, buffersFilled, readerFinished, readerTerminated,
                   terminateReader, buffers, reader, readerVars, pending>>
    /\ ReaderUnchanged

\* The reader thread ends; a reader process sleeps until it is killed.
ReturnFromReader ==
    /\ Threads /\ reader = "running" /\ rpc = "return" /\ pending = {}
    /\ reader' = "exited"
    /\ UNCHANGED <<headerVars, buffers, rpc, readerVars, pending>>
    /\ ReaderUnchanged

\* fail: readerTerminated = 1, and after it the end of the thread or exit(1).
ReaderFails ==
    /\ reader = "running" /\ rpc = "fail"
    /\ readerTerminated' = 1
    /\ rpc' = "failed"
    /\ UNCHANGED <<buffersRead, buffersWritten, buffersFilled, readerFinished,
                   terminateReader, buffers, reader, readerVars, pending>>
    /\ ReaderUnchanged

FailedReaderExits ==
    /\ reader = "running" /\ rpc = "failed" /\ pending = {}
    /\ reader' = "exited"
    /\ UNCHANGED <<headerVars, buffers, rpc, readerVars, pending>>
    /\ ReaderUnchanged

ReaderNext ==
    \/ OpenFirstTrack \/ NextTrack \/ ReadBuffer \/ ReadFails \/ StoreArrives
    \/ Publish \/ SetFilled \/ RingHasRoom \/ ReadOnOrFinish \/ SetFinished
    \/ MarkEnd \/ PublishEnd \/ ReturnFromReader \/ ReaderFails \/ FailedReaderExits

-----------------------------------------------------------------------------
(* writeDiskAtOnce() up to the writer.                                     *)

WriterUnchanged == UNCHANGED <<buffers, rpc, readerVars, pending, TERMINATE, otherChild, killed>>

\* The ring is allocated, the header zeroed (as Init has it) and the signal
\* handlers are installed; or there is no memory.
GetSharedMemory ==
    /\ wpc = "alloc"
    /\ \/ memory' = "allocated" /\ wpc' = "initDao" /\ UNCHANGED err
       \/ wpc' = "returned" /\ err' = 1 /\ UNCHANGED memory
    /\ UNCHANGED <<headerVars, reader, writerVars, ret, started, driveVars>>
    /\ WriterUnchanged

InitDao ==
    /\ wpc = "initDao"
    /\ \/ ReadTest /\ wpc' = "create" /\ UNCHANGED <<err, session>>
       \/ ~ReadTest /\ wpc' = "create" /\ session' = "ready" /\ UNCHANGED err
       \/ ~ReadTest /\ wpc' = "cleanup" /\ err' = 1 /\ UNCHANGED session
    /\ UNCHANGED <<headerVars, memory, reader, writerVars, ret, started, disc>>
    /\ WriterUnchanged

\* pthread_create() or fork(); a fork() that fails leaves -1 in pid.
StartReader ==
    /\ wpc = "create"
    /\ \/ reader' = "running" /\ started' = 1 /\ wpc' = "waitFilled" /\ UNCHANGED err
       \/ /\ wpc' = "cleanup" /\ err' = 1 /\ UNCHANGED reader
          /\ started' = IF Threads THEN 0 ELSE -1
    /\ UNCHANGED <<headerVars, memory, writerVars, ret, driveVars>>
    /\ WriterUnchanged

-----------------------------------------------------------------------------
(* writer()                                                                *)

WriterReturns(r) == wpc' = "switch" /\ ret' = r

\* while (header->buffersFilled == 0) sleep(1)
TestFilled ==
    /\ wpc = "waitFilled"
    /\ wpc' = IF buffersFilled = 0 THEN "pollFilled" ELSE "startDao"
    /\ UNCHANGED <<headerVars, memory, reader, writerVars, resultVars, driveVars>>
    /\ WriterUnchanged

\* A poll in one of the wait loops: readerTerminated first, then, in the
\* process build, wait3() for any child that has exited.
ReaderFailedMutant == FALSE
ReaderFailed == readerTerminated # 0
PollReader(pc, again) ==
    /\ wpc = pc
    /\ \/ ReaderFailed /\ WriterReturns(1) /\ UNCHANGED <<reader, otherChild>>
       \/ /\ ~ReaderFailed /\ ~Threads
          /\ \/ reader = "exited" /\ reader' = "reaped" /\ UNCHANGED otherChild
             \/ otherChild = "exited" /\ otherChild' = "reaped" /\ UNCHANGED reader
          /\ WriterReturns(1)
       \/ /\ ~ReaderFailed
          /\ Threads \/ (reader # "exited" /\ otherChild # "exited")
          /\ wpc' = again /\ UNCHANGED <<ret, reader, otherChild>>
    /\ UNCHANGED <<headerVars, memory, writerVars, err, started, driveVars,
                   buffers, rpc, readerVars, pending, TERMINATE, killed>>

PollWhileFilling == PollReader("pollFilled", "waitFilled")
PollWhileEmpty == PollReader("poll", "wait")

\* The lead-in; without a driver there is none.
StartDao ==
    /\ wpc = "startDao"
    /\ IF ReadTest THEN wpc' = "wait" /\ UNCHANGED <<ret, session>>
       ELSE /\ session' = "open"
            /\ (wpc' = "wait" /\ UNCHANGED ret) \/ WriterReturns(2)
    /\ UNCHANGED <<headerVars, memory, reader, writerVars, err, started, disc>>
    /\ WriterUnchanged

\* while (header->buffersWritten == header->buffersRead)
TestEmpty ==
    /\ wpc = "wait"
    /\ wpc' = IF buffersWritten = buffersRead THEN "poll" ELSE "take"
    /\ UNCHANGED <<headerVars, memory, reader, writerVars, resultVars, driveVars>>
    /\ WriterUnchanged

\* The buffer's fields are read; an empty buffer is the end of the data.
TakeBuffer ==
    /\ wpc = "take"
    /\ LET fields == buffers[WriteSlot].fields
       IN /\ wBuf' = fields
          /\ wPos' = 0
          /\ wpc' = IF fields.bufLen = 0 THEN "finishDao" ELSE "write"
          /\ blkCount' = blkCount + fields.bufLen
          /\ actTrackNr' = IF fields.bufLen # 0 /\ fields.trackNr > 0
                           THEN fields.trackNr ELSE actTrackNr
    /\ UNCHANGED <<headerVars, memory, reader, wLba, resultVars, driveVars>>
    /\ WriterUnchanged

\* What the recorder gets for block i of the buffer with a WRITE to lba.
Written(lba, i) == [lba |-> lba, block |-> buffers[WriteSlot].data[i],
                    mode |-> wBuf.mode, sub |-> wBuf.sub]

\* One WRITE command of the driver's writeData(): it may fail, whatever
\* commands went before it.
WriteBlocks ==
    /\ wpc = "write" /\ ~ReadTest
    /\ \/ LET n == SmallerOf(BlocksPerWrite, wBuf.bufLen - wPos)
          IN /\ disc' = disc \o [j \in 1 .. n |-> Written(wLba + j - 1, wPos + j - 1)]
             /\ wLba' = wLba + n
             /\ wPos' = wPos + n
             /\ wpc' = IF wPos' = wBuf.bufLen THEN "advance" ELSE "write"
             /\ UNCHANGED ret
       \/ WriterReturns(2) /\ UNCHANGED <<disc, wLba, wPos>>
    /\ UNCHANGED <<headerVars, memory, reader, wBuf, actTrackNr, blkCount, err, started, session>>
    /\ WriterUnchanged

SkipBlocks ==
    /\ wpc = "write" /\ ReadTest
    /\ wpc' = "advance"
    /\ UNCHANGED <<headerVars, memory, reader, writerVars, resultVars, driveVars>>
    /\ WriterUnchanged

\* header->buffersWritten += 1; while (!TERMINATE)
ReleaseBuffer ==
    /\ wpc = "advance"
    /\ buffersWritten' = buffersWritten + 1
    /\ IF TERMINATE = 0 THEN wpc' = "wait" /\ UNCHANGED ret ELSE WriterReturns(2)
    /\ UNCHANGED <<buffersRead, buffersFilled, readerFinished, readerTerminated, terminateReader,
                   memory, reader, writerVars, err, started, driveVars>>
    /\ WriterUnchanged

\* The lead-out.
FinishDao ==
    /\ wpc = "finishDao"
    /\ \/ ReadTest /\ WriterReturns(0) /\ UNCHANGED session
       \/ ~ReadTest /\ WriterReturns(0) /\ session' = "closed"
       \/ ~ReadTest /\ WriterReturns(2) /\ UNCHANGED session
    /\ UNCHANGED <<headerVars, memory, reader, writerVars, err, started, disc>>
    /\ WriterUnchanged

-----------------------------------------------------------------------------
(* writeDiskAtOnce() after the writer.                                     *)

\* switch (writer(...)) and abortDao() if it failed.
MustAbortMutant == ret = 2 /\ ~ReadTest
MustAbort == ret # 0 /\ ~ReadTest
SwitchOnResult ==
    /\ wpc = "switch"
    /\ err' = IF ret = 0 THEN 0 ELSE 1
    /\ started' = IF ~Threads /\ ret = 1 THEN 0 ELSE started
    /\ session' = IF MustAbort THEN "aborted" ELSE session
    /\ wpc' = "cleanup"
    /\ UNCHANGED <<headerVars, memory, reader, writerVars, ret, disc>>
    /\ WriterUnchanged

AfterStopMutant == "release"
AfterStop == IF started # 0 THEN "join" ELSE "release"

\* fail: the thread is told to end.
StopThread ==
    /\ Threads /\ wpc = "cleanup"
    /\ terminateReader' = IF started # 0 THEN 1 ELSE terminateReader
    /\ wpc' = AfterStop
    /\ UNCHANGED <<buffersRead, buffersWritten, buffersFilled, readerFinished, readerTerminated,
                   memory, reader, writerVars, resultVars, driveVars>>
    /\ WriterUnchanged

\* fail: if (pid != 0) kill(pid, SIGKILL), which goes to every process there
\* is if pid is -1.
Kill(process) == IF process = "running" THEN "exited" ELSE process
KillProcess ==
    /\ ~Threads /\ wpc = "cleanup"
    /\ \/ started = 0 /\ UNCHANGED <<reader, otherChild, killed>>
       \/ started = 1 /\ reader' = Kill(reader) /\ killed' = "reader" /\ UNCHANGED otherChild
       \/ started = -1 /\ otherChild' = Kill(otherChild) /\ killed' = "everybody" /\ UNCHANGED reader
    /\ wpc' = AfterStop
    /\ UNCHANGED <<headerVars, memory, writerVars, resultVars, driveVars,
                   buffers, rpc, readerVars, pending, TERMINATE>>

\* pthread_join(); or wait() for any child, which fails if there is none.
JoinReader ==
    /\ wpc = "join"
    /\ \/ reader = "exited" /\ reader' = "reaped" /\ UNCHANGED otherChild
       \/ ~Threads /\ otherChild = "exited" /\ otherChild' = "reaped" /\ UNCHANGED reader
       \/ /\ {reader, otherChild} \subseteq {"none", "reaped"}
          /\ UNCHANGED <<reader, otherChild>>
    /\ wpc' = "release"
    /\ UNCHANGED <<headerVars, memory, writerVars, resultVars, driveVars,
                   buffers, rpc, readerVars, pending, TERMINATE, killed>>

ReleaseSharedMemory ==
    /\ wpc = "release"
    /\ memory' = "released"
    /\ wpc' = "returned"
    /\ UNCHANGED <<headerVars, reader, writerVars, resultVars, driveVars>>
    /\ WriterUnchanged

WriterNext ==
    \/ GetSharedMemory \/ InitDao \/ StartReader
    \/ TestFilled \/ PollWhileFilling \/ StartDao \/ TestEmpty \/ PollWhileEmpty
    \/ TakeBuffer \/ WriteBlocks \/ SkipBlocks \/ ReleaseBuffer \/ FinishDao
    \/ SwitchOnResult \/ StopThread \/ KillProcess \/ JoinReader \/ ReleaseSharedMemory

-----------------------------------------------------------------------------
(* The environment.                                                        *)

\* SIGQUIT or SIGTERM while terminationRequest() is installed.
TerminationRequest ==
    /\ wpc \notin {"alloc", "returned"} /\ TERMINATE = 0
    /\ TERMINATE' = 1
    /\ UNCHANGED <<headerVars, buffers, memory, rpc, reader, readerVars, pending,
                   wpc, writerVars, resultVars, otherChild, killed, driveVars>>

\* The process that reads the source of an on-the-fly copy dies.
OtherChildDies ==
    /\ otherChild = "running"
    /\ otherChild' = "exited"
    /\ UNCHANGED <<headerVars, buffers, memory, rpc, reader, readerVars, pending,
                   wpc, writerVars, resultVars, TERMINATE, killed, driveVars>>

Returned == wpc = "returned" /\ UNCHANGED vars

Next == ReaderNext \/ WriterNext \/ TerminationRequest \/ OtherChildDies \/ Returned

Spec == Init /\ [][Next]_vars

\* Reader and writer are scheduled, the driver's calls return, and so does
\* every read of track data.
FairSpec == Spec /\ WF_vars(ReaderNext) /\ WF_vars(StoreArrives) /\ WF_vars(WriterNext)

\* The same, but a read of track data may block for ever: STDIN or a FIFO on
\* which nothing arrives.
ReaderComputes ==
    \/ OpenFirstTrack \/ NextTrack \/ StoreArrives \/ Publish \/ SetFilled \/ RingHasRoom
    \/ ReadOnOrFinish \/ SetFinished \/ MarkEnd \/ PublishEnd \/ ReturnFromReader
    \/ ReaderFails \/ FailedReaderExits
SilentInputSpec == Spec /\ WF_vars(ReaderComputes) /\ WF_vars(WriterNext)

-----------------------------------------------------------------------------
(* The image of the TOC, and the properties.                               *)

TrackOf(k) == CHOOSE t \in Tracks : TrackStart[t] <= k /\ k < TrackStart[t + 1]
ImageBlock(k) == [lba |-> SessionStart + k, block |-> Block(k, SessionStart + 150 + k),
                  mode |-> WriteMode(TrackOf(k)), sub |-> SubChanType[TrackOf(k)]]
Image == [i \in 1 .. TocLength |-> ImageBlock(i - 1)]

FlagType == {0, 1}
ModeType == {WriteMode(t) : t \in Tracks} \cup {"ZERO"}
SubType == {SubChanType[t] : t \in Tracks} \cup {"ZERO"}
FieldsType == [bufLen : 0 .. BufferSize, mode : ModeType, sub : SubType, trackNr : Nat]
BlockType == [blk : Nat \cup {NoBlock}, msf : Int]

HeaderTypeOK ==
    /\ buffersRead \in Nat /\ buffersWritten \in Nat
    /\ buffersFilled \in FlagType /\ readerFinished \in FlagType
    /\ readerTerminated \in FlagType /\ terminateReader \in FlagType
BuffersTypeOK ==
    buffers \in [0 .. NofBuffers - 1 ->
                   [data : [0 .. BufferSize - 1 -> BlockType], fields : FieldsType]]
ReaderTypeOK ==
    /\ rpc \in {"open", "read", "publish", "filled", "full", "again", "finish", "mark",
                "publishEnd", "return", "fail", "failed"}
    /\ rTrack \in Tracks /\ rTact \in Nat /\ rLeft \in Nat /\ rLba \in Int
    /\ rFirst \in Nat /\ rNewTrack \in FlagType
    /\ put \in [first : Nat, n : 0 .. BufferSize, msf : Int, fields : FieldsType]
    /\ pending \subseteq {"data", "fields"}
WriterTypeOK ==
    /\ wpc \in {"alloc", "initDao", "create", "waitFilled", "pollFilled", "startDao", "wait",
                "poll", "take", "write", "advance", "finishDao", "switch", "cleanup", "join",
                "release", "returned"}
    /\ wLba \in Int /\ wBuf \in FieldsType /\ wPos \in 0 .. BufferSize
    /\ actTrackNr \in Nat /\ blkCount \in Nat
    /\ ret \in 0 .. 2 /\ err \in FlagType /\ started \in {-1, 0, 1}
ProcessTypeOK ==
    /\ memory \in {"none", "allocated", "released"}
    /\ reader \in {"none", "running", "exited", "reaped"}
    /\ otherChild \in {"none", "running", "exited", "reaped"}
    /\ TERMINATE \in FlagType
    /\ killed \in {"nobody", "reader", "everybody"}
    /\ session \in {"none", "ready", "open", "closed", "aborted"}
DiscType == Seq([lba : Int, block : BlockType, mode : ModeType, sub : SubType])

\* The values the variables of reader, writer and recorder take.
TypeOK == /\ HeaderTypeOK /\ BuffersTypeOK /\ ReaderTypeOK /\ WriterTypeOK /\ ProcessTypeOK
          /\ disc \in DiscType

WriterHoldsBuffer == wpc \in {"take", "write", "advance"}
ReaderFillsBuffer == reader = "running" /\ rpc \in {"read", "publish", "publishEnd"}

\* The ring never holds more than its buffers, and the buffer the reader is
\* filling is never the one the writer is reading: readData() stores into
\* the ring directly (dao.cc: buffers[buffersRead % nofBuffers]).
RingIsSafe ==
    /\ Buffered \in 0 .. NofBuffers
    /\ WriterHoldsBuffer /\ ReaderFillsBuffer => ReadSlot # WriteSlot

\* The recorder gets the blocks of the image, each once and in order, at the
\* address it was encoded for (sector header = address + 150), in the mode of
\* its track: the two lba counters and two mode variables, one on each side
\* of the ring, never come apart.
DiscIsImage == Len(disc) <= TocLength /\ \A i \in 1 .. Len(disc) : disc[i] = ImageBlock(i - 1)

\* writeDiskAtOnce() returns 0 only if every block was taken out of the ring
\* and, with a recorder, is on a closed disc.
SuccessIsComplete ==
    wpc = "returned" /\ err = 0 =>
        /\ blkCount = TocLength
        /\ ~ReadTest => session = "closed" /\ Len(disc) = TocLength

\* No return leaves the recorder in an open session: every failure after
\* startDao() was called is followed by abortDao().
NoSessionLeftOpen ==
    wpc = "returned" => session # "open" /\ (session = "aborted" => err = 1)

\* The memory of the ring is given back only when the reader thread is gone.
ReaderGoneBeforeRelease == memory = "released" => reader \in {"none", "reaped"}

\* The lead-in is not started before the ring is full or holds the whole
\* TOC (BufferHeader: "set to 1 by reader process when buffer is filled the
\* first time").
FullBeforeLeadIn == wpc = "startDao" => Buffered = NofBuffers \/ rLeft = 0

\* The track the writer announces is the track of the block it writes: the
\* newTrack flag reaches the writer with the track's first buffer.
AnnouncedTrackIsWritten ==
    wpc \in {"write", "advance"} =>
        actTrackNr = FirstNumber + TrackOf(blkCount - wBuf.bufLen) - 1

\* BufferHeader's comment on buffersRead: the "number of blocks that are read
\* and put to the buffer".  What the counter lets the writer take is there.
CountedBuffersArePut ==
    wpc = "write" =>
        \A i \in wPos .. wBuf.bufLen - 1 :
            buffers[WriteSlot].data[i] = ImageBlock(blkCount - wBuf.bufLen + i).block

\* What remains of that comment if the stores may become visible in any order
\* (buffersRead is a plain long, dao.cc increments it without a barrier): only
\* the buffer whose stores are under way can be counted and not there.  Every
\* other counted buffer holds blocks of the image in the mode of their track,
\* the next one goes on where it ends, and an empty one ends the TOC.
Landed(i) == pending = {} \/ i % NofBuffers # StoreSlot
FirstBlock(i) == LET b == buffers[i % NofBuffers]
                 IN IF i < buffersRead /\ b.fields.bufLen > 0 THEN b.data[0].blk ELSE TocLength - rLeft
LandedBuffersHoldImage ==
    \A i \in buffersWritten .. buffersRead - 1 :
        Landed(i) =>
            LET b == buffers[i % NofBuffers]
                n == b.fields.bufLen
            IN /\ \A j \in 0 .. n - 1 :
                    ImageBlock(FirstBlock(i) + j) =
                        [lba |-> SessionStart + (FirstBlock(i) + j), block |-> b.data[j],
                         mode |-> b.fields.mode, sub |-> b.fields.sub]
               /\ n = 0 => rLeft = 0
               /\ i + 1 = buffersRead \/ Landed(i + 1) => FirstBlock(i + 1) = FirstBlock(i) + n

\* Two expectations that the process build does not meet.
\* writeDiskAtOnce()'s reading of the writer's result 1: "error, reader process
\* terminated abnormally".  Another child that dies gives the same result.
ReturnOneMeansReaderEnded == wpc = "switch" /\ ret = 1 => reader # "running"

\* Its comment on value 2: "error, reader process must be terminated".  That
\* process, and no other, is killed; after a failed fork() it is kill(-1).
KillsReaderOnly == killed # "everybody"

\* "Process can be aborted with QUIT signal" (main.cc, before WRITE and
\* READ_TEST).
QuitIsHonoured == TERMINATE = 1 ~> wpc = "returned"

\* Seen from the caller, all of this is a burn session.
Burning == INSTANCE BurnSession WITH
    Device <- ~ReadTest, burned <- disc,
    result <- IF wpc # "returned" THEN "busy" ELSE IF err = 0 THEN "success" ELSE "failure"
BurnSessionAnswers == Burning!FairSpec
=============================================================================
