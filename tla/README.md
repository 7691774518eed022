# cdrdao: specifications, model checking and proofs

This directory holds TLA+ specifications of parts of cdrdao, the TLC
configurations that check them, and theorems that TLAPS proves about them.
`PROJECT.json` maps every definition to the lines of source it stands for.
Source paths below are relative to the root of the repository.

## 1. The system

| part | source | state | operations | interacts with |
|---|---|---|---|---|
| disc-at-once writing | `dao/dao.cc` | ring of buffers in shared memory, its counters and flags; position of the reader in the TOC, address counters of reader and writer | `writeDiskAtOnce()`, `reader()`, `writer()`, `terminationRequest()` | TocReader (reads blocks), the driver (session), signals, `main.cc` |
| recorder drivers | `dao/GenericMMC*.cc`, the models' files | session parameters, test-write bit, what is known of the medium | `initDao`, `startDao`, `writeData`, `finishDao`, `abortDao`, `blankDisk`, reading | the drive, which burns on its own, and the person at its tray |
| reading and analysis | `dao/CdrDriver.cc` | track infos of the disc, the TOC under construction | `readDiskToc`, `readDisk`, search for pre-gaps and index marks, `readDataTrack` with retries | drive, pipe of an on-the-fly copy |
| sub-channel encoding | `dao/PQChannelEncoder.cc`, `dao/SubChannel.cc` | place in the cue sheet, absolute and relative time, counters of the lead-in | `setCueSheet`, `encode` | raw writing drivers |
| TOC and tracks | `trackdb/Toc.cc`, `Track.cc`, `TrackData*.cc` | tracks; per track sub-tracks with padding, pre-gap, index increments, length | marker edits, cut, paste, append, insert; reading block by block | TOC files, both programs |
| TOC files, cue sheets | `trackdb/TocParser.g`, `Cue2Toc.cc`, `CueParser.cc` | the track being parsed | parse, print | |
| CD-TEXT, CDDB, conversion | `trackdb/CdText*.cc`, `dao/CdTextEncoder.cc`, `trackdb/Cddb.cc`, `Format*.cc`, `TempFileManager.cc` | packs; a connection; temporary files | encode; query; convert | network, libraries |
| command line | `dao/main.cc`, `Settings.cc` | options, devices, lock of the medium | read, write, copy, blank, ... | all of the above; `fork()` for an on-the-fly copy |
| gcdmaster | `gcdmaster/TocEdit.cc`, `TaskManager.*`, `SampleManager.cc`, `CdDevice.cc`, `ProcessMonitor.cc` | the edited TOC, the scrap, the waveform summary, a queue of jobs with a worker thread, the edit lock, child processes | edits, jobs with completions, device actions | toolkit main loop, cdrdao as a child |

What is hard, and the properties that make a part correct:

* *Disc-at-once writing.* Two threads (or processes) share a ring without a
  lock; a failure of either, a signal or a failing driver call can come at any
  point.  The recorder must get the image of the TOC, each block once and at
  its address; success must mean a closed disc; no way out may leave a session
  open, or free the ring under the reader; the caller must get an answer.
* *Editing.* A long sequence of legal edits makes tracks of many pieces, with
  padding in places where a freshly loaded disc has none.  Markers must stay
  ordered and inside their tracks, moving one must not move audio, cut and
  paste must be exact.
* *Reading and analysis.* Binary searches over a medium that answers
  unreliably, retries that must make progress, an end that may be run-out.
* *Sub-channels.* Times that count down in a pre-gap and up behind it.
* *gcdmaster.* Jobs finish in a worker while the user goes on; positions
  taken when a job was queued are used when it completes; the completion runs
  the main loop again.
* *A session at the recorder.* The drive burns while the host goes on, tells of
  errors late or never, and a person may exchange the medium; a command must
  lock and unlock it, close what it opened on every way out, and tell the truth.
* *Copying on the fly.* A child that fails looks like a short input; each
  process must close its end of the pipe.

The hazards are listed with their lines in `PROJECT.json`.

## 2. Modules

| module | what it is |
|---|---|
| `Dao` | `dao/dao.cc`: reader, writer, ring, `writeDiskAtOnce()` |
| `BurnSession` | what a caller of `writeDiskAtOnce()` may rely on (abstract) |
| `Dao_proofs` | theorems about `Dao`: types, ring and session; the image; the return value and the refinement of `BurnSession` |
| `Track` | `trackdb/Track.cc`: what the operations of a track compute |
| `TocEdit` | `trackdb/Toc.cc` and `gcdmaster/TocEdit.cc`: the edits as actions |
| `Track_proofs` | lemmas about the operations of `Track`: sums, runs, padding, splitting, merging |
| `TocEdit_proofs` | theorems about sequences of edits: types, marks in order, tracks of four seconds, no failed assertion |
| `TaskManager` | `gcdmaster/TaskManager.cc`: workers, idle callbacks, completions |
| `SerialJobs` | what `TaskManager.h` promises of the jobs (abstract) |
| `TocJobs` | `TocEdit` and `TaskManager` together: the jobs of a gcdmaster session, its scans, edit lock and player |
| `TaskManager_proofs`, `TocJobs_proofs` | theorems about jobs and edit lock |
| `TocReader` | `TocReader`, `TrackReader`, `TrackDataReader`: reading a TOC |
| `SampleStream` | what such a reader promises (abstract) |
| `TocReader_proofs` | theorems about the positions of the readers |
| `MMCDrive` | a recorder, its tray and the person at it (not code of the repository) |
| `GenericMMC` | `dao/GenericMMC.cc`: the commands of a session, blanking |
| `Cdrdao` | `dao/main.cc`: write, copy, on-the-fly copy, blank, unlock; composes program, reader process, pipe, driver and drive |
| `Cdrdao_proofs`, `CdrdaoSession_proofs` | theorems about a command: what it holds and leaves behind; the blocks of its session |
| `PQChannelEncoder` | the cue sheet, and the sub-channels written along it |
| `DiscReader` | `dao/CdrDriver.cc`: reading back the disc that the encoder has written |
| `MC...` | constants for TLC: `MCDao`, `MCTocEdit`, `MCTocJobs`, `MCTocReader`, `MCCdrdao`, `MCDiscReader` |

Operators whose name ends in `Mutant` are wrong variants of the definition
below them, the kind of slip the code could contain.  They are not used by the
specifications; each property is shown to fail when one of them takes the
place of the definition.

### Dao

Sample data is reduced to the number of the block of the image it belongs to.
The variables are the fields of `BufferHeader` and `Buffer` and the local
variables of the functions; the code position of the reader is `rpc`, that of
the thread that runs `writeDiskAtOnce()` and `writer()` is `wpc`.  One action
is one access to the shared header or one call of the driver or the TOC reader:

| code | actions |
|---|---|
| `reader()`: open and read (437-537) | `OpenFirstTrack`, `ReadBuffer`, `ReadFails`, `NextTrack` |
| hand over (539-549) | `Publish`, `SetFilled` |
| wait for room, loop, end marker (552-568) | `RingHasRoom`, `ReadOnOrFinish`, `SetFinished`, `MarkEnd`, `PublishEnd` |
| leave (571-588) | `ReturnFromReader`, `ReaderFails`, `FailedReaderExits` |
| `writer()`: wait (213-275) | `TestFilled`, `PollWhileFilling`, `StartDao`, `TestEmpty`, `PollWhileEmpty` |
| take, write, advance (277-404) | `TakeBuffer`, `WriteBlocks`, `SkipBlocks`, `ReleaseBuffer`, `FinishDao` |
| `writeDiskAtOnce()` (600-778) | `GetSharedMemory`, `InitDao`, `StartReader`, `SwitchOnResult`, `StopThread`, `KillProcess`, `JoinReader`, `ReleaseSharedMemory` |
| signal handler; another child of the process | `TerminationRequest`, `OtherChildDies` |

`Threads` chooses between the build with POSIX threads and the one with
`fork()`, `ReadTest` is the read test without a device.  Every call that
reports failure may fail, except `pthread_join()`.  The ring's memory is fresh
from the system and zero.  With `Ordered = FALSE` a buffer and the counter
behind it may become visible in either order, as plain stores may; a late
store arrives before the reader fills its next buffer.  Left out: progress
and fill-level figures, scheduling priority, memory locking, byte swapping.

`BurnSession` has the burned blocks, the state of the session and the result:
blocks are burned in order, the session is closed only behind the whole image,
success is returned only for a closed session and failure never for an open
one; with fairness there is an answer.  `Dao` implements it: the blocks sent
to the recorder, the session and the return value are mapped directly, and the
ring and the reader disappear.

### Track and TocEdit

A piece (`SubTrack`) is mode, file, first sample and length; a track its
pieces, its length, its pre-gap and its index increments.  `Track` defines
what each operation of `Track.cc` computes, with the padding that `update()`
takes out and puts in again, the merging of adjacent pieces and the
adjustments of the increments.  In `TocEdit` each action is one call of the
editor that succeeds; a call that is refused changes nothing and has no
action.  Conditions are the early returns of `Toc.cc`.  An assertion that
fails sets `aborted`, and nothing happens after it.

| code | actions |
|---|---|
| `moveTrackMarker()` | `MoveWithinTrack`, `MoveStartLeft`, `MoveStartRight` |
| `removeTrackMarker()` | `RemoveFirstPregap`, `RemoveIndexMarker`, `RemovePregap`, `RemoveTrack` |
| `addIndexMarker()`, `addTrackMarker()`, `addPregap()` | `AddIndexMarker`, `AddTrackMarker`, `AddPregap` |
| `appendTrack()`, `appendTrackData()`, `insertTrackData()` | `AppendTrack`, `AppendToLastTrack`, `InsertAudio`, `Paste` |
| `removeTrackData()` | `Cut` |

Modes are plain audio, audio with sub-channel data, and data.  Track flags,
ISRC, CD-TEXT, the parser of TOC files, and files that come from standard
input or a FIFO are left out.

### TaskManager and TocJobs

An action is one callback of the main loop, or the part of one up to where it
runs the main loop again: `stack` holds the jobs whose `completed()` has been
called and has not returned, `where` is the place inside it.  Workers run
between any two of them.

| code | actions |
|---|---|
| thread pool, `runJob()` | `TakeTask`, `Convert` (with `PostDone`) |
| `jobDone()`, `completionThread()` | `JobDone`, `Complete`, `EndCompletion` |
| `runCompletion()`: `curScan()`, `curAppendTrack()`, `curAppendFile()`, `curInsertFile()`, error dialog | in `Complete`, `CloseDialog` |
| `scanToc()`, `readSamples()` | in `Complete`, `ReadSamples`; `Crash` is the assertion of line 1273 |
| `appendTracks()`, `insertFiles()` | `AppendFiles`, `InsertFiles`, `QueueSelected` |
| the user's edits | `UserCut` |
| player | `PlayStart`, `Pause`, `Resume`, `PlayStop`, `PlayCallback` |

Peaks of the waveform, progress messages and the views are left out.
`SerialJobs` is the sentence of `TaskManager.h`: jobs are completed in the
order they were added, one at a time.  `TaskManager` implements it with the
tasks of both lists, without the completed one at their head, as outstanding.

### TocReader

Three nested readers.  A call (`readSamples()`, `readData()`) is split at each
read of a sub-track, so that a failure can come at each; the variables are the
positions of the three readers, and `call` holds the local variables.  A unit
is a sample of plain audio and a byte of anything else.  `SampleStream` is a
sequence with a position: a call delivers the next units and moves the
position by as many, or fails.  `TocReader` implements it: the stream is the
concatenation of what the sub-tracks and their padding make up, and the four
positions become one.  Sector encoding and byte order are left out.

### GenericMMC and Cdrdao

A step is one command to the drive, or one call of the program between them.
`MMCDrive` is the environment: a drive accepts blocks into a buffer and burns
them while the host goes on, answers "long write in progress" when there is no
room, reports an error of burning with a later command or never, refuses to
let the tray be opened while removal is prevented, and forgets its test-write
bit when another write type is selected.  `healthy` separates executions in
which no command fails and nobody interferes, about which more is promised.

| code | actions |
|---|---|
| `initDao()` to `startDao()` | `InitDao`, `SetSpeed`, `ReadDiskInfo`, `SetWriteParameters`, `Calibrate`, `SendCueSheet` |
| `writeData()`, `writeZeros()`, CD-TEXT lead-in | `WriteCommand`, `LongWriteInProgress`, `AllWritten` |
| `finishDao()`, `abortDao()` | `FlushCache`, `CheckDriveReady`, `AbortDao` |
| `blankDisk()` | `SetSimulationMode`, `BlankDisk`, `CheckDriveReady` |
| setup, `copyCd()`, waiting for a medium | `Setup`, `ReadDisk`, `CheckToc`, `SwapMedium`, `Swapped`, `AskMedium` |
| `copyCdOnTheFly()` | `CreatePipe`, `ForkReader`, `CloseWriteEnd`, `DupStdin`, `ChildReads`, `ChildEnds` |
| `writeDiskAtOnce()` around the driver, one buffer at a time | `GetSharedMemory`, `AskStart`, `StartReader`, `Deliver`, `ReaderReports`, `DataMissing`, `DeliverFails`, `TakeBuffer`, `ReleaseBuffer` |
| the ways out | `Lock`, `Written`, `Unlock`, `EjectMedium`, `RemoveImage`, `Cleanup`, `Interrupt` |

The ring of buffers is one buffer here, for `Dao` treats the ring.  Left out:
speeds, drive information, options and settings, the reload of a written disc
in the setup, jitter correction.

### PQChannelEncoder and DiscReader

`PQChannelEncoder` writes the sub-channels of a disc, block by block from the
lead-in to the lead-out; addresses, times and index numbers are those of
`PQChannelEncoder.cc`, digits, control bits and CRC are left out.  `DiscReader`
then puts that disc into a drive with scratches (over data, or over
sub-channels), run-out blocks, or a failing command, and reads it with one of
seven kinds of readers: `read-toc` or `read-cd`, three ways to find pre-gaps and
index marks, cooked or raw.

| code | actions |
|---|---|
| `setCueSheet()`, `encode()` | `EncodeSubChannel` |
| a disc is put into another drive | `Insert` |
| `analyzeTrackScan()`, `analyzeTrackSearch()`, `findIndex()`, no analysis | `AnalyzeTrack` |
| `readDataTrack()` | `StartDataTrack`, `ReadDataTrack`, `DataTrackRead` |
| audio ranges, `audioRead()` | `StartAudioRange`, `ReadAudio`, `AudioRangeRead` |
| a write to the image fails | `WriteFails` |
| `buildToc()` | `BuildToc` |

So the properties compare two programs: what one wrote, as the other reads it.
Left out: further sessions, CD-TEXT, the catalog number of a copy, sub-channel
data in the image, and what paranoia does with the samples.

## 3. Runs

| run | question | answer |
|---|---|---|
| `dao_thread` | reader thread, ring of 3: ring safe, disc is the image, sessions closed, lead-in not before the ring is full, ring freed only without reader, burn session and its answer | holds |
| `dao_process` | reader process while another child may die, everything encoded as audio, ring of 10, longer than the TOC: burn session and its answer | holds |
| `dao_readtest` | read test without a device, ring of 5: success means that all was read | holds |
| `toc_markers` | all sequences of marker edits: no audio moved, tracks of four seconds, the mark is where it was moved, no failed assertion | holds |
| `toc_audio` | cuts and pastes after marker edits: exact, marks in order and near their audio | holds |
| `toc_scrap` | does the scrap hold what was cut? | no, see 4 |
| `toc_reader` | the readers of a TOC implement a stream, and every call returns; positions agree | holds |
| `reader_short` | are missing samples zero? | no |
| `jobs` | completions in order, edit lock, files inserted in place, every scanned job completed | holds |
| `session` | 31 commands: nothing left open, locked, running or lying about; success and failure tell the truth; each command ends | holds |
| `disc` | sub-channels follow the layout; the copy of a disc is the disc; reading ends | holds |
| `disc_pregap` | is a pre-gap found while reading counted to Index 01? | no |

*Bounds of the Dao runs.*  A TOC of four tracks with 5, 4, 1 and 6 blocks in
buffers of 3: tracks end inside a buffer and with one, one track is shorter
than a buffer, and seven buffers go through a ring of three, so the ring wraps
and fills; in `dao_process` it never fills.  WRITE commands take two blocks, so that a buffer needs more than
one.  Ring indices only matter modulo the ring, track borders only relative to
buffers; larger numbers repeat these cases, and the safety of the ring is
proved for all of them.

*Bounds of the TOC runs.*  Blocks of two samples, so that a position is on a
block border or not; four blocks stand for four seconds; two index increments,
so that the limit and both neighbours occur.  Discs have one to three tracks,
with an unaligned length, pre-gap, marks, or a data track between audio.
Edits that add or remove audio are bounded: one on a disc with many marks or
an empty one, two on a short one (`AudioSpec`); marker edits are unbounded
otherwise.  `MaxBlocks` bounds the length of the disc.  Deadlock is not
checked: the edits are bounded, and a failed assertion ends the program.

*Bounds of `jobs`.*  Two workers and two jobs, so that they can finish in the
wrong order and a completion can begin while one is on the stack; files of
three samples and of one, on a disc of one audio track with or without data
behind it; one edit of the user and one use of the player, which can fall
between any two callbacks; a burst of two blocks, so that a scan takes one
burst or more.  The user is patient: nothing is added while the queue is busy
(what happens otherwise is in 4).

*Bounds of `toc_reader`.*  Calls of 1, 2, 3 and 5 samples or blocks on tracks of
up to three pieces of one to seven units in blocks of two samples: all splits
of a block between two pieces, runs with padding, sub-channel data behind a
block, modes that change inside a track, a file that is too short.

*Bounds of `session`.*  Five blocks of image, two of pre-gap, two of CD-TEXT,
WRITE commands of two blocks, a buffer of three in the program and in the
drive: commands that fill the drive's buffer, a last command that is shorter,
a pipe of two blocks that fills and runs dry.  The medium is exchanged at most
once.  Three media: empty, appendable, closed.

*Bounds of `disc`.*  Five discs of two to four tracks of three to fourteen
blocks, with pre-gaps of none to three blocks, marks side by side, data before
and behind audio; two blocks stand for two seconds, codes recur every eighth
block, reads take three blocks of which paranoia repeats two.  A scratch covers
two adjacent blocks, one command or file fails.  Everything is compared at
the end, so the interesting sizes are those relative to the burst.

*Fairness.*  `Dao`: reader and writer are scheduled and stores become visible:
threads or processes of one operating system, each looping over a sleep of
some milliseconds and a test; every read and every driver call returns.
`SilentInputSpec` drops this for reads: standard input or a FIFO may stay
silent.  `jobs`: each worker is scheduled, its conversion ends, the main loop
runs and an error dialog is closed; nothing is assumed of the user.  `toc_reader`:
a call that has begun goes on, and no failure is needed for that.  `session`:
program or drive goes on, the reader process does, a person who has opened the
tray closes it, and one who is asked for a medium again and again inserts a
usable one at last (strong fairness, since each question may be answered
wrongly first); no failure is fair, so that nothing ends only because
something breaks.  `disc`: one process, which goes on.  The editor alone has
no fairness, nothing there must happen.

## 4. Where the code and its description differ

Each of these has a run and an entry in `PROJECT.json`.

* `Track.cc:982` (`toc_scrap`): a cut over more than three pieces copies the
  second one again and again to the scrap.
* `TrackData.cc:1210` (`reader_short`): the zeros for a sound file that ends
  inside a read go to the wrong place.
* `CdrDriver.cc:4106` (`disc_pregap`): a pre-gap found while audio is read is
  counted to the end of the read.

These are known from the same models without a run of their own.  The property
in brackets is in the module; to see it fail, add it to the configuration that
is named, with the changes.

* `dao.cc:539`: a plain store counts a buffer whose contents are plain stores
  too, although `buffersRead` is the "number of blocks that are read and put to
  the buffer" (`dao.cc:71`) (`CountedBuffersArePut`; `dao_thread` with
  `Ordered = FALSE`).  This is limited to the newest buffer:
  `LandedBuffersHoldImage`, proved for any order of the stores (section 5), and
  checked by TLC with both values of `Ordered` and both of `Threads`.
* `dao.cc:256`: QUIT is not looked at while the writer waits for data, although
  "Process can be aborted with QUIT signal" (`main.cc:2753`) (`QuitIsHonoured`;
  `dao_thread` with `SilentInputSpec`).
* `dao.cc:225`, `678`: in the process build `wait3()` collects any child, and
  after a failed `fork()` the cleanup calls `kill(-1, SIGKILL)`
  (`ReturnOneMeansReaderEnded`, `KillsReaderOnly`; `dao_process`).
* `Track.cc:898`: a track appended behind a padded one moves, because padding
  is removed there and kept as data in the overload for lists; the operation
  "Removes specified track marker." (`Toc.cc:477`) (`RemovedTrackKeepsAudio`;
  `toc_markers`).
* `Toc.cc:369`: the sub-channel test looks at the wrong track, against "cannot
  modify data track" (`Toc.cc:351`) (`MarkersMoveNoAudio`; `toc_markers` with
  `InitialTocs <- BehindSubChannels`).
* `Track.cc:1130`: index increments are compared with a position counted from a
  different origin, against `cdrdao.man:612` (`PasteKeepsMarks`; `toc_audio`).
* `Toc.cc:424` ignores the refusal of `moveIndex(1, 0)` on a track shorter than
  four seconds and reports success; `Track.cc:637` compares the number of an
  index with the length of a track, so an assertion fails when a cut has left
  one block.  Both hold on the discs of `toc_markers`.
* `TaskManager.cc:129`: files added after the last job has left the list, and
  before it is completed, start the queue a second time; editing then stays
  blocked: "project is in read-only state" (`Project.cc:152`)
  (`EditLockIsExact`; `jobs` with `Manners <- Impatient` and a third job).  With a
  fourth job the counters can also end the queue twice, and a scan goes on while
  nothing is blocked.
* `AudioCDProject.cc:513`: after Pause and Stop, before the callback has run, it
  goes on with a closed reader: `assert(open_ != 0)` (`Toc.cc:1391`).  A scan
  whose file cannot be opened leaves the reader half open for
  `assert(open_ == 0)` (`Toc.cc:1273`) (`NoAssertionOfReaderFails`; `jobs` with
  `Manners <- Impatient`).
* `TocEdit.cc:403`: a file of whole blocks inserted at the end of the disc makes
  the scan fail; its result is not looked at, `readSamples()` answers 0 for
  ever, and no later job is completed, against `TaskManager.h:41`
  (`JobsComplete`; `jobs` with `InitialTocs <- NoDisc`, `Selections <- EvenFile`).
* `CdrDriver.cc:1161`: "at most the last part of the lead-out track may be
  affected" when the cache is flushed (`CdrDriver.cc:1147`), but an error of
  burning any block may be reported only there, and is ignored.
* `main.cc:1935` to `1959`: `copyCd()` returns without removing the image when
  the TOC is not suitable (`cdrdao.man:378`).
* `CdrDriver.cc:2410`: the search for a mark returns the block before it ("lba of
  index start position"), misses pre-gaps of one block, and goes wrong if the
  middle of the interval falls into the next track's pre-gap.  `TocIsDisc`
  therefore asks for each mark exactly one block early: a search that is off by
  another block violates it.
* `CdrDriver.cc:3996`: `audioReadError_` is set and never read, so a copy with
  failed reads reports success.  `CDD2600.cc:708` and `PlextorReader.cc:495`
  return 0 when a mode select fails, which `readDataTrack()` takes for the end
  of the data.
* `CdrDriver.cc:4117`: when paranoia reads back over a track border, the ISRC
  code of the track before is taken for one of the current track.
* `GenericMMC.cc:296`: the mode select of a simulated blanking may fail, and
  nobody looks: the disc is erased.

## 5. Proofs

The theorems hold for every value of the constants that the named assumptions
of the modules allow: any TOC, ring, buffer, pipe, medium, list of jobs, number
of workers.  Each inductive invariant was first checked by TLC on the run of its
module.  A `..._proofs` module has, for each part of the invariant, a lemma for
the initial states and one for the steps (with a case for each action), and
last the theorem.

| module | theorem | what it says |
|---|---|---|
| `Dao_proofs` | `TypeCorrect`, `RingSafe`, `SessionClosed` | `Spec => []TypeOK`, `[]RingIsSafe`, `[]NoSessionLeftOpen` |
| | `DiscHoldsImage`, `TrackAnnounced` | `[]DiscIsImage`, `[]AnnouncedTrackIsWritten` |
| | `LandedBuffersHold` | `[]LandedBuffersHoldImage`, with stores in any order |
| | `RingFilledFirst`, `ReaderThreadGone`, `SuccessComplete`, `ImplementsBurnSession` | `[]FullBeforeLeadIn`, `[]ReaderGoneBeforeRelease`, `[]SuccessIsComplete`, `Burning!Spec` |
| `TaskManager_proofs` | `ImplementsSerialJobs` | `Serial!Spec` |
| `TocJobs_proofs` | `JobsInOrder`, `ConvertedFirst`, `EditLock` | `InOrder`, `[]CompletedAfterConversion`, `[]EditLockFollowsQueue` |
| | `SessionTypes` | `PlainSession` implies `[](patient => SessionTypeOK)` |
| | `SessionMarksInOrder` | `PlainSession` implies `[]MarksOrdered` of a session with jobs |
| `Cdrdao_proofs` | `MediumIsHeld`, `NothingLeft`, `SimulationIsDry`, `TypeCorrect` | `MediumStays`, `[]LeavesNothingBehind`, `[]SimulationBurnsNothing`, `[]TypeOK` |
| `CdrdaoSession_proofs` | `SentInOrder`, `FailsForTheMedium`, `SuccessComplete` | `SessionIsImage`, `[]FailureHasReason`, `[]SuccessIsComplete` |
| `TocReader_proofs` | `ReaderPositionsAgree`, `SamplesNeverAbort` | `[]PositionsAgree`; while samples are read, no assertion fails |
| `TocEdit_proofs` | `EditTypeCorrect`, `MarksStayInOrder` | `PlainSession`: `[]TypeOK`, `[]MarksOrdered` |
| | `TracksStayLong`, `MarkEditsNeverAbort` | `PlainSession` and `MarkerSession`: `[]TracksLastFourSeconds`, `[]NoAssertionFails` |
| | `CutLeavesMarksNear` | `PlainSession`: `[]CutKeepsMarksNear` |
| | `MovedMarksArrive` | `PlainSession` and `MarkerSession`: `MovedMarkerIsThere` |
| | `MarksStayOrdered` | a `MarkEdit` of any typed disc with `MarksOrdered` gives one with `MarksOrdered` |

### Disc-at-once writing

* *Types.*  `TypeOK` alone is not inductive: that the reader's next buffer lies
  inside its track, and that what it still has to read is what the TOC has
  beyond its position, are needed for the number of blocks in a buffer
  (`ReaderPositionInv`), and so is the writer's place in its buffer
  (`WriterPositionInv`).
* *Ring.*  `RingInv` says at which places of the code the reader may rely on a
  free buffer (after the test of line 554 until the counter is incremented) and
  the writer on a full one; a step of the other side never takes it away.  Two
  counters less than a ring apart are in different slots: `SlotsDiffer`.
* *Session.*  `SessionInv` says where a session can be open, and that the
  writer's result is then a failure when `writeDiskAtOnce()` looks at it.
* *Image.*  `DiscIsImage` follows along a chain with a link for each owner of a
  block.  `ReaderInv`: the reader's two positions agree, and what it puts into
  a buffer is the next part of the image.  `StoreInv`: a store that is still
  under way belongs to a buffer that is not counted.  `QueueInv`: each buffer
  of the ring goes on where the one before it ends, and an empty one comes
  last.  `WriterInv`: what the writer has counted, sent and announced is what
  it took.
* *Any order.*  `PutInv`: what the reader put last is the part of the image
  before its position, or the end marker.  `ArrivedInv`: the parts of it that
  have arrived are in the newest slot.  `SettledInv`: the slots before it are a
  chain of parts that ends where it begins.
* *First filling.*  `FillInv`: the reader's `first` counts the missing buffers,
  and `buffersFilled` is set when none is missing.
* *Return value.*  `ResultInv` relates the place of the code to the session;
  the end marker reaches the writer behind the last block only (`QueueInv`),
  hence 0 means that all of the TOC was burned.  `ImplementsBurnSession` is the
  safety part of the refinement, one case for each action of the writer; the
  steps of the reader and of the ring are stuttering steps of `BurnSession`.

`DiscHoldsImage`, `TrackAnnounced`, `SuccessComplete` and
`ImplementsBurnSession` assume `Ordered`: without it the counter may become
visible before the buffer, and `CountedBuffersArePut` is false (section 4).
How far it is false, `LandedBuffersHold` says, without that assumption: only
the newest buffer can be counted too early, and every other one that is
counted holds the blocks of the image that follow the buffer before it.  The
argument (`AnyOrderInv`) rests on two facts: the stores of one buffer have
arrived when the next one is put (the model's assumption on how long a store
can be late: between the two lies `readData()`, which reads the next blocks
from a file), and until then the ring cannot come round to a slot that the
writer has not released.
`ReaderThreadGone` assumes `Threads`: with processes the reader has attached
the memory itself.  The other theorems need neither.

### Jobs of gcdmaster

`TaskInv` says that a task is at one place (pool, one worker, one idle callback,
done), that it is in `tasks` until it is done, that what waits for its completion
is done, and that one idle source completes tasks, on whose stack there is at
most one.  The step that is not obvious is `jobDone()`, which moves the
tasks at the front of `tasks` that are done, however many, to the end of
`completionQueue`: the abstract queue, which is both in a row, does not change.
That there is such a number is a fact about least elements (`LeastNatural`).
`NoTask \notin Tasks` only says that the mark of an idle worker is no task.

`TocJobs_proofs` has the same through `INSTANCE`: the seventeen actions of a
session change the queue by steps of `TaskManager` alone (`QueueSteps`), also those
that happen while the scan of a completion runs the main loop.  `LockInv` then
says that for a user who waits, the count of `editBlocked_` is one for a queue that
is not empty and one for a player that is not stopped.  It needs the exact
counters of added and completed jobs, since the lock goes with their equality.

`SessionTypes` and `SessionMarksInOrder` join that to the editing sessions below.
`TocInv` has five parts: `EditInv(0)` of the TOC, the queue, the lock, the jobs and
the scan.  `JobsInv` says what kinds of jobs there are, that the queue holds no
others, and that each has blocked the editor at most once, which bounds `editBlocked_` even
for a user who does not wait.  The edits of the jobs then are edits of `TocEdit` with
audio files, and `EditInvAudio` and `EditInvCut` apply.  `ScanInv` says that a
completion waits for each open reader (`reader = "open"` only in `where = "scan"`) and that
the scan stays on the disc (`ScanInside`).  That is what the lock is for: a cut
may shorten the disc, and it is possible only with `editBlocked_ = 0`, which by
`LockInv` means an empty queue, by `TaskInv` no completion on the stack, and so
no scan (`NoEditWhileScanning`).  The hypothesis `patient` is needed for this
alone: one who adds files again and again before the queue is empty can take the
lock away from jobs that are outstanding (section 4), and may then cut during a scan.

### A session at the recorder

Everything rests on `PlaceInv`: which places of the program belong to which
command.  `SheetInv` says that a cue sheet is in effect only within a session, and
that the medium is then in the drive and locked; `MediumStays` and the way out
without an open session follow.  `LockedInv`, `CopyInv`, `ProcessInv` follow the
lock, the image file and the reader process with its pipe from where they begin
to where they are undone.  `SimulationInv` says that the test-write bit is set
whenever the drive has, or may get, blocks: `diskInfo()` clears it, and comes
before it is set.  `RoomInv` bounds buffer and pipe; the lead-out and BLANK may
come on top of a full buffer, because the one ends a session and the other
comes first (`EarlyInv`).

`SentInOrder` needs where each block is between the reader process and the drive:
`PipeInv` (the pipe holds what was produced and not yet read, in order),
`AddressInv` (what the drive waits for is the beginning of the medium plus what
was sent), `TodoInv` (what `writeData()` has still to send goes on where `sent`
ends; only beyond what the reader process has produced it is padding) and
`RecordInv` (a recording sends nothing that erases).  `FailsForTheMedium` adds what holds
without a fault: the driver knows the medium (`InformedInv`), sends the address
the drive waits for (`AimedInv`), and the reader process reads to the end
(`ReadToEndInv`); then `ReasonInv` has a reason at every place with an error.
`SuccessComplete` follows the blocks on to the medium: `LandedInv` says that
medium and buffer together are what was sent, in order, with the lead-out behind
it once the session is closed, and `EmptyInv` that behind the wait of
`finishDao()` the buffer is empty.

Three assumptions on constants are there for these proofs.  `CommandAssumption`
gives the options of a command their types.  `DriverAssumption` says that the
mark `AnyAddress` of a drive that takes any address lies before the lead-in of
every disc.  `SessionAssumption` of `TocJobs` has the jobs that loading queues as
conversions and one scan of the whole TOC, no more than the jobs a session may
have, and what the file dialog gives as audio files.

### Sums over lists

The lengths of a track and the addresses of a disc are loops over lists, and an
induction over a list is out of the provers' reach (the library's theorems
take an operator).  What the loops compute is proved all the same: `Track` and
`TocEdit` write them as recursive functions over the places of a list
(`Loop`, `TotalLength`, `Padded`, `LengthInBlocks`, `AbsStart`), and a fact about
each place is proved from a least place where it does not hold (`LeastNatural`).
`Track_proofs` has such lemmas for each operation of `Track.cc`: the blocks of
a list of audio are its samples rounded up, `update()` adds less than a block of
padding and takes out only padding, a split or a merge keeps the sum and the
modes, `removeToEnd()` and `removeFromStart()` leave and hand over what adds up to
the whole.  What a list *holds*, sample by sample, is not followed there.

### Editing sessions

The invariant is `EditInv(d)`: each track is `Good` (its list is what `update()`
leaves of it, its length the blocks of that list, its marks in order, its
increments at most `MaxIndices`), at least `d` blocks lie behind its pre-gap if
it is plain audio, and the scrap is audio without padding.  `MarksOrdered`
and the types need `d = 0`.  The step that decides is the one that hands
pieces on: what `Toc.cc` tests before an edit are addresses on the disc, and
what `Track.cc` does afterwards depends on the length that padding, taken out and
put in again, leaves.  A lemma for each edit (`MoveLeftKeeps`,
`MoveRightKeeps`, `RemovePregapKeeps`, `RemoveTrackKeeps`, `AddTrackKeeps`,
`AddPregapKeeps`, `CutKeeps`, `InsertedKeeps`, ...) shows that the list that
is handed over lasts whole blocks or is the padded end of its track, so that a
track grows, or shrinks, by the blocks the test was about.  The four seconds and
the assertions need `d = FourSeconds`: only then does `moveIndex(1, 0)` succeed behind
every move to the left, and is the number of each index smaller than the length
of its track (`FourSeconds > MaxIndices + 1`).

`MovedMarksArrive` is about positions on the disc, not inside a track.  The lemmas of
the moves also conclude `Arrives`.  Inside a track that is the arithmetic of
`moveIndex()`; across a boundary it needs the exact length by which the
predecessor grows (`GrownBehind`) or the track itself shrinks (`FrontHandedOver`), and
`StartAfter`, by which the addresses of all later tracks follow from a change of
two lengths.

`CutLeavesMarksNear` is about a cut of any disc that `EditInv` allows.
`CutAdjustment` distinguishes three cuts: behind the pre-gap, in it, and across
the start of the track.  For each of them a lemma of `Track_proofs`
(`CutBehindPregap`, `CutInPregap`, `CutAcrossStart`) bounds the distance between
where the mark goes and where its sample has gone (`GoneTo`): less than one
block for a pre-gap or an index rounded alone, less than two for both.  The
length of the track changes by the samples cut, to less than a block
(`CutIsGood`); the marks of earlier tracks do not move, and those of later ones
by that change (`StartsShift`, `TracksFollow`).

The hypotheses describe the discs that a session may start with.
`PlainSession` is what `TocParser` leaves of a TOC file without sub-channel data
whose indices are in order: each track as `update()` leaves it.  Section 4 has what
goes wrong with sub-channel data behind audio and with indices out of order, which the parser
does not refuse.  `MarkerSession` adds that tracks last four seconds behind the pre-gap and
that audio is neither added nor removed; a cut may leave a shorter track, with
which section 4 shows both properties to fail.  `LongToc` speaks of all tracks, for
`moveIndex()` compares before anything looks at the mode.  `MCTocEdit` assumes of the
discs of both runs that they satisfy the hypotheses, `MCTocJobs` of its own, and TLC
evaluates that.  `EditAssumption` says of new pieces that they are `AudioFiles`, audio and
not padding: they come from decoded files.

`MarksStayOrdered` is about one step of any session, also one with sub-channel
data: `MarkEdit` is the part of `Next` that hands no pieces on to a track
that had others before (`AddIndexMarker`, `AddTrackMarker`, `RemoveFirstPregap`,
`RemoveIndexMarker`, `MoveWithinTrack`), and `TypeOK` and `TypeOK'` are
hypotheses.

### Readers of a TOC

`IInv` has eight parts.  `Typed` and `CallTyped` give the variables and the local
variables of a call their types, `InDisc` keeps the positions inside disc,
track and piece.  `Agreed` says that between two reads of a piece the four
positions name one sample, except while a call waits to be returned, when
`Placed` says by how much the outer positions are behind.  `Counted` relates
what a call has got, what it still has to get and how far the inner readers went;
`Shared` keeps the part of a call that one track must deliver within that track, so
that `NoAbort` follows: the next track and the next piece exist whenever a call
goes on to them.  A failed call leaves positions that do not agree, and
`PositionsAgree` does not speak of them until the next seek.

`DiscAssumption` is about the discs that are read.  `Track::append()` refuses a
mixture of plain audio and other pieces (`Track.cc:125`) and `update()` fills the last
block of every run, so the length of a list is a whole number of blocks of
the track; pieces are not empty.

### What TLC alone checks

* Liveness under fairness: `BurnSessionAnswers`, `ScannedJobsComplete`,
  `StreamAnswers`, `CommandEnds`, `ReadingEnds`.  Of the first one the
  safety part is proved.
* What an edit or a reader does to the samples themselves: `CutIsExact`,
  `PasteIsExact`, `MarkersMoveNoAudio` of `TocEdit`, the refinement of
  `SampleStream`.  They flatten lists of lists of samples, before and after, so
  that each would be an induction over data of its own.
* `PQChannelEncoder` and `DiscReader`, which follow a cue sheet or a disc that
  other code has computed, entry by entry.
* `InsertedInPlace` of `TocJobs`, which compares the samples of the disc before and
  behind the insertion of several files.

## 6. Not modelled, and what is left

* *TOC parser.*  A grammar with actions; the models start from TOCs that it
  accepts.  It accepts INDEX statements out of order (`Track.cc:287`), which the
  edits do not expect.
* *Waveform summary.*  Its scan is in `TocJobs`.  The peaks, and cutting and
  pasting them, are not.  `TocEdit.cc:886` cuts the summary by the selection
  while the TOC also changes its padding.
* *Drivers of particular recorders, SCSI interfaces.*  Command layouts of
  hardware with the control flow of the generic driver; calls of operating
  systems.
* *Sector encoding, CD-TEXT packs, audio formats, cue sheets, CDDB.*  Arithmetic
  in tables and text processing without state that outlives a call.
* *`ProcessMonitor`, `CdDevice`.*  cdrdao as a child of gcdmaster, for its
  progress messages.
* *`pccts`, `paranoia`, user interface, utilities.*  Vendored, generated or
  straight-line code.

`PROJECT.json` gives the reason for each component.

Next: what the edits do to the samples of a disc (`MarkersMoveNoAudio`), as a
theorem; sub-channel data in the theorems about editing.
