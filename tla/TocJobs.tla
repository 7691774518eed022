------------------------------ MODULE TocJobs ------------------------------
(***************************************************************************)
(* gcdmaster/TocEdit.cc with its jobs: files are converted by the workers  *)
(* of TaskManager and put into the TOC when they complete, their samples   *)
(* are scanned by SampleManager in a loop that runs the main loop, editing *)
(* is blocked meanwhile, and AudioCDProject plays the TOC from another     *)
(* idle callback.                                                          *)
(*                                                                         *)
(* An action is one callback of the main loop, or the part of one up to    *)
(* where it runs the main loop again.  The edits are those of TocEdit; the *)
(* user's edit is a cut, the others ask for the same permission.           *)
(***************************************************************************)
EXTENDS TocEdit

CONSTANTS
    Workers, NoTask,
    Selections,  \* the lists of audio files that may be chosen in the file dialog
    MaxJobs,     \* bound: jobs in a session
    UserEdits,   \* bound: edits that the user makes before the jobs' own
    ShortScan,   \* 2000: as many blocks are scanned in one burst
    Vanishing,   \* files of the TOC may be gone when it is scanned
    Loading,     \* lists of jobs that loading the TOC has queued
    PlayBursts,  \* bursts that are played before the selection ends
    Plays,       \* bound: how often the user starts to play
    Manners      \* whether the user may be patient: a subset of BOOLEAN

\* What toc() queues: the conversion of files, and the scan of the whole TOC.
LoadingJobs == [op : {"convert", "scan"}, file : PieceType, pos : {0}]

ASSUME SessionAssumption ==
    /\ {MaxJobs, PlayBursts, Plays} \subseteq Nat
    /\ NoTask \notin 1 .. MaxJobs
    /\ \A list \in Loading : list \in Seq(LoadingJobs) /\ Len(list) <= MaxJobs
    /\ \A files \in Selections : files \in Seq(AudioFiles)
    /\ Manners \subseteq BOOLEAN

VARIABLES
    tasks, completionQueue, pool, running, idle, done, sources, stack, numAdded, numCompleted, active,
    jobs,        \* QueueJob: what was queued, by id
    failed,      \* jobs whose file could not be converted
    editBlocked, \* editBlocked_
    scan,        \* SampleManagerImpl: tocReader_, actBlock_, endBlock_, burstBlock_, length_
    where,       \* what the completion on the stack is doing: "none", "scan", "dialog", "end", "crash"
    selected,    \* files the user has chosen and insertFiles() has not queued yet
    play,        \* AudioCDProject: status, reader open, callbacks connected, abort, bursts left, button
    patient,     \* the user waits for the queue, and for the player, before the next click
    batch        \* the disc when files were inserted, where, and their jobs (see InsertedInPlace)

TM == INSTANCE TaskManager WITH Tasks <- 1 .. MaxJobs

taskVars == <<tasks, completionQueue, pool, running, idle, done, sources, stack,
              numAdded, numCompleted, active>>
sessionVars == <<vars, taskVars, jobs, failed, editBlocked, scan, where, selected, play, patient, batch>>

Outstanding == TM!Outstanding
Busy(b) == IF b THEN 1 ELSE 0
Job(op, file, pos) == [op |-> op, file |-> file, pos |-> pos]
NoFile == Piece("AUDIO", "none", 0, 0)
NoBatch == [on |-> FALSE, files |-> <<>>, first |-> 0, before |-> <<>>, after |-> <<>>]

\* toc() has queued the conversions of the TOC's files, and the scan of all of it.
SessionInit ==
    /\ Init
    /\ jobs \in Loading
    /\ LET ids == [id \in DOMAIN jobs |-> id]
       IN  TM!Added(ids) /\ editBlocked = Busy(ids # <<>>)
    /\ failed = {}
    /\ scan = [reader |-> "closed", at |-> 0, end |-> 0, burst |-> 0, rest |-> 0]
    /\ where = "none"
    /\ selected = <<>>
    /\ play = [status |-> "STOPPED", open |-> FALSE, sources |-> 0, abort |-> FALSE, left |-> 0,
               again |-> Plays, button |-> editBlocked = 0]
    /\ patient \in Manners
    /\ batch = NoBatch
-----------------------------------------------------------------------------
(* The edit lock, and the play button, which follows it.                   *)

UnblockedMutant(n) == 0
Unblocked(n) == IF n > 0 THEN n - 1 ELSE 0
ButtonAfter(old, new, button) == \* AudioCDProject::update() for UPD_EDITABLE_STATE
    IF (old = 0) # (new = 0) THEN new = 0 ELSE button
SetBlocked(n) ==
    /\ editBlocked' = n
    /\ play' = [play EXCEPT !.button = ButtonAfter(editBlocked, n, @)]

\* addJobToThreadQueue(), with taskQueueStarted().
QueueJob(job) ==
    /\ Len(jobs) < MaxJobs
    /\ jobs' = Append(jobs, job)
    /\ TM!AddJob(Len(jobs) + 1)
    /\ IF TM!QueueStarts THEN SetBlocked(editBlocked + 1) ELSE UNCHANGED <<editBlocked, play>>
-----------------------------------------------------------------------------
(* The workers, and the callbacks of the main loop.                        *)

TakeTask(w) ==
    /\ TM!TakeTask(w)
    /\ UNCHANGED <<vars, jobs, failed, editBlocked, scan, where, selected, play, patient, batch>>
Convert(w) ==
    /\ TM!PostDone(w)
    /\ failed' \in {failed, failed \cup {running[w]}}
    /\ UNCHANGED <<vars, jobs, editBlocked, scan, where, selected, play, patient, batch>>

\* The main loop dispatches, at its top, from the scan loop or from a dialog.
Dispatches == ~aborted /\ selected = <<>> /\ where \notin {"end", "crash"}
JobDone ==
    /\ Dispatches
    /\ TM!JobDone
    /\ UNCHANGED <<vars, jobs, failed, editBlocked, scan, where, selected, play, patient, batch>>


(* SampleManager: scanToc() opens the reader, readSamples() reads a burst. *)

BurstBlocks(n) == IF n < ShortScan THEN n ELSE 1
CanScanMutant(T, first, last) ==
    /\ last \div SAMPLES_PER_BLOCK >= first \div SAMPLES_PER_BLOCK
    /\ last <= SampleOf(DiscLength(T))
CanScan(T, first, last) ==
    /\ last \div SAMPLES_PER_BLOCK >= first \div SAMPLES_PER_BLOCK
    /\ last < SampleOf(DiscLength(T))
Asked(T, first, last) ==
    LET at == first \div SAMPLES_PER_BLOCK
        end == last \div SAMPLES_PER_BLOCK
        length == SampleOf(DiscLength(T))
    IN  IF end < at THEN [scan EXCEPT !.at = at, !.end = end]
        ELSE IF last >= length THEN [scan EXCEPT !.at = at, !.end = end, !.rest = length]
        ELSE [scan EXCEPT !.at = at, !.end = end, !.rest = length - SampleOf(at)]

\* 0: reading.  1: parameters out of range.  2: the first file of the TOC cannot
\* be opened, which leaves the reader half open, or the position not reached.
ScanToc(T, first, last) ==
    LET asked == Asked(T, first, last)
        blocks == asked.end - asked.at + 1
    IN  IF ~CanScan(T, first, last) THEN {[ret |-> 1, scan |-> asked]}
        ELSE IF scan.reader # "closed" THEN {[ret |-> -1, scan |-> asked]} \* assertion of TocReader::openData()
        ELSE {[ret |-> 0, scan |-> [asked EXCEPT !.reader = "open", !.burst = BurstBlocks(blocks)]]}
             \cup IF Vanishing THEN {[ret |-> 2, scan |-> [asked EXCEPT !.reader = "broken"]],
                                     [ret |-> 2, scan |-> asked]} ELSE {}

BlocksRead == \* by the next readSamples()
    Min({scan.burst, Ceiling(scan.rest, SAMPLES_PER_BLOCK), LargerOf(scan.end - scan.at + 1, 0)})
ScanIsDoneMutant(at) == at > scan.end /\ at < scan.at
ScanIsDone(at) == at >= scan.end /\ at < scan.at + scan.burst
Advanced == [scan EXCEPT !.at = @ + BlocksRead, !.rest = LargerOf(@ - SampleOf(BlocksRead), 0)]
ReadSamples ==
    /\ Dispatches
    /\ where = "scan"
    /\ \/ BlocksRead > 0 /\ scan.reader # "open" /\ where' = "crash" /\ UNCHANGED scan
       \/ /\ BlocksRead = 0 \/ scan.reader = "open"
          /\ IF ScanIsDone(scan.at + BlocksRead)
             THEN scan' = [Advanced EXCEPT !.reader = "closed"] /\ where' = "end"
             ELSE scan' = Advanced /\ UNCHANGED where
       \/ /\ BlocksRead > 0 /\ scan.reader = "open" \* a block cannot be read
          /\ scan' = [scan EXCEPT !.reader = "closed"]
          /\ where' = "dialog"
    /\ UNCHANGED <<vars, taskVars, jobs, failed, editBlocked, selected, play, patient, batch>>
-----------------------------------------------------------------------------
(* completionThread() and runCompletion(): what a job does up to the point *)
(* where the main loop runs again.                                         *)

AfterScanJob(ret) == CASE ret = 0 -> "scan" [] ret = 1 -> "end" [] ret = 2 -> "dialog" [] ret = -1 -> "crash"
AfterAudioJob(ret) == IF ret = -1 THEN "crash" ELSE "scan" \* a failure of scanToc() is not looked at
Scans(T, first, last, After(_)) ==
    \E r \in ScanToc(T, first, last) : scan' = r.scan /\ where' = After(r.ret)

LastSample(T) == SampleOf(DiscLength(T)) - 1
Scan(job) ==
    /\ Scans(toc, job.pos, LastSample(toc), AfterScanJob)
    /\ UNCHANGED vars
CurAppendTrack(job) ==
    /\ AppendTrack(<<job.file>>)
    /\ Scans(toc', LastSample(toc) + 1, LastSample(toc'), AfterAudioJob)
    /\ UNCHANGED scrap
CurAppendFile(job) ==
    /\ AppendToLastTrack(<<job.file>>)
    /\ Scans(toc', LastSample(toc) + 1, LastSample(toc'), AfterAudioJob)
    /\ UNCHANGED scrap
CurInsertFile(job) ==
    /\ InsertAudio(job.pos, <<job.file>>)
    /\ Scans(toc', job.pos, job.pos + job.file.len, AfterAudioJob)
    /\ UNCHANGED scrap

\* A data track cannot be modified.
AppendRefused == toc # <<>> /\ ~IsPlainAudio(Last(toc))
InsertRefused(pos) ==
    IF FindTrack(toc, pos) = {} THEN AppendRefused ELSE \E nr \in FindTrack(toc, pos) : ~IsPlainAudio(toc[nr])
NothingToDo(next) == where' = next /\ UNCHANGED <<vars, scan>>

RunCompletion(id) ==
    LET job == jobs[id]
        audio == job.op # "scan" /\ id \notin failed
    IN  \/ job.op = "scan" /\ Scan(job)
        \/ job.op # "scan" /\ id \in failed /\ NothingToDo("dialog")
        \/ audio /\ job.op = "convert" /\ NothingToDo("end")
        \/ audio /\ job.op = "aptrack" /\ CurAppendTrack(job)
        \/ audio /\ job.op = "apfile" /\ CurAppendFile(job)
        \/ audio /\ job.op = "apfile" /\ AppendRefused /\ NothingToDo("end")
        \/ audio /\ job.op = "infile" /\ CurInsertFile(job)
        \/ audio /\ job.op = "infile" /\ InsertRefused(job.pos) /\ NothingToDo("dialog")

CompletionBegins ==
    /\ Dispatches
    /\ TM!BeginCompletion
    /\ UNCHANGED <<jobs, failed, editBlocked, selected, play, patient, batch>>
Complete == CompletionBegins /\ RunCompletion(Head(completionQueue))
CloseDialog ==
    /\ Dispatches
    /\ where = "dialog"
    /\ where' = "end"
    /\ UNCHANGED <<vars, taskVars, jobs, failed, editBlocked, scan, selected, play, patient, batch>>
\* Back in completionThread(); taskQueueDone() when the queue is empty.
EndCompletion ==
    /\ where = "end"
    /\ TM!EndCompletion
    /\ where' = "none"
    /\ IF TM!QueueEmpties THEN SetBlocked(Unblocked(editBlocked)) ELSE UNCHANGED <<editBlocked, play>>
    /\ UNCHANGED <<vars, jobs, failed, scan, selected, patient, batch>>
\* An assertion of TocReader has failed in the completion.
Crash ==
    /\ where = "crash"
    /\ Abort
    /\ UNCHANGED <<taskVars, jobs, failed, editBlocked, scan, where, selected, play, patient, batch>>
-----------------------------------------------------------------------------
(* The user: events of the main loop, also of the one in the scan loop, but not behind a dialog. *)

Listens == Dispatches /\ where \in {"none", "scan"}
ChoosesFiles(chosen) ==
    /\ Listens
    /\ patient => Outstanding = <<>>
    /\ Len(jobs) + Len(chosen) <= MaxJobs
    /\ selected' = chosen
    /\ UNCHANGED <<vars, taskVars, jobs, failed, editBlocked, scan, where, play, patient>>
AppendFiles == \E op \in {"aptrack", "apfile"}, files \in Selections :
    /\ ChoosesFiles([i \in DOMAIN files |-> Job(op, files[i], 0)])
    /\ UNCHANGED batch

\* insertFiles(): the last one first, all at the marker, or at the beginning.
InsertionOrderMutant(files) == files
InsertionOrder(files) == Reverse(files)
InsertFiles == \E files \in Selections, pos \in {0} \cup 0 .. LastSample(toc) :
    LET order == InsertionOrder(files)
        samples == DiscSamples(toc)
    IN  /\ ChoosesFiles([i \in DOMAIN order |-> Job("infile", order[i], pos)])
        /\ batch' = IF Outstanding # <<>> \/ ~\A nr \in DOMAIN toc : IsPlainAudio(toc[nr]) THEN NoBatch
                    ELSE [on |-> TRUE, files |-> files, first |-> Len(jobs) + 1,
                          before |-> Audible(SubSeq(samples, 1, pos)),
                          after |-> Audible(SubSeq(samples, pos + 1, Len(samples)))]
QueueSelected ==
    /\ selected # <<>>
    /\ QueueJob(Head(selected))
    /\ selected' = Tail(selected)
    /\ UNCHANGED <<vars, failed, scan, where, patient, batch>>

UserCut ==
    /\ Listens
    /\ editBlocked = 0
    /\ audioEdits < UserEdits
    /\ CutSelection
    /\ batch' = NoBatch
    /\ UNCHANGED <<taskVars, jobs, failed, editBlocked, scan, where, selected, play, patient>>
-----------------------------------------------------------------------------
(* Playing: AudioCDProject.                                                *)

PlayChanges(record, blocked) ==
    /\ play' = record
    /\ editBlocked' = blocked
    /\ UNCHANGED <<toc, scrap, audioEdits, taskVars, jobs, failed, scan, where, selected, patient, batch>>
Stopped(button) == [play EXCEPT !.status = "STOPPED", !.open = FALSE, !.button = button]

PlayStart ==
    /\ Listens
    /\ play.status = "STOPPED" /\ play.button
    /\ play.again > 0
    /\ DiscLength(toc) > 0
    /\ PlayChanges([play EXCEPT !.status = "PLAYING", !.open = TRUE, !.sources = @ + 1,
                                !.abort = FALSE, !.left = PlayBursts, !.again = @ - 1, !.button = FALSE],
                   editBlocked + 1)
    /\ UNCHANGED aborted
Pause ==
    /\ Listens
    /\ play.status = "PLAYING"
    /\ PlayChanges([play EXCEPT !.status = "PAUSED"], editBlocked)
    /\ UNCHANGED aborted
Resume ==
    /\ Listens
    /\ play.status = "PAUSED"
    /\ patient => play.sources = 0
    /\ PlayChanges([play EXCEPT !.status = "PLAYING", !.sources = @ + 1], editBlocked)
    /\ UNCHANGED aborted
PlayStop ==
    /\ Listens
    /\ play.status # "STOPPED"
    /\ patient => play.sources = 0 \/ play.status = "PLAYING"
    /\ IF play.status = "PAUSED"
       THEN PlayChanges(Stopped(Unblocked(editBlocked) = 0), Unblocked(editBlocked))
       ELSE PlayChanges([play EXCEPT !.abort = TRUE], editBlocked)
    /\ UNCHANGED aborted

PlayCallback ==
    /\ Dispatches
    /\ play.sources > 0
    /\ \/ /\ play.status = "PAUSED"
          /\ PlayChanges([play EXCEPT !.sources = @ - 1, !.button = TRUE], editBlocked)
          /\ UNCHANGED aborted
       \/ /\ play.status # "PAUSED" /\ ~play.open \* assertion of TocReader::readSamples()
          /\ aborted' = TRUE
          /\ PlayChanges(play, editBlocked)
       \/ /\ play.status # "PAUSED" /\ play.open \* reading or playing fails
          /\ PlayChanges([Stopped(TRUE) EXCEPT !.sources = @ - 1], Unblocked(editBlocked))
          /\ UNCHANGED aborted
       \/ /\ play.status # "PAUSED" /\ play.open
          /\ IF play.left = 0 \/ play.abort
             THEN PlayChanges([Stopped(Unblocked(editBlocked) = 0) EXCEPT !.sources = @ - 1],
                              Unblocked(editBlocked))
             ELSE PlayChanges([play EXCEPT !.left = @ - 1], editBlocked)
          /\ UNCHANGED aborted
-----------------------------------------------------------------------------
SessionNext ==
    \/ \E w \in Workers : TakeTask(w)
    \/ \E w \in Workers : Convert(w)
    \/ JobDone
    \/ Complete
    \/ ReadSamples
    \/ CloseDialog
    \/ EndCompletion
    \/ Crash
    \/ AppendFiles
    \/ InsertFiles
    \/ QueueSelected
    \/ UserCut
    \/ PlayStart
    \/ Pause
    \/ Resume
    \/ PlayStop
    \/ PlayCallback

SessionSpec == SessionInit /\ [][SessionNext]_sessionVars

MainLoop == JobDone \/ ReadSamples \/ CloseDialog \/ EndCompletion \/ Crash \/ QueueSelected
\* The workers are scheduled and their conversions end; the main loop runs and
\* an error dialog is closed.  (Each job can be completed, so that Complete is
\* possible when its call is.)  The user may stop to do anything else.
FairSession ==
    /\ SessionSpec
    /\ \A w \in Workers : WF_sessionVars(TakeTask(w) \/ Convert(w))
    /\ WF_sessionVars(MainLoop)
    /\ WF_taskVars(CompletionBegins)
-----------------------------------------------------------------------------
\* Type invariant.  A scan that is under way does not leave the disc, so that it
\* stays in the arrays that scanToc() has sized (editing is blocked meanwhile).
SessionTypeOK ==
    /\ TypeOK
    /\ Len(jobs) <= MaxJobs
    /\ failed \subseteq DOMAIN jobs
    /\ editBlocked \in 0 .. MaxJobs + 1
    /\ scan.reader \in {"closed", "open", "broken"}
    /\ scan.reader = "open" => scan.at <= scan.end + 1 /\ scan.end < DiscLength(toc)
    /\ where \in {"none", "scan", "dialog", "end", "crash"}
    /\ play.status \in {"STOPPED", "PLAYING", "PAUSED"}
    /\ \A w \in Workers : running[w] \in DOMAIN jobs \cup {NoTask}

\* completed() is called in the order the jobs were added, one at a time, while
\* workers finish in any order and the scan loop dispatches their callbacks.
InOrder == TM!Serial!Spec

\* A job is not completed while its file is still converted by a worker, although
\* the workers finish in any order (jobDone()).
CompletedAfterConversion == \A id \in ToSet(completionQueue) : id \in done /\ \A w \in Workers : running[w] # id

\* Every job that was queued is completed.
JobsComplete == Outstanding # <<>> ~> Outstanding = <<>> \/ aborted
\* ... unless scanToc() has failed and runCompletion() reads samples all the same.
NotScanning == where = "scan" /\ scan.reader # "open"
ScannedJobsComplete == Outstanding # <<>> ~> Outstanding = <<>> \/ aborted \/ NotScanning

\* For each use of the TOC that must not be disturbed, the jobs and the player,
\* editing is blocked once, and it is not blocked for anything else (blockEdit()).
EditLockIsExact == editBlocked = Busy(Outstanding # <<>>) + Busy(play.status # "STOPPED")
\* This holds as long as the user waits for the queue to empty before adding files.
EditLockFollowsQueue == patient => EditLockIsExact

\* Files that were inserted together are in their order at the marker when
\* their jobs have completed, whichever of them could not be converted; what
\* was behind the marker follows (insertFiles(), curInsertFile()).
InsertedInPlace ==
    batch.on /\ Outstanding = <<>> /\ selected = <<>> =>
        LET n == Len(batch.files)
            JobOf(i) == batch.first + n - i
            inserted == FlattenSeq([i \in 1 .. n |->
                            IF JobOf(i) \in failed THEN <<>> ELSE SamplesOfPiece(batch.files[i])])
        IN  IsPrefix(batch.before \o inserted \o batch.after, Audible(DiscSamples(toc)))

\* No assertion of TocReader fails: its users open it before they read, and close
\* it before they open it (scanToc(), readSamples(), playCallback()).
NoAssertionOfReaderFails == ~aborted
=============================================================================
