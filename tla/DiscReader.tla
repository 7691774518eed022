----------------------------- MODULE DiscReader -----------------------------
(***************************************************************************)
(* Reading a disc that the encoder has written back into a TOC and an      *)
(* image: readDisk() and readDiskToc() of dao/CdrDriver.cc with the        *)
(* analysis of sub-channels, the reader of data tracks, and buildToc().    *)
(* Session 1 of a disc whose first track has number 1.  A block is one     *)
(* unit of the image, whatever its mode.                                   *)
(***************************************************************************)
EXTENDS PQChannelEncoder

CONSTANTS
    Readers,    \* [command, raw, analysis, padFirst, tao]: commands, options, abilities of drives
    Burst,      \* blocking, maxScannedSubChannels_: blocks of a READ command
    Overlap,    \* blocks that paranoia reads again
    TaoAdjust,  \* taoSourceAdjust_
    ScratchLength, \* blocks side by side that cannot be read
    MaxFaults   \* bound: failures of commands and files

ASSUME ReaderAssumption ==
    /\ Burst \in Nat \ {0} /\ Overlap \in 0 .. Burst - 1 /\ TaoAdjust \in Nat /\ ScratchLength \in Nat /\ MaxFaults \in Nat
    /\ \A r \in Readers : r.command \in {"read-toc", "read-cd"} /\ r.analysis \in {"scan", "search", "fast"}

VARIABLES
    pc, job,
    faults,      \* commands and files that have failed
    unreadable,  \* blocks of data with L-EC errors
    runOut,      \* blocks behind the data of a track, of an illegal mode
    hidden,      \* blocks whose Q channel fails its CRC
    infos,       \* trackInfos; the last one is the lead-out
    track,       \* trs: the track, or the first one of a range of audio tracks
    next, end,   \* lba, and the end of what is read
    burst, good, \* burst, iterationsWithoutError of readDataTrack()
    seen,        \* audioReadActTrack_, audioReadActIndex_, audioReadActLba_
    image,       \* blocks in the file
    copy         \* the TOC that is built

discVars == <<job, unreadable, runOut, hidden>>
readVars == <<infos, track, next, end, burst, good, seen, image, copy>>
vars == <<encoderVars, pc, faults, discVars, readVars>>

Data(lba) == <<"data", lba>>
Dummy(lba) == <<"dummy", lba>>
ZeroBlock == <<"zero", 0>>
ZeroBlocks(n) == [i \in 1 .. n |-> ZeroBlock]
N == Len(toc.tracks)
MayFail == faults < MaxFaults
Outcomes == {FALSE} \cup {MayFail}
Count(fails) == faults' = IF fails THEN faults + 1 ELSE faults
Lesser(a, b) == IF a < b THEN a ELSE b
-----------------------------------------------------------------------------
(* The disc and the drive.                                                 *)

\* The modes in which tracks are read: of the forms of mode 2 one that holds all.
ReadMode(mode, raw) ==
    CASE mode = "AUDIO" -> mode
      [] mode = "MODE1" -> IF raw THEN "MODE1_RAW" ELSE mode
      [] OTHER -> IF raw THEN "MODE2_RAW" ELSE "MODE2_FORM_MIX"
IsRaw(mode) == mode \in {"MODE1_RAW", "MODE2_RAW"}
Info(mode, start) == [mode |-> mode, start |-> start, pregap |-> 0, marks |-> <<>>, isrc |-> 0, written |-> 0]
AdjustOf(reader) == IF reader.tao THEN TaoAdjust ELSE 0
InfosOf(reader) ==
    [nr \in 1 .. N |-> Info(ReadMode(toc.tracks[nr].mode, reader.raw), toc.tracks[nr].start)]
    \o <<Info(ReadMode(toc.tracks[N].mode, reader.raw), LeadOutStart(toc) - AdjustOf(reader))>>

\* A disc has pre-gaps between tracks of different modes; one for the option
\* --tao-source has them around all data tracks, longer by link blocks.
IsSeparate(reader, nr) ==
    \/ toc.tracks[nr].mode # toc.tracks[nr - 1].mode
    \/ reader.tao /\ toc.tracks[nr].mode # "AUDIO"
Suits(reader) == \A nr \in 2 .. N : IsSeparate(reader, nr) => Gap(toc, nr) = TwoSeconds + AdjustOf(reader)
LastBlocks == {toc.tracks[nr].end - 1 : nr \in {k \in 1 .. N : toc.tracks[k].mode # "AUDIO"}}

DataBlocks == {lba \in 0 .. LeadOutStart(toc) - 1 : toc.tracks[TrackAt(lba)].mode # "AUDIO"}
Scratches(blocks) == {(first .. first + length - 1) \cap blocks : first \in blocks, length \in {0, ScratchLength}}

\* getToc() and the modes of the tracks; a scratch hides data or sub-channels.
Insert ==
    /\ pc = "insert" /\ DiscWritten
    /\ job' \in {reader \in Readers : Suits(reader)}
    /\ sheet' = <<>>
    /\ unreadable' \in {s \in Scratches(DataBlocks) : s = {} \/ job'.command = "read-cd"}
    /\ runOut' \in {{}} \cup IF job'.command = "read-cd" /\ unreadable' = {} THEN {LastBlocks} ELSE {}
    /\ hidden' \in {s \in Scratches((0 .. LeadOutStart(toc) - 1) \ DataBlocks) : s = {} \/ (job'.analysis # "fast" /\ unreadable' = {})}
    /\ infos' = InfosOf(job')
    /\ track' = 1
    /\ pc' = IF job'.command = "read-toc" THEN "analyze" ELSE "range"
    /\ UNCHANGED <<toc, enc, written, faults, next, end, burst, good, seen, image, copy>>

\* READ SUB-CHANNEL for the ISRC code of a track
ReadIsrc(nr) == IF toc.tracks[nr].isrc THEN nr ELSE 0
-----------------------------------------------------------------------------
(* Analysis of a track before it is read: a scan of its Q sub-channels, or  *)
(* a search that halves an interval of blocks.                             *)

Nothing == [index |-> 1, marks |-> <<>>, pregap |-> 0, isrc |-> 0, done |-> FALSE]

\* analyzeTrackScan(): one block
NewIndex(s, nr, c) == c.track = nr /\ c.index = s.index + 1
GapFromMutant(elba, c) == elba - c.lba + 1
GapFrom(elba, c) == elba - c.lba
Scanned(s, nr, slba, elba, c) ==
    IF s.done THEN s
    ELSE IF c.kind = "position" /\ NewIndex(s, nr, c)
    THEN [s EXCEPT !.index = c.index, !.marks = Append(@, c.rel)]
    ELSE IF c.kind = "position" /\ c.track = nr + 1 /\ c.index = 0
    THEN [s EXCEPT !.pregap = GapFrom(elba, c), !.done = TRUE]
    ELSE IF c.kind = "isrc" /\ s.isrc = 0 /\ c.lba >= slba + Burst
    THEN [s EXCEPT !.isrc = c.track]
    ELSE s
Scan(nr, slba, elba, stop) ==
    LET before[lba \in slba .. stop] ==
            IF lba = slba THEN Nothing
            ELSE IF lba - 1 \in hidden THEN before[lba - 1]
            ELSE Scanned(before[lba - 1], nr, slba, elba, SubChannelAt(lba - 1))
    IN  before[stop]

\* findIndex(), with the track and index a drive shows when it plays a block
FindIndex(nr, index, trackStart, trackEnd) ==
    LET before(lba) == TrackAt(lba) < nr \/ IndexAt(lba) < index
        search[s \in trackStart .. trackEnd, e \in trackStart .. trackEnd] ==
            LET mid == s + (e - s) \div 2
            IN  IF s >= e THEN 0
                ELSE IF ~before(mid) \/ mid + 1 >= trackEnd THEN search[s, mid]
                ELSE IF TrackAt(mid + 1) = nr /\ IndexAt(mid + 1) = index THEN mid
                ELSE search[mid + 1, e]
    IN  IF trackStart >= trackEnd THEN 0 ELSE search[trackStart, trackEnd]

\* analyzeTrackSearch()
GapBehindMark(elba, lba) == IF lba > 0 THEN elba - lba ELSE 0
Search(nr, slba, elba) ==
    LET marks[index \in 2 .. 99, from \in slba .. elba] ==
            LET lba == FindIndex(nr, index, from, elba - 1)
            IN  IF lba <= 0 THEN <<>>
                ELSE (IF lba > slba THEN <<lba - slba>> ELSE <<>>) \o marks[index + 1, lba]
    IN  [Nothing EXCEPT !.marks = marks[2, slba], !.pregap = GapBehindMark(elba, FindIndex(nr + 1, 0, slba, elba - 1)),
                        !.isrc = ReadIsrc(nr)]

\* analyzeTrack(): a scan that fails keeps what it has found; in a search, a mark
\* whose command fails is taken for missing.
Fast(nr) == [Nothing EXCEPT !.isrc = ReadIsrc(nr)]
Found(nr, slba, elba) ==
    CASE job.analysis = "scan" -> Scan(nr, slba, elba, elba)
      [] job.analysis = "search" -> Search(nr, slba, elba)
      [] job.analysis = "fast" -> Fast(nr)
FoundByFailure(nr, slba, elba) ==
    CASE job.analysis = "scan" -> {Scan(nr, slba, elba, slba + k * Burst) : k \in 0 .. (elba - slba - 1) \div Burst}
      [] job.analysis = "search" ->
            LET s == Search(nr, slba, elba)
            IN  {[s EXCEPT !.pregap = 0]} \cup {[s EXCEPT !.marks = SubSeq(@, 1, k)] : k \in 0 .. Len(s.marks)}
      [] job.analysis = "fast" -> {}

\* readDiskToc(): one track; the pre-gap found belongs to the next one.  Between
\* tracks of different modes it is taken for granted.
StandardGap(nr) ==
    IF job.tao THEN IF nr < N /\ {infos[nr].mode, infos[nr + 1].mode} # {"AUDIO"} THEN TwoSeconds + TaoAdjust ELSE 0
    ELSE IF infos[nr].mode # infos[nr + 1].mode THEN TwoSeconds ELSE 0
AnalyzeTrack ==
    /\ pc = "analyze" /\ track <= N
    /\ LET slba == infos[track].start
           elba == infos[track + 1].start - StandardGap(track)
           audio == infos[track].mode = "AUDIO"
       IN  \E fails \in Outcomes :
           \E found \in IF ~audio THEN {Nothing} ELSE IF fails THEN FoundByFailure(track, slba, elba) ELSE {Found(track, slba, elba)} :
                /\ Count(fails)
                /\ infos' = [infos EXCEPT ![track].marks = found.marks, ![track].isrc = found.isrc,
                                       ![track].pregap = IF track = 1 THEN infos[1].start ELSE @,
                                       ![track + 1].pregap = IF track = N THEN 0
                                                             ELSE IF StandardGap(track) # 0 THEN StandardGap(track) ELSE found.pregap]
    /\ track' = track + 1
    /\ pc' = IF track' > N THEN "build" ELSE pc
    /\ UNCHANGED <<encoderVars, discVars, next, end, burst, good, seen, image, copy>>
-----------------------------------------------------------------------------
(* readDisk(): the loop over data tracks and ranges of audio tracks.        *)

RangeEnd == IF \E nr \in track .. N : infos[nr].mode # "AUDIO"
            THEN Min({nr \in track .. N : infos[nr].mode # "AUDIO"}) - 1 ELSE N
GapBefore == IF track = 1 THEN infos[1].start
             ELSE IF job.tao THEN TwoSeconds + TaoAdjust
             ELSE IF infos[track].mode # infos[track - 1].mode THEN TwoSeconds ELSE 0
GapBehind(nr) == IF job.tao THEN IF nr < N THEN TwoSeconds + TaoAdjust ELSE 0
                 ELSE IF infos[nr].mode # infos[nr + 1].mode THEN TwoSeconds ELSE 0

StartDataTrack ==
    /\ pc = "range" /\ track <= N /\ infos[track].mode # "AUDIO"
    /\ infos' = [infos EXCEPT ![track].pregap = GapBefore]
    /\ next' = infos[track].start
    /\ end' = infos[track + 1].start - GapBehind(track)
    /\ burst' = Burst /\ good' = 0
    /\ pc' = "data"
    /\ UNCHANGED <<encoderVars, faults, discVars, track, seen, image, copy>>

\* readAudioRange(): a drive without sub-channel data searches before it reads.
SearchRange(tracks) ==
    LET e(nr) == infos[nr + 1].start - IF infos[nr].mode = infos[nr + 1].mode THEN 0 ELSE TwoSeconds
        found == [nr \in tracks |-> IF job.analysis = "search" THEN Search(nr, infos[nr].start, e(nr)) ELSE Fast(nr)]
    IN  [nr \in 1 .. N + 1 |->
            [infos[nr] EXCEPT !.marks = IF nr \in tracks THEN found[nr].marks ELSE @,
                              !.isrc = IF nr \in tracks THEN found[nr].isrc ELSE @,
                              !.pregap = IF nr = track THEN GapBefore ELSE IF nr \in tracks THEN found[nr - 1].pregap ELSE @]]
AudioStart == IF track = 1 /\ ~job.padFirst THEN 0 ELSE infos[track].start
StartAudioRange ==
    /\ pc = "range" /\ track <= N /\ infos[track].mode = "AUDIO"
    /\ infos' = IF job.analysis = "scan" THEN [infos EXCEPT ![track].pregap = GapBefore] ELSE SearchRange(track .. RangeEnd)
    /\ next' = AudioStart
    /\ end' = IF RangeEnd = N THEN LeadOutStart(toc) ELSE infos[RangeEnd + 1].start - GapBehind(RangeEnd)
    /\ seen' = [track |-> track, index |-> 1, lba |-> next' - 1]
    /\ pc' = "audio"
    /\ UNCHANGED <<encoderVars, faults, discVars, track, burst, good, image, copy>>
-----------------------------------------------------------------------------
(* readDataTrack(): one round of its loop.  Behind an L-EC error it reads   *)
(* block by block, until it has been good for a while.                     *)

Blocks(first, n) == [i \in 1 .. n |-> Data(first + i - 1)]
Store(blocks, nr) ==
    /\ image' = image \o blocks
    /\ infos' = [infos EXCEPT ![nr].written = @ + Len(blocks)]

ActualBurst == IF burst # Burst /\ good > 2 * Burst THEN Burst ELSE burst
Wanted == Lesser(ActualBurst, end - next)

\* readTrackData() of GenericMMC and of the drivers of older readers tells of all
\* blocks it wants, of those up to one of another mode, of an L-EC error (LEC), or
\* of any other error (Failure).
LEC == -2
Failure == -1
ReadTrackData ==
    LET wanted == next .. next + Wanted - 1
    IN  IF wanted \cap unreadable # {} THEN {LEC}
        ELSE IF wanted \cap runOut # {} THEN {LEC, Min(wanted \cap runOut) - next}
        ELSE {Wanted}

CanIgnoreMutant == IsRaw(infos[track].mode)
CanIgnore == IsRaw(infos[track].mode) /\ Wanted = 1
AfterErrorMutant == Burst
AfterError == 1
ReadDataTrack ==
    /\ pc = "data" /\ next < end
    /\ \E fails \in Outcomes : \E act \in IF fails THEN {Failure, 0} ELSE ReadTrackData :
       /\ Count(fails)
       /\ \/ /\ act = Wanted
             /\ Store(Blocks(next, act), track)
             /\ next' = next + act /\ good' = good + 1 /\ burst' = ActualBurst
             /\ UNCHANGED pc
          \/ /\ act \in 0 .. Wanted - 1 \* the rest is padded, e.g. for discs written track at once
             /\ Store(Blocks(next, act) \o ZeroBlocks(end - next - act), track)
             /\ next' = end
             /\ UNCHANGED <<pc, good, burst>>
          \/ /\ act = LEC /\ CanIgnore
             /\ Store(<<Dummy(next)>>, track)
             /\ next' = next + 1 /\ good' = 0 /\ burst' = ActualBurst
             /\ UNCHANGED pc
          \/ /\ act = LEC /\ IsRaw(infos[track].mode) /\ ~CanIgnore
             /\ good' = 0 /\ burst' = AfterError
             /\ UNCHANGED <<pc, next, image, infos>>
          \/ /\ act = Failure \/ (act = LEC /\ ~IsRaw(infos[track].mode))
             /\ pc' = "failed"
             /\ UNCHANGED <<next, good, burst, image, infos>>
    /\ UNCHANGED <<encoderVars, discVars, track, end, seen, copy>>

DataTrackRead ==
    /\ pc = "data" /\ next = end
    /\ track' = track + 1
    /\ pc' = "range"
    /\ UNCHANGED <<encoderVars, faults, discVars, infos, next, end, burst, good, seen, image, copy>>
-----------------------------------------------------------------------------
(* readAudioRangeStream() and readAudioRangeParanoia(): one audioRead().    *)
(* Paranoia reads blocks again; the blocks of a read that fails are zeros.  *)

\* audioRead(): of one Q sub-channel in a read of n blocks from first on
FollowsMutant(s, c) == TRUE
Follows(s, c) == c.lba > s.lba
See(s, c, first, n) ==
    LET t == c.track
        marked == t = s.track /\ c.index = s.index + 1 /\ c.index > 1
        gap == t = s.track + 1 /\ c.index = 0
    IN  IF c.kind = "position" /\ t \in track .. RangeEnd /\ Follows(s, c) /\ c.lba < s.infos[t + 1].start
        THEN [s EXCEPT !.infos[t].marks = IF marked THEN Append(@, c.rel) ELSE @,
                       !.infos[t].pregap = IF gap THEN first + n + 1 - c.lba ELSE @,
                       !.track = t, !.index = c.index, !.lba = c.lba]
        ELSE IF c.kind = "isrc" /\ s.infos[s.track].isrc = 0
        THEN [s EXCEPT !.infos[s.track].isrc = t]
        ELSE s
SeeAll(first, n) ==
    LET before[lba \in first .. first + n] ==
            IF lba = first THEN [track |-> seen.track, index |-> seen.index, lba |-> seen.lba, infos |-> infos]
            ELSE IF lba - 1 \in hidden THEN before[lba - 1]
            ELSE See(before[lba - 1], SubChannelAt(lba - 1), first, n)
    IN  before[first + n]

ReadAudio ==
    /\ pc = "audio" /\ next < end
    /\ \E back \in {0, Overlap}, fails \in Outcomes :
        LET first == next - back
            n == Lesser(Burst, end - first)
            s == IF fails \/ job.analysis # "scan"
                 THEN [track |-> seen.track, index |-> seen.index, lba |-> seen.lba, infos |-> infos]
                 ELSE SeeAll(first, n)
        IN  /\ first >= AudioStart
            /\ Count(fails)
            /\ image' = image \o IF fails THEN ZeroBlocks(n - back) ELSE Blocks(next, n - back)
            /\ infos' = [s.infos EXCEPT ![RangeEnd].written = @ + n - back]
            /\ seen' = [track |-> s.track, index |-> s.index, lba |-> s.lba]
            /\ next' = next + n - back
    /\ UNCHANGED <<encoderVars, pc, discVars, track, end, burst, good, copy>>

AudioRangeRead ==
    /\ pc = "audio" /\ next = end
    /\ track' = RangeEnd + 1
    /\ pc' = "range"
    /\ UNCHANGED <<encoderVars, faults, discVars, infos, next, end, burst, good, seen, image, copy>>

\* The file cannot be opened or written.
WriteFails ==
    /\ MayFail /\ pc \in {"range", "data", "audio"}
    /\ Count(TRUE)
    /\ pc' = "failed"
    /\ UNCHANGED <<encoderVars, discVars, readVars>>
-----------------------------------------------------------------------------
(* buildToc(): pieces of silence, and of the image from a block on.         *)

Silent(n) == IF n > 0 THEN <<[file |-> FALSE, from |-> 0, length |-> n]>> ELSE <<>>
FromFile(from, n) == <<[file |-> TRUE, from |-> from, length |-> n]>>
RunStart(nr) == Min({r \in 1 .. nr : \A k \in r .. nr : infos[k].mode = infos[nr].mode})
ModeStart(nr) == IF RunStart(nr) = 1 /\ ~job.padFirst THEN 0 ELSE infos[RunStart(nr)].start
WrittenUpTo(nr) == LET n[k \in 0 .. nr] == IF k = 0 THEN 0 ELSE n[k - 1] + infos[k].written IN n[nr]
Offset(nr) == WrittenUpTo(nr - 1)
TrackLength(nr) == infos[nr + 1].start - infos[nr].start - infos[nr + 1].pregap
Pieces(nr) ==
    LET t == infos[nr]
        apart == t.mode # "AUDIO" \/ (RunStart(nr) = nr /\ (nr > 1 \/ job.padFirst))
    IN  IF apart THEN Silent(t.pregap) \o FromFile(Offset(nr), TrackLength(nr))
        ELSE FromFile(Offset(nr) + t.start - ModeStart(nr) - t.pregap, TrackLength(nr) + t.pregap)
BuildToc ==
    /\ pc = "build" \/ (pc = "range" /\ track > N)
    /\ copy' = [nr \in 1 .. N |-> [mode |-> infos[nr].mode, isrc |-> infos[nr].isrc, gap |-> infos[nr].pregap,
                                   indices |-> infos[nr].marks, pieces |-> Pieces(nr)]]
    /\ pc' = "done"
    /\ UNCHANGED <<encoderVars, faults, discVars, infos, track, next, end, burst, good, seen, image>>
-----------------------------------------------------------------------------
Init ==
    /\ EncoderInit
    /\ pc = "insert" /\ job \in {CHOOSE reader \in Readers : TRUE} /\ faults = 0
    /\ unreadable = {} /\ runOut = {} /\ hidden = {}
    /\ infos = <<>> /\ track = 0 /\ next = 0 /\ end = 0 /\ burst = 0 /\ good = 0
    /\ seen = [track |-> 0, index |-> 0, lba |-> 0]
    /\ image = <<>> /\ copy = <<>>

Finished == pc \in {"done", "failed"} /\ UNCHANGED vars

Next ==
    \/ EncodeSubChannel /\ UNCHANGED <<pc, faults, discVars, readVars>>
    \/ Insert
    \/ AnalyzeTrack
    \/ StartDataTrack \/ ReadDataTrack \/ DataTrackRead
    \/ StartAudioRange \/ ReadAudio \/ AudioRangeRead
    \/ WriteFails
    \/ BuildToc
    \/ Finished

Spec == Init /\ [][Next]_vars
FairSpec == Spec /\ WF_vars(Next)
-----------------------------------------------------------------------------
(* Properties.                                                             *)

Length(nr) == IF Len(copy[nr].pieces) = 1 THEN copy[nr].pieces[1].length ELSE copy[nr].pieces[1].length + copy[nr].pieces[2].length
CopyStart(nr) == LET behind[k \in 0 .. nr] == IF k = 0 THEN 0 ELSE behind[k - 1] + Length(k) IN behind[nr - 1] + copy[nr].gap
Content(piece) == IF piece.file THEN SubSeq(image, piece.from + 1, piece.from + piece.length) ELSE ZeroBlocks(piece.length)
CopyBlocks == FlattenSeq([nr \in DOMAIN copy |-> FlattenSeq([i \in DOMAIN copy[nr].pieces |-> Content(copy[nr].pieces[i])])])

\* The blocks before a track that are not read, but taken for zeros.
TakenForZeros(lba) ==
    LET nr == TrackAt(lba)
    IN  lba < toc.tracks[nr].start /\ IF nr = 1 THEN job.padFirst \/ toc.tracks[1].mode # "AUDIO" ELSE IsSeparate(job, nr)
Faithful(lba) ==
    LET bad == toc.tracks[TrackAt(lba)].mode # "AUDIO" /\ lba \in unreadable \cup runOut
    IN  IF TakenForZeros(lba) THEN {ZeroBlock}
        ELSE (IF ~bad THEN {Data(lba)} ELSE IF lba \in runOut THEN {Dummy(lba), ZeroBlock} ELSE {Dummy(lba)})
             \cup IF faults > 0 THEN {ZeroBlock} ELSE {}

\* The copy of a disc has each block at its place: what cannot be read is
\* replaced, block by block, but never shifts or takes away what can be read.
CopyIsDisc ==
    pc = "done" /\ job.command = "read-cd" =>
        LET blocks == CopyBlocks
        IN  /\ Len(blocks) = LeadOutStart(toc) - AdjustOf(job)
            /\ \A i \in DOMAIN blocks : blocks[i] \in Faithful(i - 1)

\* Index marks that sub-channels tell of are marks of the disc, each one once, also
\* when blocks are read twice or not at all.  If no read fails, a mark is late only
\* by blocks that do not show their position; if all do, no mark is missing, and a
\* track analyzed before it is read gets no foreign ISRC code.
Shown(lba) == lba \notin hidden /\ SubChannelAt(lba).kind = "position"
MarksAreReal ==
    pc = "done" /\ job.analysis = "scan" =>
        \A nr \in {k \in 1 .. N : toc.tracks[k].mode = "AUDIO"} :
            LET t == toc.tracks[nr]
                marks == copy[nr].indices
            IN  /\ Len(marks) <= Len(t.indices)
                /\ \A i \in 2 .. Len(marks) : marks[i - 1] < marks[i]
                /\ faults = 0 => \A i \in DOMAIN marks : \E k \in DOMAIN t.indices :
                     t.indices[k] <= marks[i] /\ \A lba \in t.start + t.indices[k] .. t.start + marks[i] - 1 : ~Shown(lba)
                /\ faults = 0 /\ hidden = {} => marks = t.indices /\ (job.command = "read-cd" \/ copy[nr].isrc \in {0, ReadIsrc(nr)})

StartsAreKept ==
    \A nr \in 1 .. N : CopyStart(nr) = toc.tracks[nr].start /\ copy[nr].mode = ReadMode(toc.tracks[nr].mode, job.raw)
GapIsFound(nr) == copy[nr].gap = Gap(toc, nr)
ScanFindsGaps ==
    job.analysis = "scan" /\ job.command = "read-toc" /\ faults = 0 /\ hidden = {} => \A nr \in 2 .. N : GapIsFound(nr)
\* findIndex() returns the block before a mark: a search finds one a block early, and
\* none that is right behind the beginning of what it searches.
FoundGap(nr) ==
    IF toc.tracks[nr].mode # "AUDIO" THEN Gap(toc, nr) ELSE IF Gap(toc, nr) > 1 THEN Gap(toc, nr) + 1 ELSE 0
SearchFindsMarks ==
    job.analysis = "search" /\ faults = 0 =>
        \A nr \in 1 .. N :
            /\ ToSet(copy[nr].indices) = {i - 1 : i \in ToSet(toc.tracks[nr].indices)} \ {0}
            /\ nr > 1 /\ toc.tracks[nr - 1].mode = "AUDIO" => copy[nr].gap = FoundGap(nr)
\* Whatever the analysis has found before and behind it, each track starts where
\* it starts on the disc.  A scan finds the pre-gaps between audio tracks.  A
\* search finds each mark that is not the first block it could be at, one block
\* early, and no other.
TocIsDisc == pc = "done" => StartsAreKept /\ ScanFindsGaps /\ SearchFindsMarks

\* The reader gets through every disc: behind an error it neither repeats a
\* burst for ever nor stays at a block.
ReadingEnds == <>(pc \in {"done", "failed"})

\* While it reads, the program sets the pre-gap of the next track to the "number
\* of frames until start of Index 01" (CdrDriver.cc:4099).
PregapIsCounted ==
    pc = "done" /\ job.analysis = "scan" /\ job.command = "read-cd" /\ faults = 0 /\ hidden = {} =>
        \A nr \in 2 .. N : GapIsFound(nr)
=============================================================================
