------------------------------- MODULE Track -------------------------------
(***************************************************************************)
(* trackdb/Track.cc: what the operations of a Track compute.  A track is a *)
(* list of sub-tracks (pieces of files or silence, with a padding          *)
(* sub-track where a run of one mode does not fill its last block), the    *)
(* length of its pre-gap, and its index increments.                        *)
(*                                                                         *)
(* A piece names the samples it holds: sample pos + k of file, or silence. *)
(* ISRC code, flags and CD-TEXT are left out.                              *)
(***************************************************************************)
EXTENDS Integers, Sequences, SequencesExt

CONSTANTS
    SAMPLES_PER_BLOCK, \* 588
    BlockSize,         \* mode -> dataBlockSize(), for the modes other than plain audio
    MaxIndices,        \* 98
    FourSeconds,       \* 4 * 75 blocks
    Silence            \* the "file" of a ZERODATA piece

\* "AUDIO" is plain audio, counted in samples (audioCutMode_ = 1); "RW" is
\* audio with sub-channel data, and "DATA" any data mode, counted in bytes.
Modes == {"AUDIO", "RW", "DATA"}

ASSUME TrackAssumption ==
    /\ SAMPLES_PER_BLOCK \in Nat \ {0}
    /\ BlockSize \in [Modes -> Nat \ {0}]
    /\ MaxIndices \in Nat
    /\ Silence \in STRING
    /\ FourSeconds \in Nat
    /\ FourSeconds > MaxIndices + 1 \* as 300 > 99

\* A loop over a list: Step makes a new value of the one so far and an element.
Loop(Step(_, _), base, list) ==
    LET value[i \in 0 .. Len(list)] == IF i = 0 THEN base ELSE Step(value[i - 1], list[i]) IN value[Len(list)]

LargerOf(a, b) == IF a < b THEN b ELSE a
Ceiling(n, d) == (n + d - 1) \div d
Msf(lba) == LargerOf(lba, 0)

Piece(mode, file, pos, len) == [pad |-> FALSE, mode |-> mode, file |-> file, pos |-> pos, len |-> len]
Padding(mode, len) == [Piece(mode, Silence, 0, len) EXCEPT !.pad = TRUE]
IsPadding(st) == st.pad
AsData(st) == [st EXCEPT !.pad = FALSE] \* SubTrack(SubTrack::DATA, ...)
TotalLength(subs) == LET sum[i \in 0 .. Len(subs)] == IF i = 0 THEN 0 ELSE sum[i - 1] + subs[i].len IN sum[Len(subs)]
-----------------------------------------------------------------------------
(* The summary data that update() computes.                                *)

AudioCutMode(subs) == subs[1].mode = "AUDIO"
BlockLength(subs, i) == IF AudioCutMode(subs) THEN SAMPLES_PER_BLOCK ELSE BlockSize[subs[i].mode]
EndsRun(subs, i) == i = Len(subs) \/ subs[i + 1].mode # subs[i].mode
RunUpTo(subs, i) ==
    LET first == CHOOSE j \in 1 .. i : /\ j = 1 \/ EndsRun(subs, j - 1)
                                       /\ \A k \in j .. i - 1 : ~EndsRun(subs, k)
    IN  TotalLength(SubSeq(subs, first, i))
PadLength(subs, i) == (-RunUpTo(subs, i)) % BlockLength(subs, i)

Unpadded(subs) == Loop(LAMBDA kept, st : IF IsPadding(st) THEN kept ELSE Append(kept, st), <<>>, subs)
WithPadding(subs, i) ==
    IF EndsRun(subs, i) /\ PadLength(subs, i) > 0
    THEN <<subs[i], Padding(IF AudioCutMode(subs) THEN "AUDIO" ELSE subs[i].mode, PadLength(subs, i))>>
    ELSE <<subs[i]>>
Padded(subs) ==
    LET list[i \in 0 .. Len(subs)] == IF i = 0 THEN <<>> ELSE list[i - 1] \o WithPadding(subs, i) IN list[Len(subs)]
BlocksOfRun(subs, i) == IF EndsRun(subs, i) THEN Ceiling(RunUpTo(subs, i), BlockLength(subs, i)) ELSE 0
LengthInBlocks(subs) ==
    LET sum[i \in 0 .. Len(subs)] == IF i = 0 THEN 0 ELSE sum[i - 1] + BlocksOfRun(subs, i) IN sum[Len(subs)]

Length(t) == t.length
ResetStart(start, length) == IF start >= length THEN 0 ELSE start
Update(t) ==
    LET u == Unpadded(t.subTracks)
        length == LengthInBlocks(u)
    IN  [t EXCEPT !.subTracks = Padded(u), !.length = length, !.start = ResetStart(@, length)]

NewTrack(mode) == [mode |-> mode, subTracks |-> <<>>, length |-> 0, start |-> 0, index |-> <<>>]
AcceptsMode(t, st) == t.subTracks = <<>> \/ (st.mode = "AUDIO") = AudioCutMode(t.subTracks)
AppendSubTrack(t, st) ==
    IF AcceptsMode(t, st) THEN Update([t EXCEPT !.subTracks = Append(@, st)]) ELSE t
-----------------------------------------------------------------------------
(* Start and index increments.  An operation that may refuse gives the     *)
(* code it returns and the track it leaves behind.                         *)

Result(ret, t) == [ret |-> ret, track |-> t]

SetStart(t, s) == IF s >= Length(t) /\ Length(t) # 0 THEN t ELSE [t EXCEPT !.start = s]

FirstIndexFrom(t, pos) == \* the loop of addIndex(): the place of the first increment not before pos
    LET later == {i \in DOMAIN t.index : t.index[i] >= pos}
    IN  IF later = {} THEN Len(t.index) + 1 ELSE Min(later)
IndicesFull(t) == Len(t.index) = MaxIndices
AddIndex(t, pos) ==
    LET i == FirstIndexFrom(t, pos)
    IN  IF IndicesFull(t) THEN Result(1, t)
        ELSE IF \/ pos >= Msf(Length(t) - t.start)
                \/ pos = 0
                \/ i \in DOMAIN t.index /\ t.index[i] = pos
             THEN Result(2, t)
             ELSE Result(0, [t EXCEPT !.index = InsertAt(@, i, pos)])
RemoveIndex(t, i) == \* i counts from 0
    IF i \in 0 .. Len(t.index) - 1
    THEN Result(0, [t EXCEPT !.index = RemoveAt(@, i + 1)])
    ELSE Result(1, t)

\* The assertions at the entry of moveIndex(); the second one compares the
\* number of the index, not the position, with the length.
MoveIndexAsserts(t, index, lba) ==
    /\ index > 0 /\ index - 2 < Len(t.index)
    /\ lba >= 0 /\ index < Length(t)
Shifted(index, by) == [i \in DOMAIN index |-> index[i] + by]
TooLateMutant(t, lba) == lba > Length(t) - 1
TooLate(t, lba) == lba > Length(t) - FourSeconds
StartMovedMutant(t, lba) == [t EXCEPT !.index = Shifted(@, t.start - lba)]
StartMoved(t, lba) == [t EXCEPT !.index = Shifted(@, t.start - lba), !.start = lba]
MoveStart(t, lba) ==
    IF t.index # <<>> /\ lba >= t.start + t.index[1] THEN Result(2, t)
    ELSE IF TooLate(t, lba) THEN Result(1, t)
    ELSE Result(0, StartMoved(t, lba))
BetweenNeighbours(t, i, pos) ==
    /\ pos > (IF i = 1 THEN 0 ELSE t.index[i - 1])
    /\ pos < (IF i = Len(t.index) THEN Length(t) - t.start ELSE t.index[i + 1])
MoveIncrement(t, i, lba) ==
    IF lba > t.start /\ BetweenNeighbours(t, i, lba - t.start)
    THEN Result(0, [t EXCEPT !.index[i] = lba - t.start])
    ELSE Result(2, t)
MoveIndex(t, index, lba) ==
    IF index = 1 THEN MoveStart(t, lba) ELSE MoveIncrement(t, index - 1, lba)
-----------------------------------------------------------------------------
(* Moving samples in and out of a track.                                   *)

SubTrackStart(subs, i) == TotalLength(SubSeq(subs, 1, i - 1))
FindSubTrack(subs, sample) ==
    Min({i \in DOMAIN subs : i = Len(subs) \/ sample < SubTrackStart(subs, i + 1)})

SecondPartMutant(st, n) == [st EXCEPT !.len = @ - n]
PositionOf(st, n) == IF st.file = Silence THEN st.pos ELSE st.pos + n
SecondPart(st, n) == [st EXCEPT !.len = @ - n, !.pos = PositionOf(st, n)]
\* The list before and from a sample; TrackData::split() if it is inside a piece.
Split(subs, sample) ==
    IF subs = <<>> \/ sample >= TotalLength(subs) THEN [before |-> subs, from |-> <<>>]
    ELSE LET i == FindSubTrack(subs, sample)
             n == sample - SubTrackStart(subs, i)
         IN  IF n = 0
             THEN [before |-> SubSeq(subs, 1, i - 1), from |-> SubSeq(subs, i, Len(subs))]
             ELSE [before |-> Append(SubSeq(subs, 1, i - 1), [subs[i] EXCEPT !.len = n]),
                   from |-> <<SecondPart(subs[i], n)>> \o SubSeq(subs, i + 1, Len(subs))]

Mergeable(a, b) ==
    /\ a.pad = b.pad /\ a.mode = b.mode /\ a.mode # "DATA" /\ a.file = b.file
    /\ a.file = Silence \/ a.pos + a.len = b.pos
MergeNext(done, st) ==
    IF done # <<>> /\ Mergeable(done[Len(done)], st) THEN [done EXCEPT ![Len(done)].len = @ + st.len]
    ELSE Append(done, st)
MergeSubTracks(subs) == Loop(MergeNext, <<>>, subs)
Merged(t, subs) == Update([t EXCEPT !.subTracks = MergeSubTracks(subs)])

\* removeToEnd() and removeFromStart() keep the increments before the first
\* one that is now behind the end of the track.
DropIndicesBehindEnd(t) ==
    LET behind == {i \in DOMAIN t.index : t.index[i] + t.start >= Length(t)}
    IN  IF behind = {} THEN t ELSE [t EXCEPT !.index = SubSeq(@, 1, Min(behind) - 1)]
RemoveAsserts(t, sample) == sample > 0 /\ sample < Length(t) * SAMPLES_PER_BLOCK
Keeping(t, subs) == DropIndicesBehindEnd(Update([t EXCEPT !.subTracks = subs]))
Removal(list, t) == [list |-> [i \in DOMAIN list |-> AsData(list[i])], track |-> t]
RemoveToEnd(t, sample) ==
    LET s == Split(t.subTracks, sample) IN Removal(s.from, Keeping(t, s.before))
RemoveFromStart(t, sample) ==
    LET s == Split(t.subTracks, sample) IN Removal(s.before, Keeping(t, s.from))

PrependTrackData(t, list) == IF list = <<>> THEN t ELSE Merged(t, list \o t.subTracks)
PadToDataMutant(subs) == subs
PadToData(subs) == IF subs = <<>> THEN subs ELSE [subs EXCEPT ![Len(subs)] = AsData(@)]
AppendTrackData(t, list) == IF list = <<>> THEN t ELSE Merged(t, PadToData(t.subTracks) \o list)
AppendWholeTrack(t, other) == Merged(t, t.subTracks \o other.subTracks)
-----------------------------------------------------------------------------
(* Cutting samples out of a track and inserting samples.                   *)

\* What a cut of the samples first..last does to the pre-gap and the index
\* increments.  Increments in slba..elba go, later ones move by indexMove,
\* and all by one more (indexAdj) when the pre-gap loses part of a block.
InPregap(t, sample) == sample < t.start * SAMPLES_PER_BLOCK
CutAdjustment(t, first, last) ==
    LET start == t.start * SAMPLES_PER_BLOCK
        gap == IF InPregap(t, last) THEN last - first + 1 ELSE start - first
        marks == [slba |-> -1, elba |-> -1, indexMove |-> 0, indexAdj |-> 0, preGapAdj |-> 0]
    IN  IF InPregap(t, first)
        THEN [marks EXCEPT
               !.slba = IF InPregap(t, last) THEN @ ELSE 0,
               !.elba = IF InPregap(t, last) THEN @ ELSE (last - start) \div SAMPLES_PER_BLOCK,
               !.indexMove = IF InPregap(t, last) THEN @
                             ELSE Ceiling(last - start + 1, SAMPLES_PER_BLOCK),
               !.preGapAdj = gap \div SAMPLES_PER_BLOCK,
               !.indexAdj = IF gap % SAMPLES_PER_BLOCK # 0 THEN 1 ELSE 0]
        ELSE [marks EXCEPT
               !.slba = Ceiling(first - start, SAMPLES_PER_BLOCK),
               !.elba = (last - start) \div SAMPLES_PER_BLOCK,
               !.indexMove = Ceiling(last - first + 1, SAMPLES_PER_BLOCK)]

\* One turn of the loop over the increments; done holds those already adjusted.
MovedIndexMutant(c, pos) == pos
MovedIndex(c, pos) == IF pos > c.elba THEN pos - c.indexMove ELSE pos
RepeatsMutant(c, done, pos) == FALSE
Repeats(c, done, pos) == pos > c.elba /\ done # <<>> /\ done[Len(done)] = MovedIndex(c, pos)
AdjustIndex(c, done, pos) ==
    IF \/ pos >= c.slba /\ pos <= c.elba
       \/ MovedIndex(c, pos) - c.indexAdj <= 0
       \/ Repeats(c, done, pos)
    THEN done
    ELSE Append(done, MovedIndex(c, pos) - c.indexAdj)

CutOut(subs, first, last) == Split(Split(subs, last + 1).before, first).from
CutAwayMutant(subs, first, last) == Split(subs, first).before \o Split(subs, last).from
CutAway(subs, first, last) == Split(subs, first).before \o Split(subs, last + 1).from
\* The loop over the pieces between the first and the last appends startSt->next_ each time.
InnerPiece(pieces, i) == pieces[2]
CopiedPieces(pieces) ==
    [i \in DOMAIN pieces |-> IF i \in {1, Len(pieces)} THEN pieces[i] ELSE InnerPiece(pieces, i)]
RemoveTrackData(t, first, last) ==
    LET c == CutAdjustment(t, first, last)
        adjusted == [t EXCEPT !.index = Loop(LAMBDA done, pos : AdjustIndex(c, done, pos), <<>>, @),
                              !.start = Msf(@ - c.preGapAdj)]
    IN  Removal(CopiedPieces(CutOut(t.subTracks, first, last)),
                Merged(adjusted, CutAway(t.subTracks, first, last)))

\* The increments from pos on, or the pre-gap if pos is in it, make room for blen blocks.
Follows(t, i, pos) == t.index[i] * SAMPLES_PER_BLOCK >= pos
MakeRoom(t, pos, blen) ==
    IF pos <= t.start * SAMPLES_PER_BLOCK THEN [t EXCEPT !.start = @ + blen]
    ELSE [t EXCEPT !.index = [i \in DOMAIN @ |-> IF Follows(t, i, pos) THEN @[i] + blen ELSE @[i]]]
\* A split piece becomes data in its first part and keeps its type in the second.
InsertTrackData(t, pos, list) ==
    LET s == Split(t.subTracks, pos)
        head == IF pos \in {SubTrackStart(t.subTracks, i) : i \in DOMAIN t.subTracks}
                THEN s.before ELSE PadToData(s.before)
    IN  IF TotalLength(list) = 0 THEN t
        ELSE Merged(MakeRoom(t, pos, TotalLength(list) \div SAMPLES_PER_BLOCK), head \o list \o s.from)
=============================================================================
