----------------------------- MODULE TocReader -----------------------------
(***************************************************************************)
(* Reading a TOC: TocReader (samples of a disc, with seeking), TrackReader *)
(* (blocks of a track for writing, samples for TocReader) and              *)
(* TrackDataReader (one sub-track, from its file).  A step is one read of  *)
(* a sub-track with what its callers do up to the next one.                *)
(*                                                                         *)
(* The units of a plain audio track are samples, those of other tracks     *)
(* bytes.  Sector encoding and byte order are left out.                    *)
(***************************************************************************)
EXTENDS Track

CONSTANTS
    Discs,          \* TOCs that are read
    SAMPLE_LEN,     \* 4: bytes of a sample
    SubChannelSize, \* 96: bytes of sub-channel data in a block, here the last ones
    FileLength,     \* units in a file, which may be fewer than its pieces want
    Lengths,        \* samples or blocks that a call asks for
    Faulty          \* files may fail to open, seek or read

ASSUME ReaderAssumption ==
    /\ SAMPLE_LEN \in Nat \ {0} /\ SubChannelSize \in Nat \ {0}
    /\ BlockSize["RW"] = SAMPLES_PER_BLOCK * SAMPLE_LEN + SubChannelSize
    /\ Lengths \subseteq Nat \ {0}
    /\ \A f \in DOMAIN FileLength : FileLength[f] \in Nat

\* dataBlockSize() of the mode of a track, or samples of a block.
UnitsOfTrackBlock(t) == IF AudioCutMode(t.subTracks) THEN SAMPLES_PER_BLOCK ELSE BlockSize[t.mode]

\* A track that TocParser has read: Track::append() takes plain audio or other
\* pieces, but not both, and update() has filled the last block.
Loadable(t) ==
    /\ t.mode \in Modes /\ t.length \in Nat
    /\ t.subTracks \in Seq([pad : BOOLEAN, mode : Modes, file : DOMAIN FileLength \cup {Silence}, pos : Nat, len : Nat])
    /\ t.subTracks # <<>>
    /\ (t.mode = "AUDIO") = AudioCutMode(t.subTracks)
    /\ t.mode # "DATA" => t.length * UnitsOfTrackBlock(t) <= TotalLength(t.subTracks)
ASSUME DiscAssumption ==
    \A disc \in Discs : /\ Len(disc) \in Nat \ {0} /\ DOMAIN disc = 1 .. Len(disc)
                        /\ \A nr \in 1 .. Len(disc) : Loadable(disc[nr])

VARIABLES
    toc,
    user,          \* "none", "samples" of the disc or "blocks" of one track
    readTrack,     \* TocReader::readTrack_, TrackReader::track_
    tocPos,        \* TocReader::readPosSample_
    trackPos,      \* TrackReader::readPosSample_
    readPos,       \* TrackReader::readPos_, in blocks
    readSubTrack,  \* TrackReader::readSubTrack_
    dataPos,       \* TrackDataReader::readPos_
    call,          \* the local variables of the call that is under way
    answer,        \* what the last call returned
    aborted,       \* an assertion has failed
    image          \* of what is open: what its sub-tracks make up (for the properties)

vars == <<toc, user, readTrack, tocPos, trackPos, readPos, readSubTrack, dataPos, call, answer, aborted, image>>

Zero == <<Silence, 0>>
Stale == <<"stale", 0>>   \* what the buffer held before
Filler == <<"filler", 0>> \* 16000, for the samples of data tracks
Failed == <<<<"failed", 0>>>>
Idle == [pc |-> "idle", asked |-> 0, left |-> 0, share |-> 0, inTrack |-> 0, count |-> 0, mode |-> "AUDIO", got |-> <<>>]
-----------------------------------------------------------------------------
T == toc[readTrack]
S == T.subTracks[readSubTrack]
Plain(t) == t.mode = "AUDIO"
SampleOf(lba) == lba * SAMPLES_PER_BLOCK
StartOf(disc, nr) ==
    LET end[k \in 0 .. Len(disc)] == IF k = 0 THEN 0 ELSE end[k - 1] + disc[k].length IN SampleOf(end[nr - 1])
AbsStart(nr) == StartOf(toc, nr)
DiscSamples == AbsStart(Len(toc) + 1)
TrackOf(sample) == Min({nr \in DOMAIN toc : sample < AbsStart(nr + 1)})

\* dataBlockSize() of a sub-track, or samples of a block.
UnitsOfBlock(t, st) == IF AudioCutMode(t.subTracks) THEN SAMPLES_PER_BLOCK ELSE BlockSize[st.mode]

\* fullRead() of n units, or zeros.  Samples behind the end of a file are set to
\* zero at another place of the buffer unless all of them are missing; missing
\* data is an error.
ReadFrom(st, from, n) ==
    LET missing == st.pos + from + n - FileLength[st.file]
        real == [i \in 1 .. n |-> <<st.file, st.pos + from + i - 1>>]
    IN  CASE st.file = Silence -> {[i \in 1 .. n |-> Zero]}
          [] st.file # Silence /\ missing <= 0 -> {real}
          [] st.file # Silence /\ missing > 0 /\ st.mode # "AUDIO" -> {}
          [] st.file # Silence /\ missing >= n /\ st.mode = "AUDIO" -> {[i \in 1 .. n |-> Zero]}
          [] st.file # Silence /\ missing \in 1 .. n - 1 /\ st.mode = "AUDIO" ->
                {[i \in 1 .. n |-> IF i <= n - missing THEN real[i] ELSE Stale]}
-----------------------------------------------------------------------------
(* What the sub-tracks of a disc or of a track make up: the samples of the  *)
(* disc, the blocks of the track.                                          *)

UnitsOf(t) ==
    FlattenSeq([i \in DOMAIN t.subTracks |->
        LET st == t.subTracks[i]
        IN  [k \in 1 .. st.len |-> IF st.file = Silence THEN Zero ELSE <<st.file, st.pos + k - 1>>]])
SamplesOf(t) == [i \in 1 .. SampleOf(t.length) |->
    CASE t.mode = "DATA" -> <<Filler>>
      [] t.mode = "AUDIO" -> <<UnitsOf(t)[i]>>
      [] t.mode = "RW" -> LET from == ((i - 1) \div SAMPLES_PER_BLOCK) * BlockSize["RW"]
                                      + ((i - 1) % SAMPLES_PER_BLOCK) * SAMPLE_LEN
                          IN  SubSeq(UnitsOf(t), from + 1, from + SAMPLE_LEN)]
\* Runs of one mode begin with a block.
BlocksOf(t) ==
    FlattenSeq([i \in DOMAIN t.subTracks |->
        IF ~EndsRun(t.subTracks, i) THEN <<>>
        ELSE LET n == UnitsOfBlock(t, t.subTracks[i])
                 end == SubTrackStart(t.subTracks, i + 1)
                 first == end - RunUpTo(t.subTracks, i)
             IN  [b \in 1 .. (end - first) \div n |-> SubSeq(UnitsOf(t), first + (b - 1) * n + 1, first + b * n)]])
ImageOfDisc(T0) == FlattenSeq([nr \in DOMAIN T0 |-> SamplesOf(T0[nr])])
Images == {ImageOfDisc(T0) : T0 \in Discs} \cup {BlocksOf(t) : t \in UNION {ToSet(T0) : T0 \in Discs}}
-----------------------------------------------------------------------------
Init ==
    /\ toc \in Discs
    /\ user = "none"
    /\ readTrack = 0 /\ readSubTrack = 0
    /\ tocPos = 0 /\ trackPos = 0 /\ readPos = 0 /\ dataPos = 0
    /\ call = Idle
    /\ answer = <<>>
    /\ aborted = FALSE
    /\ image = <<>>

\* openData() of the first sub-track of a track.
AtStartOf(nr) ==
    /\ readTrack' = nr /\ readSubTrack' = 1
    /\ trackPos' = 0 /\ readPos' = 0 /\ dataPos' = 0
Fails == answer' = Failed /\ call' = Idle
MayFail == Faulty /\ Fails

Open(who, nr, content) ==
    /\ user = "none" /\ ~aborted
    /\ user' = who
    /\ tocPos' = 0
    /\ AtStartOf(nr)
    /\ answer' \in {<<>>} \cup (IF Faulty THEN {Failed} ELSE {})
    /\ image' = content
    /\ UNCHANGED <<toc, call, aborted>>
OpenDisc == Open("samples", 1, ImageOfDisc(toc))
OpenTrack == \E nr \in DOMAIN toc : Open("blocks", nr, BlocksOf(toc[nr]))
Close ==
    /\ user # "none" /\ call = Idle /\ ~aborted
    /\ user' = "none"
    /\ readTrack' = 0 /\ readSubTrack' = 0
    /\ tocPos' = 0 /\ trackPos' = 0 /\ readPos' = 0 /\ dataPos' = 0
    /\ answer' = <<>> /\ image' = <<>>
    /\ UNCHANGED <<toc, call, aborted>>
Ready(who) == user = who /\ call = Idle /\ answer # Failed /\ ~aborted
-----------------------------------------------------------------------------
(* seekSample() of the three readers.                                      *)

InBlockMutant(t, sample) == 0
InBlock(t, sample) == (sample % SAMPLES_PER_BLOCK) * SAMPLE_LEN
Offset(t, sample) ==
    IF AudioCutMode(t.subTracks) THEN sample
    ELSE (sample \div SAMPLES_PER_BLOCK) * BlockSize[t.mode] + InBlock(t, sample)
InTrack(t, offset) == offset < t.length * UnitsOfTrackBlock(t)

\* Not found if the last bytes of the disc's sample are behind those of a data
\* block, which holds fewer (unless it is a raw one), or behind its piece.
SeekSample == \E sample \in 0 .. DiscSamples - 1 :
    LET nr == TrackOf(sample)
        t == toc[nr]
        offset == Offset(t, sample - AbsStart(nr))
        i == FindSubTrack(t.subTracks, offset)
        found == InTrack(t, offset) /\ offset < SubTrackStart(t.subTracks, i + 1)
    IN  /\ Ready("samples")
        /\ readTrack' = nr
        /\ \/ /\ found
              /\ readSubTrack' = i
              /\ dataPos' = offset - SubTrackStart(t.subTracks, i)
              /\ trackPos' = sample - AbsStart(nr)
              /\ tocPos' = sample
              /\ readPos' = IF nr = readTrack THEN readPos ELSE 0
              /\ answer' = <<>>
           \/ /\ Faulty \/ ~found
              /\ answer' = Failed
              /\ IF nr = readTrack THEN UNCHANGED <<readSubTrack, dataPos, trackPos, readPos>> ELSE AtStartOf(nr)
              /\ UNCHANGED tocPos
        /\ UNCHANGED <<toc, image, user, call, aborted>>
-----------------------------------------------------------------------------
(* One read of the sub-track that is open, and the step to the next one.   *)

FullyRead(read, count) == Len(read) = count
NextSubTrackMutant(read) == readSubTrack
NextSubTrack(read) == IF FullyRead(read, call.count) THEN readSubTrack ELSE readSubTrack + 1
Available == S.len - dataPos
Wanted == Min({call.count, Available})
AbortIf(condition, step) ==
    IF condition THEN aborted' = TRUE /\ UNCHANGED <<readSubTrack, dataPos, call, answer>>
                 ELSE UNCHANGED aborted /\ step
ReadPiece(modes, after) ==
    \/ \E read \in ReadFrom(S, dataPos, Wanted) :
          LET next == NextSubTrack(read)
              more == call.count - Len(read)
              moves == next # readSubTrack
              got == IF call.pc = "subchannel" THEN call.got ELSE call.got \o read
          IN  AbortIf(next > Len(T.subTracks) \/ (moves /\ T.subTracks[next].mode \notin modes),
                  \/ /\ readSubTrack' = next
                     /\ dataPos' = IF moves THEN 0 ELSE dataPos + Len(read)
                     /\ call' = IF more = 0 THEN [after EXCEPT !.got = got]
                                ELSE [call EXCEPT !.count = more, !.got = got]
                     /\ UNCHANGED answer
                  \/ moves /\ MayFail /\ UNCHANGED <<readSubTrack, dataPos>>)
    \/ /\ Faulty \/ ReadFrom(S, dataPos, Wanted) = {}
       /\ Fails
       /\ UNCHANGED <<readSubTrack, dataPos, aborted>>
-----------------------------------------------------------------------------
(* TocReader::readSamples() and TrackReader::readSamples().                *)

ReadSamples == \E n \in Lengths :
    LET len == Min({n, DiscSamples - tocPos})
    IN  /\ Ready("samples")
        /\ len > 0
        /\ call' = [Idle EXCEPT !.pc = "track", !.asked = len, !.left = len]
        /\ answer' = <<>>
        /\ UNCHANGED <<toc, image, user, readTrack, tocPos, trackPos, readPos, readSubTrack, dataPos, aborted>>

\* The track's share of the samples.
ShareOfTrack == LargerOf(Min({call.left, SampleOf(T.length) - trackPos}), 0)
CallTrack ==
    /\ call.pc = "track" /\ ~aborted
    /\ LET called == [call EXCEPT !.share = ShareOfTrack, !.inTrack = ShareOfTrack]
       IN  call' = CASE ShareOfTrack = 0 -> [called EXCEPT !.pc = "return"]
                     [] ShareOfTrack > 0 /\ Plain(T) -> [called EXCEPT !.pc = "samples", !.count = ShareOfTrack]
                     [] ShareOfTrack > 0 /\ T.mode = "RW" -> [called EXCEPT !.pc = "burst"]
                     [] ShareOfTrack > 0 /\ T.mode = "DATA" ->
                           [called EXCEPT !.pc = "return", !.got = @ \o [i \in 1 .. ShareOfTrack |-> Filler]]
    /\ trackPos' = IF T.mode = "DATA" THEN trackPos + ShareOfTrack ELSE trackPos
    /\ UNCHANGED <<toc, image, user, readTrack, tocPos, readPos, readSubTrack, dataPos, answer, aborted>>

AnyMode == DOMAIN BlockSize
ReadPlain ==
    /\ call.pc = "samples" /\ ~aborted
    /\ ReadPiece(AnyMode, [call EXCEPT !.pc = "return"])
    /\ trackPos' = IF call'.pc = "return" THEN trackPos + call.share ELSE trackPos
    /\ UNCHANGED <<toc, image, user, readTrack, tocPos, readPos>>

\* Audio with sub-channel data: the samples of a block, then, if they were the
\* last ones of it, the sub-channel data between it and the next block.
Burst == Min({call.inTrack, SAMPLES_PER_BLOCK - (trackPos % SAMPLES_PER_BLOCK)})
StartBurst ==
    /\ call.pc = "burst" /\ ~aborted
    /\ call' = [call EXCEPT !.pc = "inburst", !.count = Burst * SAMPLE_LEN]
    /\ UNCHANGED <<toc, image, user, readTrack, tocPos, trackPos, readPos, readSubTrack, dataPos, answer, aborted>>
SkipsSubChannel(pos) == pos % SAMPLES_PER_BLOCK = 0 /\ pos < SampleOf(T.length)
AfterBurst(left) == IF left > 0 THEN "burst" ELSE "return"
ReadBurst ==
    /\ call.pc = "inburst" /\ ~aborted
    /\ LET next == [call EXCEPT !.inTrack = @ - Burst]
       IN  ReadPiece(AnyMode, IF SkipsSubChannel(trackPos + Burst)
                              THEN [next EXCEPT !.pc = "subchannel", !.count = SubChannelSize]
                              ELSE [next EXCEPT !.pc = AfterBurst(next.inTrack)])
    /\ trackPos' = IF call'.pc \in {"inburst", "idle"} THEN trackPos ELSE trackPos + Burst
    /\ UNCHANGED <<toc, image, user, readTrack, tocPos, readPos>>
ReadSubChannel == \* into a buffer of its own
    /\ call.pc = "subchannel" /\ ~aborted
    /\ ReadPiece(AnyMode, [call EXCEPT !.pc = AfterBurst(call.inTrack)])
    /\ UNCHANGED <<toc, image, user, readTrack, tocPos, trackPos, readPos>>

\* Back in the loop of TocReader::readSamples().
ReturnFromTrack ==
    /\ call.pc = "return" /\ ~aborted
    /\ IF call.share = call.left
       THEN /\ tocPos' = tocPos + call.asked
            /\ answer' = call.got
            /\ call' = Idle
            /\ UNCHANGED <<readTrack, readSubTrack, trackPos, readPos, dataPos, aborted>>
       ELSE /\ UNCHANGED tocPos
            /\ IF readTrack = Len(toc)
               THEN aborted' = TRUE /\ UNCHANGED <<readTrack, readSubTrack, trackPos, readPos, dataPos, call, answer>>
               ELSE /\ AtStartOf(readTrack + 1)
                    /\ UNCHANGED aborted
                    /\ \/ call' = [call EXCEPT !.pc = "track", !.left = @ - call.share] /\ UNCHANGED answer
                       \/ MayFail
    /\ UNCHANGED <<toc, image, user>>
-----------------------------------------------------------------------------
(* TrackReader::readData() and readBlock().                                *)

ReadData == \E n \in Lengths :
    LET len == Min({n, T.length - readPos})
    IN  /\ Ready("blocks")
        /\ len > 0
        /\ call' = [Idle EXCEPT !.pc = "block", !.asked = len, !.left = len]
        /\ answer' = <<>>
        /\ UNCHANGED <<toc, image, user, readTrack, tocPos, trackPos, readPos, readSubTrack, dataPos, aborted>>

\* Sub-tracks that were read to their end are skipped before a block begins, so
\* that it is the next one whose mode counts.
BlockHasData == Available > 0
ReadBlock ==
    /\ call.pc = "block" /\ ~aborted
    /\ IF BlockHasData
       THEN /\ call' = [call EXCEPT !.pc = "gather", !.mode = S.mode, !.count = UnitsOfBlock(T, S)]
            /\ UNCHANGED <<readSubTrack, dataPos, answer, aborted>>
       ELSE AbortIf(readSubTrack = Len(T.subTracks),
                    /\ readSubTrack' = readSubTrack + 1
                    /\ dataPos' = 0
                    /\ (UNCHANGED <<call, answer>> \/ MayFail))
    /\ UNCHANGED <<toc, image, user, readTrack, tocPos, trackPos, readPos>>
Gather ==
    /\ call.pc = "gather" /\ ~aborted
    /\ ReadPiece({call.mode}, [call EXCEPT !.pc = IF call.left = 1 THEN "done" ELSE "block", !.left = @ - 1])
    /\ UNCHANGED <<toc, image, user, readTrack, tocPos, trackPos, readPos>>
ReturnBlocks ==
    /\ call.pc = "done" /\ ~aborted
    /\ readPos' = readPos + call.asked
    /\ answer' = call.got
    /\ call' = Idle
    /\ UNCHANGED <<toc, image, user, readTrack, tocPos, trackPos, readSubTrack, dataPos, aborted>>
-----------------------------------------------------------------------------
Next ==
    \/ OpenDisc
    \/ OpenTrack
    \/ Close
    \/ SeekSample
    \/ ReadSamples
    \/ ReadData
    \/ CallTrack
    \/ ReadPlain
    \/ StartBurst
    \/ ReadBurst
    \/ ReadSubChannel
    \/ ReturnFromTrack
    \/ ReadBlock
    \/ Gather
    \/ ReturnBlocks

Spec == Init /\ [][Next]_vars
Runs == \/ CallTrack \/ ReadPlain \/ StartBurst \/ ReadBurst \/ ReadSubChannel
        \/ ReturnFromTrack \/ ReadBlock \/ Gather \/ ReturnBlocks
\* A call runs to its end, and need not wait for a file to fail; its user need not make one.
FairSpec == Spec /\ WF_vars(Runs /\ (answer' # Failed \/ ReadFrom(S, dataPos, Wanted) = {}))
-----------------------------------------------------------------------------
TypeOK ==
    /\ toc \in Discs
    /\ user \in {"none", "samples", "blocks"}
    /\ readTrack \in 0 .. Len(toc)
    /\ readTrack > 0 => readSubTrack \in DOMAIN T.subTracks /\ dataPos \in 0 .. S.len
    /\ tocPos \in 0 .. DiscSamples
    /\ trackPos \in Nat /\ readPos \in Nat
    /\ call.count \in Nat /\ call.left \in Nat /\ call.inTrack \in Nat
    /\ aborted \in BOOLEAN

\* The four positions are inside the disc, track and sub-track, and name the same
\* place between two calls: the sample of the disc, the sample of the track, and
\* the unit in the sub-track, also behind seeks, a track border, and the
\* sub-channel data at the end of a block.
PositionsAgree ==
    /\ TypeOK
    /\ Ready("samples") =>
        /\ tocPos = AbsStart(readTrack) + trackPos
        /\ T.mode # "DATA" /\ trackPos < SampleOf(T.length) =>
              SubTrackStart(T.subTracks, readSubTrack) + dataPos = Offset(T, trackPos)

Stream == INSTANCE SampleStream WITH
    Contents <- Images,
    content <- image,
    at <- IF user = "samples" THEN tocPos ELSE readPos,
    asked <- call.asked
\* What a file lacks is zero: "Padding with zeros." (TrackDataReader::readData())
PaddedWithZeros == \A i \in DOMAIN answer : answer[i] # Stale

\* The reader implements a stream: whatever the seeks and the lengths of the
\* calls, it delivers the samples of the disc, or the blocks of the track, that
\* the sub-tracks and their padding make up, and every call returns.  So no
\* assertion fails in a call: the next sub-track and the next track exist when a
\* reader steps to them, and a block does not end in a sub-track of another mode.
StreamAnswers == Stream!FairSpec
=============================================================================
