------------------------------ MODULE TocEdit ------------------------------
(***************************************************************************)
(* trackdb/Toc.cc and gcdmaster/TocEdit.cc: editing the table of contents  *)
(* of a disc.  Each action is one call of TocEdit that succeeds; a call    *)
(* that is refused with a code changes nothing and has no action.  An edit *)
(* that fails an assertion of Track ends the program.                      *)
(***************************************************************************)
EXTENDS Track

CONSTANTS
    InitialTocs,  \* the TOCs an editing session may start from
    NewPieces,    \* the audio files and silences that may be added
    MaxBlocks,    \* bound: the disc does not grow beyond this length
    MaxAudioEdits \* bound: number of edits in a session that add or remove audio

PieceType == [pad : BOOLEAN, mode : Modes, file : STRING, pos : Nat, len : Nat]

AudioFiles == {p \in PieceType : p.mode = "AUDIO" /\ ~IsPadding(p)}

ASSUME EditAssumption == MaxBlocks \in Nat /\ MaxAudioEdits \in Nat /\ NewPieces \subseteq AudioFiles

VARIABLES
    toc,     \* the tracks
    scrap,   \* trackDataScrap_: the pieces of the last cut, <<>> if there was none
    aborted, \* an assertion has failed
    audioEdits \* number of edits so far that added or removed audio

vars == <<toc, scrap, aborted, audioEdits>>

\* Toc::update(): positions on the disc, in blocks.
AbsStart(T, nr) == LET end[k \in 0 .. Len(T)] == IF k = 0 THEN 0 ELSE end[k - 1] + Length(T[k]) IN end[nr - 1]
StartOf(T, nr) == AbsStart(T, nr) + T[nr].start
EndOf(T, nr) == AbsStart(T, nr) + Length(T[nr])
DiscLength(T) == AbsStart(T, Len(T) + 1)
SampleOf(lba) == lba * SAMPLES_PER_BLOCK
FindTrack(T, sample) == {nr \in DOMAIN T : /\ sample < SampleOf(EndOf(T, nr))
                                           /\ \A k \in 1 .. nr - 1 : sample >= SampleOf(EndOf(T, k))}
Lbas == 0 .. DiscLength(toc) - 1
IsPlainAudio(t) == t.mode = "AUDIO"

Init ==
    /\ toc \in InitialTocs
    /\ scrap = <<>>
    /\ aborted = FALSE
    /\ audioEdits = 0

Becomes(T) == ~aborted /\ toc' = T /\ UNCHANGED <<scrap, aborted, audioEdits>>
AudioBecomes(T) ==
    /\ ~aborted
    /\ audioEdits < MaxAudioEdits
    /\ audioEdits' = audioEdits + 1
    /\ toc' = T
    /\ UNCHANGED aborted
Abort == ~aborted /\ aborted' = TRUE /\ UNCHANGED <<toc, scrap, audioEdits>>
AbortUnless(asserts, Edit) == IF asserts THEN Edit ELSE Abort
-----------------------------------------------------------------------------
(* moveTrackMarker()                                                       *)

\* The second test looks at the sub-channel type of the track itself where
\* it means that of its predecessor.
PredecessorIsAudio(nr) == nr > 1 => toc[nr - 1].mode # "DATA" /\ toc[nr].mode # "RW"
HasIndexMutant(nr, ix) == ix - 2 <= Len(toc[nr].index)
HasIndex(nr, ix) == ix - 2 < Len(toc[nr].index)
Movable(nr, ix) ==
    /\ ~(nr = 1 /\ ix = 0)
    /\ ix <= 1 => IsPlainAudio(toc[nr])
    /\ ix = 0 \/ (ix = 1 /\ toc[nr].start = 0) => PredecessorIsAudio(nr)
    /\ ix = 0 => toc[nr].start # 0
    /\ HasIndex(nr, ix)
StaysInTrack(nr, ix) == ix > 1 \/ (ix = 1 /\ (toc[nr].start > 0 \/ nr = 1))

MoveWithinTrack(nr, ix, lba) ==
    LET pos == lba - AbsStart(toc, nr)
        r == MoveIndex(toc[nr], ix, pos)
    IN  /\ Movable(nr, ix)
        /\ StaysInTrack(nr, ix)
        /\ IF ix = 1 THEN /\ lba <= EndOf(toc, nr) - FourSeconds
                          /\ nr = 1 \/ pos > 0
                     ELSE pos > 0
        /\ AbortUnless(MoveIndexAsserts(toc[nr], ix, pos),
                       r.ret = 0 /\ Becomes([toc EXCEPT ![nr] = r.track]))

\* To the left: the end of the predecessor goes to the front of the track.
MoveStartLeft(nr, ix, lba) ==
    LET pos == lba - AbsStart(toc, nr - 1)
        removed == RemoveToEnd(toc[nr - 1], SampleOf(pos))
        grown == SetStart(PrependTrackData(toc[nr], removed.list), StartOf(toc, nr) - lba)
    IN  /\ Movable(nr, ix)
        /\ ~StaysInTrack(nr, ix)
        /\ lba < AbsStart(toc, nr)
        /\ lba >= StartOf(toc, nr - 1) + FourSeconds
        /\ AbortUnless(/\ RemoveAsserts(toc[nr - 1], SampleOf(pos))
                       /\ ix = 1 => MoveIndexAsserts(grown, 1, 0),
                       Becomes([toc EXCEPT ![nr - 1] = removed.track,
                                           ![nr] = IF ix = 1 THEN MoveIndex(grown, 1, 0).track ELSE grown]))

\* To the right: the front of the track goes to the end of the predecessor.
MoveStartRight(nr, ix, lba) ==
    LET pos == lba - AbsStart(toc, nr)
        r == IF ix = 1 THEN MoveIndex(toc[nr], 1, pos) ELSE Result(0, toc[nr])
        shrunk == SetStart(r.track, IF ix = 1 THEN 0 ELSE StartOf(toc, nr) - lba)
        removed == RemoveFromStart(shrunk, SampleOf(pos))
    IN  /\ Movable(nr, ix)
        /\ ~StaysInTrack(nr, ix)
        /\ pos > 0
        /\ ix = 0 => lba < StartOf(toc, nr)
        /\ AbortUnless(/\ ix = 1 => MoveIndexAsserts(toc[nr], 1, pos)
                       /\ r.ret = 0 => RemoveAsserts(shrunk, SampleOf(pos)),
                       /\ r.ret = 0
                       /\ Becomes([toc EXCEPT ![nr] = removed.track,
                                              ![nr - 1] = AppendTrackData(@, removed.list)]))

MoveTrackMarker(nr, ix, lba) ==
    \/ MoveWithinTrack(nr, ix, lba)
    \/ MoveStartLeft(nr, ix, lba)
    \/ MoveStartRight(nr, ix, lba)
-----------------------------------------------------------------------------
(* removeTrackMarker()                                                     *)

Removable(nr) == IsPlainAudio(toc[nr]) /\ PredecessorIsAudio(nr)

RemoveFirstPregap ==
    /\ toc # <<>> /\ Removable(1)
    /\ toc[1].start # 0
    /\ Becomes([toc EXCEPT ![1] = SetStart(@, 0)])
RemoveIndexMarker(nr, ix) ==
    /\ ix > 1
    /\ RemoveIndex(toc[nr], ix - 2).ret = 0
    /\ Becomes([toc EXCEPT ![nr] = RemoveIndex(@, ix - 2).track])
RemovePregap(nr) ==
    LET removed == RemoveFromStart(SetStart(toc[nr], 0), SampleOf(toc[nr].start))
    IN  /\ nr > 1
        /\ Removable(nr)
        /\ toc[nr].start # 0
        /\ AbortUnless(RemoveAsserts(toc[nr], SampleOf(toc[nr].start)),
                       Becomes([toc EXCEPT ![nr] = removed.track,
                                           ![nr - 1] = AppendTrackData(@, removed.list)]))
RemoveTrack(nr) ==
    /\ nr > 1
    /\ Removable(nr)
    /\ Becomes(RemoveAt([toc EXCEPT ![nr - 1] = AppendWholeTrack(@, toc[nr])], nr))
-----------------------------------------------------------------------------
(* addIndexMarker(), addTrackMarker(), addPregap()                         *)

AddIndexMarker(lba) == \E nr \in FindTrack(toc, SampleOf(lba)) :
    LET r == AddIndex(toc[nr], lba - StartOf(toc, nr))
    IN  /\ lba > StartOf(toc, nr)
        /\ r.ret = 0
        /\ Becomes([toc EXCEPT ![nr] = r.track])
AddTrackMarker(lba) == \E nr \in FindTrack(toc, SampleOf(lba)) :
    LET removed == RemoveToEnd(toc[nr], SampleOf(lba - AbsStart(toc, nr)))
    IN  /\ IsPlainAudio(toc[nr])
        /\ lba > StartOf(toc, nr)
        /\ lba - StartOf(toc, nr) >= FourSeconds
        /\ EndOf(toc, nr) - lba >= FourSeconds
        /\ AbortUnless(RemoveAsserts(toc[nr], SampleOf(lba - AbsStart(toc, nr))),
                       Becomes(InsertAt([toc EXCEPT ![nr] = removed.track], nr + 1,
                                        AppendTrackData(NewTrack("AUDIO"), removed.list))))
\* The end of a track, from lba on, becomes the pre-gap of its successor.
EndBecomesPregap(nr, lba) ==
    LET removed == RemoveToEnd(toc[nr], SampleOf(lba - AbsStart(toc, nr)))
        grown == SetStart(PrependTrackData(toc[nr + 1], removed.list), StartOf(toc, nr + 1) - lba)
    IN  /\ IsPlainAudio(toc[nr])
        /\ nr < Len(toc)
        /\ IsPlainAudio(toc[nr + 1])
        /\ lba > StartOf(toc, nr)
        /\ toc[nr + 1].start = 0
        /\ lba - StartOf(toc, nr) >= FourSeconds
        /\ AbortUnless(RemoveAsserts(toc[nr], SampleOf(lba - AbsStart(toc, nr))),
                       Becomes([toc EXCEPT ![nr] = removed.track, ![nr + 1] = grown]))
AddPregap(lba) == \E nr \in FindTrack(toc, SampleOf(lba)) : EndBecomesPregap(nr, lba)
-----------------------------------------------------------------------------
(* Adding and removing audio                                               *)

\* Toc::appendTrack(), reached from the completion of an append job: at least four seconds.
Filled(list) ==
    LET missing == SampleOf(FourSeconds) - TotalLength(list)
    IN  IF missing > 0 THEN Append(list, Piece("AUDIO", Silence, 0, missing)) ELSE list
AppendAll(t, list) == Loop(AppendSubTrack, t, list)
WithNewTrack(list) == Append(toc, AppendAll(NewTrack("AUDIO"), Filled(list)))
AppendTrack(list) == AudioBecomes(WithNewTrack(list))

\* Toc::appendTrackData(): to the last track, or as the first one.
AppendToLastTrack(list) ==
    \/ toc = <<>> /\ AudioBecomes(WithNewTrack(list))
    \/ /\ toc # <<>>
       /\ IsPlainAudio(Last(toc))
       /\ AudioBecomes([toc EXCEPT ![Len(toc)] = AppendAll(@, list)])

\* Toc::insertTrackData() at a sample of the disc, or behind its end.
InsertAudio(pos, list) ==
    \/ \E nr \in FindTrack(toc, pos) :
          /\ IsPlainAudio(toc[nr])
          /\ AudioBecomes([toc EXCEPT ![nr] = InsertTrackData(@, pos - SampleOf(AbsStart(toc, nr)), list)])
    \/ /\ FindTrack(toc, pos) = {}
       /\ AppendToLastTrack(list)

Paste(pos) == scrap # <<>> /\ InsertAudio(pos, scrap)

\* Toc::removeTrackData(): the outcome, in no more than one way, of a cut.
CutFrom(T, first, last) ==
    {LET base == SampleOf(AbsStart(T, nr))
         removed == RemoveTrackData(T[nr], first - base, last - base)
     IN  [toc |-> [T EXCEPT ![nr] = removed.track], list |-> removed.list] :
     nr \in {k \in FindTrack(T, first) \cap FindTrack(T, last) : first <= last /\ IsPlainAudio(T[k])}}
Cut(first, last) == \E cut \in CutFrom(toc, first, last) :
    AudioBecomes(cut.toc) /\ scrap' = cut.list
-----------------------------------------------------------------------------
Fits(list) == DiscLength(toc) + Ceiling(TotalLength(list), SAMPLES_PER_BLOCK) <= MaxBlocks
Samples == 0 .. SampleOf(DiscLength(toc)) \* the last one is behind the disc

RemoveMarker ==
    \/ RemoveFirstPregap
    \/ \E nr \in DOMAIN toc : \/ \E ix \in 2 .. MaxIndices + 1 : RemoveIndexMarker(nr, ix)
                              \/ RemovePregap(nr)
AddMarker == \E lba \in Lbas : AddIndexMarker(lba) \/ AddTrackMarker(lba) \/ AddPregap(lba)
MoveMarker ==
    \E nr \in DOMAIN toc, ix \in 0 .. MaxIndices + 1, lba \in Lbas : MoveTrackMarker(nr, ix, lba)
RemoveTrackMarker == \E nr \in DOMAIN toc : RemoveTrack(nr)
AddAudio ==
    /\ \E list \in {<<p>> : p \in NewPieces} :
           /\ Fits(list)
           /\ \/ DiscLength(toc) + FourSeconds <= MaxBlocks /\ AppendTrack(list)
              \/ AppendToLastTrack(list)
              \/ \E pos \in Samples : InsertAudio(pos, list)
    /\ UNCHANGED scrap
PasteScrap == Fits(scrap) /\ (\E pos \in Samples : Paste(pos)) /\ UNCHANGED scrap
CutSelection == \E first, last \in Samples : Cut(first, last)

Next ==
    \/ MoveMarker
    \/ AddMarker
    \/ RemoveMarker
    \/ RemoveTrackMarker
    \/ AddAudio
    \/ PasteScrap
    \/ CutSelection

Spec == Init /\ [][Next]_vars
-----------------------------------------------------------------------------
IsTrack(t) ==
    /\ DOMAIN t = {"mode", "subTracks", "length", "start", "index"}
    /\ t.mode \in Modes
    /\ \A i \in DOMAIN t.subTracks : t.subTracks[i] \in PieceType
    /\ t.length \in Nat /\ t.start \in Nat
    /\ t.index \in Seq(Nat) /\ Len(t.index) <= MaxIndices

\* Type invariant.
TypeOK ==
    /\ toc \in Seq(ToSet(toc))
    /\ \A nr \in DOMAIN toc : IsTrack(toc[nr])
    /\ \A i \in DOMAIN scrap : scrap[i] \in PieceType
    /\ aborted \in BOOLEAN
    /\ audioEdits \in 0 .. MaxAudioEdits

OrderedMarks(t) ==
    /\ t.start < Length(t) \/ t.start = 0
    /\ \A i \in DOMAIN t.index : /\ 0 < t.index[i] /\ t.start + t.index[i] < Length(t)
                                 /\ i > 1 => t.index[i - 1] < t.index[i]

\* What reading a TOC file leaves, if no track has sub-channel data: the tracks are
\* as update() leaves them, with their marks in order.
PlainTrack(t) ==
    /\ t \in [mode : {"AUDIO", "DATA"}, subTracks : Seq(PieceType), length : Nat, start : Nat, index : Seq(Nat)]
    /\ Len(t.index) <= MaxIndices
    /\ OrderedMarks(t)
    /\ IsPlainAudio(t) => Update(t) = t /\ \A i \in DOMAIN t.subTracks : t.subTracks[i].mode = "AUDIO"
PlainToc(T) == T \in Seq(ToSet(T)) /\ \A nr \in DOMAIN T : PlainTrack(T[nr])
PlainSession == \A T \in InitialTocs : PlainToc(T)
\* Each track lasts four seconds, the pre-gap not counted, and no audio comes or goes.
LongToc(T) == \A nr \in DOMAIN T : Length(T[nr]) - T[nr].start >= FourSeconds
MarkerSession == MaxAudioEdits = 0 /\ \A T \in InitialTocs : LongToc(T)

\* No sequence of edits lets the index marks of a track get out of order,
\* coincide, or leave the track: the lead-in and the sub-channel count them
\* up in this order (Track.cc, addIndex(), moveIndex(), removeTrackData()).
MarksOrdered == \A nr \in DOMAIN toc : OrderedMarks(toc[nr])

\* The samples of a disc, each one by the file and position it comes from.
SamplesOfPiece(st) ==
    [k \in 1 .. st.len |-> IF st.file = Silence THEN <<Silence, 0>> ELSE <<st.file, st.pos + k - 1>>]
SamplesOfList(list) == FlattenSeq([i \in DOMAIN list |-> SamplesOfPiece(list[i])])
DiscSamples(T) == FlattenSeq([nr \in DOMAIN T |-> SamplesOfList(T[nr].subTracks)])
Audible(samples) == SelectSeq(samples, LAMBDA s : s[1] # Silence)

OnlyAudioTracksChange ==
    \A nr \in DOMAIN toc : ~IsPlainAudio(toc[nr]) =>
        \E k \in DOMAIN toc' : toc'[k].subTracks = toc[nr].subTracks

\* Moving, adding or removing a track, index or pre-gap mark hands audio from
\* one track to another, but no sample of the disc is lost, doubled or moved, and
\* a track that is not plain audio keeps its contents (Toc.cc, moveTrackMarker(),
\* addTrackMarker(), addPregap(), removeTrackMarker()).
MarkersMoveNoAudio ==
    [][\/ /\ DiscSamples(toc') = DiscSamples(toc)
          /\ OnlyAudioTracksChange
       \/ ~(MoveMarker \/ AddMarker \/ RemoveMarker)]_vars

\* The same for the mark of a whole track, whose audio goes to its predecessor.
RemovedTrackKeepsAudio ==
    [][\A nr \in DOMAIN toc : RemoveTrack(nr) => DiscSamples(toc') = DiscSamples(toc)]_vars

\* A mark that was moved is where it was moved to.
MarkerAt(T, nr, ix) ==
    IF ix = 0 THEN AbsStart(T, nr) ELSE StartOf(T, nr) + (IF ix = 1 THEN 0 ELSE T[nr].index[ix - 1])
MovedMarkerIsThere ==
    [][\A nr \in DOMAIN toc, ix \in 0 .. MaxIndices + 1, lba \in Lbas :
          MoveTrackMarker(nr, ix, lba) /\ ~aborted' => MarkerAt(toc', nr, ix) = lba]_vars

\* Marker edits on audio tracks that last four seconds leave such tracks, the
\* pre-gap not counted: each operation must look at the right neighbour.
TracksLastFourSeconds ==
    \A nr \in DOMAIN toc : IsPlainAudio(toc[nr]) => Length(toc[nr]) - toc[nr].start >= FourSeconds

\* No edit fails an assertion of Track.
NoAssertionFails == ~aborted

\* Whatever was edited before, cutting takes exactly the selected samples off
\* the disc; only silence that fills blocks may come or go (removeTrackData()).
CutIsExact ==
    LET old == DiscSamples(toc)
    IN  \A first, last \in Samples : \A cut \in CutFrom(toc, first, last) :
            Audible(DiscSamples(cut.toc)) =
                Audible(SubSeq(old, 1, first) \o SubSeq(old, last + 2, Len(old)))

\* The scrap then holds the samples that were cut.
ScrapHoldsCut ==
    LET old == DiscSamples(toc)
    IN  \A first, last \in Samples : \A cut \in CutFrom(toc, first, last) :
            SamplesOfList(cut.list) = SubSeq(old, first + 1, last + 1)

\* Pasting puts the scrap at the marker and takes nothing else away.
PasteIsExact ==
    [][\A pos \in Samples : Paste(pos) =>
          LET old == DiscSamples(toc)
          IN  Audible(DiscSamples(toc')) =
                  Audible(SubSeq(old, 1, pos) \o SamplesOfList(scrap)
                          \o SubSeq(old, pos + 1, Len(old)))]_vars

\* A mark of the disc by the sample it stands on.
MarkSamples(T) ==
    UNION {{SampleOf(StartOf(T, nr) + T[nr].index[i]) : i \in DOMAIN T[nr].index} : nr \in DOMAIN T}
\* Pasting whole blocks at a block leaves every index mark on its sample.
PasteKeepsMarks ==
    [][\A pos \in Samples :
          /\ Paste(pos)
          /\ pos % SAMPLES_PER_BLOCK = 0
          /\ TotalLength(scrap) % SAMPLES_PER_BLOCK = 0
          => MarkSamples(toc') =
                 {IF m < pos THEN m ELSE m + TotalLength(scrap) : m \in MarkSamples(toc)}]_vars
\* After a cut, an index mark stands less than two blocks from where the sample
\* it stood on has gone: rounding to blocks happens at most twice.
CutKeepsMarksNear ==
    \A first, last \in Samples : \A cut \in CutFrom(toc, first, last) :
        LET Gone(m) == IF m < first THEN m ELSE IF m > last THEN m - (last - first + 1) ELSE first
        IN  \A m \in MarkSamples(cut.toc) : \E old \in MarkSamples(toc) :
                m - Gone(old) \in 1 - 2 * SAMPLES_PER_BLOCK .. 2 * SAMPLES_PER_BLOCK - 1
=============================================================================
