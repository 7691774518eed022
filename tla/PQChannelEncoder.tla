-------------------------- MODULE PQChannelEncoder --------------------------
(***************************************************************************)
(* The P and Q sub-channels of a disc: the cue sheet that GenericMMC makes *)
(* of a TOC, and the encoder of dao/PQChannelEncoder.cc that the raw       *)
(* writing drivers run along it, one block per step from the first block   *)
(* of the lead-in to the last one of the lead-out.                         *)
(*                                                                         *)
(* Times are block addresses.  Control nibbles, the digits of the codes    *)
(* and the CRC are left out.                                               *)
(***************************************************************************)
EXTENDS Integers, Sequences, SequencesExt, FiniteSetsExt

CONSTANTS
    Tocs,          \* TOCs that are written; a track's pre-gap is what its predecessor leaves
    TwoSeconds,    \* 150
    LeadInLength,
    LeadOutLength,
    CodePeriod,    \* 90: blocks from one catalog number, or ISRC code, to the next
    IsrcPhase,     \* 50
    Blink          \* 38: period of the P channel in the lead-out

ASSUME EncoderAssumption ==
    /\ TwoSeconds \in Nat \ {0} /\ LeadInLength \in Nat \ {0} /\ LeadOutLength \in Nat \ {0}
    /\ CodePeriod \in Nat \ {0} /\ IsrcPhase \in 1 .. CodePeriod - 1 /\ Blink \in Nat \ {0}

VARIABLES
    toc,    \* [catalog, tracks: sequence of [mode, isrc, start, end, indices]]
    sheet,  \* cueSheet_; empty once the disc is written and the encoder is gone
    enc,    \* the members of the encoder
    written \* the sub-channels of the blocks written so far

encoderVars == <<toc, sheet, enc, written>>

LeadOut == 170 \* 0xaa
Smallest(S) == IF S = {} THEN 0 ELSE Min(S)
-----------------------------------------------------------------------------
(* createCueSheet(): addresses are those of the disc, whose program area    *)
(* starts with TwoSeconds of pre-gap before address 0.                      *)

LeadOutStart(t) == Last(t.tracks).end
Gap(t, nr) == t.tracks[nr].start - IF nr = 1 THEN 0 ELSE t.tracks[nr - 1].end

Entry(adr, nr, index, lba) == [adr |-> adr, track |-> nr, index |-> index, lba |-> lba]
Code(adr, nr) == <<Entry(adr, nr, 0, 0), Entry(adr, nr, 0, 0)>>
GapStart(t, nr) == IF nr = 1 THEN -TwoSeconds ELSE t.tracks[nr - 1].end
TrackEntries(t, nr) ==
    LET track == t.tracks[nr]
        start == track.start
    IN  (IF track.mode = "AUDIO" /\ track.isrc THEN Code(3, nr) ELSE <<>>)
        \o (IF nr = 1 \/ Gap(t, nr) # 0 THEN <<Entry(1, nr, 0, GapStart(t, nr))>> ELSE <<>>)
        \o <<Entry(1, nr, 1, start)>>
        \o [i \in DOMAIN track.indices |-> Entry(1, nr, i + 1, start + track.indices[i])]
CueSheet(t) ==
    (IF t.catalog THEN Code(2, 0) ELSE <<>>)
    \o <<Entry(1, 0, 0, 0)>>
    \o FlattenSeq([nr \in DOMAIN t.tracks |-> TrackEntries(t, nr)])
    \o <<Entry(1, LeadOut, 1, LeadOutStart(t))>>

\* analyzeCueSheet()
Positions(s) == SelectSeq(s, LAMBDA e : e.adr = 1)
Legal(s) ==
    LET p == Positions(s)
    IN  /\ p[1].track = 0 /\ Len(p) > 2
        /\ \A i \in 2 .. Len(p) : p[i].track # 0 /\ (p[i].track = LeadOut <=> i = Len(p))
        /\ \A i \in 2 .. Len(p) - 2 : p[i + 1].track \in {p[i].track, p[i].track + 1}
        /\ \A i \in 2 .. Len(p) - 1 : p[i + 1].lba > p[i].lba
-----------------------------------------------------------------------------
(* The encoder.                                                            *)

\* nextCueSheetEntry(): the next one of a kind, or of a track and index.
NextEntry(i, adr) == IF sheet[i].track = LeadOut THEN 0 ELSE Smallest({j \in i + 1 .. Len(sheet) : sheet[j].adr = adr})
NextOf(i, nr, index) ==
    IF sheet[i].track = LeadOut THEN 0
    ELSE Smallest({j \in i + 1 .. Len(sheet) : sheet[j].adr = 1 /\ sheet[j].track = nr /\ sheet[j].index = index})
LeadInEntry == CHOOSE i \in DOMAIN sheet : sheet[i].adr = 1 /\ sheet[i].track = 0
LastTrack == Len(toc.tracks)

\* The table of contents in the lead-in.
Pointer(point, lba) == [kind |-> "toc", track |-> point, index |-> 0, rel |-> 0, lba |-> lba, p |-> FALSE]
Contents ==
    LET starts == SelectSeq(sheet, LAMBDA e : e.adr = 1 /\ e.track \in 1 .. 99 /\ e.index = 1)
    IN  [i \in DOMAIN starts |-> Pointer(starts[i].track, starts[i].lba)]
        \o <<Pointer(160, 1), Pointer(161, LastTrack), Pointer(162, LeadOutStart(toc))>>

\* setCueSheet()
Fresh ==
    [abslba |-> -TwoSeconds - LeadInLength, trlba |-> 0, act |-> LeadInEntry, isrc |-> 0,
     deferredCatalog |-> FALSE, deferredIsrc |-> FALSE, tocEnt |-> 1, tocCount |-> 0,
     nextTransition |-> sheet[NextEntry(LeadInEntry, 1)].lba,
     nextTrackStart |-> sheet[NextOf(LeadInEntry, 1, 1)].lba]

\* nextTransition(): of the time in the track, the ISRC code, and where the
\* next entry and the next track start.
TimeAtMutant(i) == 0
TimeAt(i) == IF sheet[i].index = 0 THEN sheet[i].lba - sheet[NextOf(i, sheet[i].track, 1)].lba ELSE 0
IsrcFrom(i, nr) ==
    LET code == NextEntry(i, 3)
    IN  IF code # 0 /\ sheet[code].track = nr THEN nr ELSE 0
Transited(e) ==
    LET next == NextEntry(e.act, 1)
        nr == sheet[next].track
        newTrack == nr # sheet[e.act].track
        following == IF nr = LastTrack THEN LeadOut ELSE nr + 1
    IN  [e EXCEPT !.act = next,
                  !.isrc = IF newTrack THEN IsrcFrom(e.act, nr) ELSE @,
                  !.deferredIsrc = @ /\ ~newTrack,
                  !.trlba = IF newTrack THEN TimeAt(next) ELSE @,
                  !.nextTransition = IF nr = LeadOut THEN @ ELSE sheet[NextEntry(next, 1)].lba,
                  !.nextTrackStart = IF nr = LeadOut \/ sheet[next].index # 1 THEN @
                                     ELSE sheet[NextOf(next, following, 1)].lba]

\* P is set in a pre-gap, before the next track, and blinks in the lead-out.
PChannel(e) ==
    \/ e.trlba <= 0
    \/ e.abslba \in e.nextTrackStart - TwoSeconds .. e.nextTrackStart
    \/ e.abslba >= LeadOutStart(toc) + TwoSeconds /\ (e.trlba - TwoSeconds) % Blink < Blink \div 2

\* A code is due once in a period, but never in the block where a new entry starts.
CatalogDue(e) == toc.catalog /\ (e.deferredCatalog \/ e.abslba % CodePeriod = 0)
IsrcDue(e) == e.isrc # 0 /\ (e.deferredIsrc \/ e.abslba % CodePeriod = IsrcPhase)
Defers(due, new) == due /\ new
MayCarryMutant(due, new) == due
MayCarry(due, new) == due /\ ~new
Channel(e, new) ==
    [kind |-> IF MayCarry(IsrcDue(e), new) THEN "isrc" ELSE IF MayCarry(CatalogDue(e), new) THEN "catalog" ELSE "position",
     track |-> IF MayCarry(IsrcDue(e), new) THEN e.isrc ELSE sheet[e.act].track,
     index |-> sheet[e.act].index,
     rel |-> IF e.trlba < 0 THEN -e.trlba ELSE e.trlba,
     lba |-> e.abslba, p |-> PChannel(e)]

\* Each entry of the table of contents is written three times.
NextPointer(e) ==
    IF e.tocCount < 2 THEN [e EXCEPT !.tocCount = @ + 1]
    ELSE [e EXCEPT !.tocCount = 0, !.tocEnt = (@ % Len(Contents)) + 1]
Advanced(e) == [e EXCEPT !.abslba = @ + 1, !.trlba = @ + 1]

DiscBlocks == LeadInLength + TwoSeconds + LeadOutStart(toc) + LeadOutLength
EncodeSubChannel ==
    LET new == enc.abslba = enc.nextTransition
        e == IF new THEN Transited(enc) ELSE enc
    IN  /\ Len(written) < DiscBlocks
        /\ IF sheet[e.act].track = 0
           THEN /\ written' = Append(written, [Contents[e.tocEnt] EXCEPT !.rel = e.trlba])
                /\ enc' = Advanced(NextPointer(e))
           ELSE /\ written' = Append(written, Channel(e, new))
                /\ enc' = Advanced([e EXCEPT !.deferredCatalog = Defers(CatalogDue(e), new),
                                             !.deferredIsrc = Defers(IsrcDue(e), new)])
        /\ UNCHANGED <<toc, sheet>>

EncoderInit ==
    /\ toc \in Tocs
    /\ sheet = CueSheet(toc) /\ Legal(sheet)
    /\ enc = Fresh
    /\ written = <<>>
DiscWritten == Len(written) = DiscBlocks
-----------------------------------------------------------------------------
(* Properties.                                                             *)

\* What a disc with this TOC has at an address of its program area or lead-out.
FirstBlock == -TwoSeconds - LeadInLength
SubChannelAt(lba) == written[lba - FirstBlock + 1]
Starts == {toc.tracks[nr].start : nr \in DOMAIN toc.tracks} \cup {LeadOutStart(toc)}
TrackAt(lba) ==
    IF lba >= LeadOutStart(toc) THEN LeadOut
    ELSE CHOOSE nr \in DOMAIN toc.tracks : GapStart(toc, nr) <= lba /\ lba < toc.tracks[nr].end
RelativeTo(lba) == IF TrackAt(lba) = LeadOut THEN LeadOutStart(toc) ELSE toc.tracks[TrackAt(lba)].start
IndexAt(lba) ==
    IF TrackAt(lba) = LeadOut THEN 1
    ELSE IF lba < RelativeTo(lba) THEN 0
    ELSE 1 + Cardinality({i \in DOMAIN toc.tracks[TrackAt(lba)].indices : toc.tracks[TrackAt(lba)].indices[i] <= lba - RelativeTo(lba)})

LastBlockIsRight ==
    written # <<>> /\ Last(written).lba >= -TwoSeconds /\ Last(written).kind # "toc" =>
        LET c == Last(written)
            lba == FirstBlock + Len(written) - 1
        IN  /\ c.lba = lba /\ c.track = TrackAt(lba) /\ c.index = IndexAt(lba)
            /\ c.rel \in {lba - RelativeTo(lba), RelativeTo(lba) - lba}
            /\ c.kind = "isrc" => toc.tracks[c.track].isrc
            /\ lba < LeadOutStart(toc) =>
                 (c.p <=> (IndexAt(lba) = 0 \/ \E start \in Starts : lba \in start - TwoSeconds .. start))
ContentsAreComplete ==
    DiscWritten /\ LeadInLength >= 3 * Len(Contents) =>
        \A i \in DOMAIN Contents : \E k \in 1 .. LeadInLength :
            written[k].kind = "toc" /\ written[k].track = Contents[i].track /\ written[k].lba = Contents[i].lba
\* Each block of the program area and the lead-out carries its own track,
\* index, time and address, or a code of its track; the time counts down to the
\* start of the track and up behind it, and P tells players two seconds ahead
\* where a track starts.  A lead-in that is long enough holds the whole table of
\* contents.
LayoutIsWritten == sheet # <<>> => LastBlockIsRight /\ ContentsAreComplete

MarksAreVisible ==
    \A nr \in DOMAIN toc.tracks, lba \in 0 .. FirstBlock + Len(written) - 1 :
        lba \in {toc.tracks[nr].start} \cup {toc.tracks[nr].start + toc.tracks[nr].indices[i] : i \in DOMAIN toc.tracks[nr].indices}
        => SubChannelAt(lba).kind = "position"
CodesRecur ==
    toc.catalog /\ Len(written) >= LeadInLength + TwoSeconds + CodePeriod + 2 =>
        \E i \in Len(written) - CodePeriod - 1 .. Len(written) : written[i].kind = "catalog"
\* The block in which a track or an index starts shows its position, also when a
\* catalog number or ISRC code is due there: a reader finds the mark where it is.
\* What had to give way is not lost: a catalog number comes again within a period
\* and the blocks of two marks side by side.
CodesGiveWay == sheet # <<>> => MarksAreVisible /\ CodesRecur
=============================================================================
