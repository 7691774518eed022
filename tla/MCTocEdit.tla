----------------------------- MODULE MCTocEdit -----------------------------
(***************************************************************************)
(* Instances of TocEdit for TLC: blocks of two samples, at most two index  *)
(* increments per track, and four blocks for four seconds.                 *)
(***************************************************************************)
EXTENDS TocEdit

MCBlockSize == [AUDIO |-> 2, RW |-> 3, DATA |-> 3]
File(f, len) == Piece("AUDIO", f, 0, len)
Loaded(mode, pieces) == AppendAll(NewTrack(mode), pieces)
WithMarks(t, start, index) == [t EXCEPT !.start = start, !.index = index]

\* Two tracks of audio, the first one padded, and a data track between two audio tracks.
TwoTracks == <<Loaded("AUDIO", <<File("a", 9)>>),
               WithMarks(Loaded("AUDIO", <<File("b", 6), File("c", 3)>>), 1, <<2>>)>>
DataBetween == <<Loaded("AUDIO", <<File("a", 8)>>),
                 Loaded("DATA", <<[File("d", 12) EXCEPT !.mode = "DATA"]>>),
                 Loaded("AUDIO", <<File("b", 8)>>)>>
MarkerTocs == {TwoTracks, DataBetween}

\* A track of two files with a pre-gap and marks, and a short one behind it.
CutTocs == {<<>>, <<WithMarks(Loaded("AUDIO", <<File("a", 4), File("b", 3)>>), 1, <<1, 2>>),
                    Loaded("AUDIO", <<File("c", 3)>>)>>}
PasteTocs == {<<WithMarks(Loaded("AUDIO", <<File("a", 5)>>), 1, <<1>>), Loaded("AUDIO", <<File("b", 3)>>)>>}
SilentPiece == {File("silence", 1)}

\* One edit that adds or removes audio on a disc with many marks, two on a short one.
AudioTocs == CutTocs \cup PasteTocs
AudioInit ==
    /\ toc \in InitialTocs
    /\ scrap = <<>>
    /\ aborted = FALSE
    /\ audioEdits = IF toc \in CutTocs THEN 1 ELSE 0
AudioSpec == AudioInit /\ [][Next]_vars

\* These are sessions of the kind the theorems of TocEdit_proofs are about.
ASSUME \A T \in AudioTocs : PlainToc(T)
ASSUME \A T \in MarkerTocs : PlainToc(T) /\ LongToc(T)

\* A track of four files, and an audio track behind one with sub-channel data.
FourFiles == {<<Loaded("AUDIO", <<File("a", 2), File("b", 2), File("c", 2), File("d", 2)>>)>>}
BehindSubChannels == {<<Loaded("RW", <<[File("a", 18) EXCEPT !.mode = "RW"]>>), Loaded("AUDIO", <<File("b", 8)>>)>>}
=============================================================================
