---------------------------- MODULE MCTocReader ----------------------------
(***************************************************************************)
(* Instances of TocReader for TLC: blocks of two samples of two bytes, and *)
(* data blocks that are shorter than audio blocks.                         *)
(***************************************************************************)
EXTENDS TocReader

MCBlockSize == [AUDIO |-> 4, RW |-> 5, DATA |-> 3]
Loaded(mode, pieces) == FoldLeft(AppendSubTrack, NewTrack(mode), pieces)

\* Audio from two files and silence, audio with sub-channel data from two
\* files, data, and audio that needs padding.
Mixed == <<Loaded("AUDIO", <<Piece("AUDIO", "a", 1, 1), Piece("AUDIO", Silence, 0, 1), Piece("AUDIO", "b", 0, 3)>>),
           Loaded("RW", <<Piece("RW", "c", 0, 7), Piece("RW", "d", 0, 6)>>),
           Loaded("DATA", <<Piece("DATA", "e", 0, 4)>>),
           Loaded("AUDIO", <<Piece("AUDIO", "a", 4, 1)>>)>>
\* Data of two modes in one track.
TwoModes == <<Loaded("DATA", <<Piece("DATA", "e", 0, 4), Piece("RW", "c", 0, 5), Piece("RW", "d", 0, 2)>>)>>
\* Data from a file that is too short.
Short == <<Loaded("DATA", <<Piece("DATA", "f", 0, 4)>>)>>
\* Audio of every split into two pieces of up to three samples before another track.
Audio == {Loaded("AUDIO", <<Piece("AUDIO", "a", 0, n), Piece("AUDIO", "b", 0, m)>>) : n, m \in 1 .. 3}
SubChannels == {Loaded("RW", <<Piece("RW", "c", 0, n), Piece("RW", "d", 0, 11 - n)>>) : n \in 1 .. 6}
MCDiscs == {Mixed, TwoModes} \cup {Short} \cup {<<t, u>> : t \in Audio, u \in SubChannels} \cup {<<u, t>> : t \in Audio, u \in SubChannels}
Whole == [f \in {"a", "b", "c", "d", "e", "f"} |-> IF f = "f" THEN 3 ELSE 100]
ShortAudio == [Whole EXCEPT !["b"] = 2]
=============================================================================
