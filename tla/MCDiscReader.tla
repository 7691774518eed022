---------------------------- MODULE MCDiscReader ----------------------------
(***************************************************************************)
(* Instances of DiscReader for TLC.                                        *)
(***************************************************************************)
EXTENDS DiscReader

Audio(isrc, gap, length, indices) == [mode |-> "AUDIO", isrc |-> isrc, gap |-> gap, length |-> length, indices |-> indices]
DataTrack(mode, gap, length) == [mode |-> mode, isrc |-> FALSE, gap |-> gap, length |-> length, indices |-> <<>>]

\* The tracks one behind the other, each with its pre-gap as a part of its length.
Disc(catalog, tracks) ==
    LET area[nr \in 1 .. Len(tracks) + 1] == IF nr = 1 THEN 0 ELSE area[nr - 1] + tracks[nr - 1].length
    IN  [catalog |-> catalog,
         tracks |-> [nr \in DOMAIN tracks |->
                        [mode |-> tracks[nr].mode, isrc |-> tracks[nr].isrc, indices |-> tracks[nr].indices,
                         start |-> area[nr] + tracks[nr].gap, end |-> area[nr + 1]]]]

\* Three audio tracks and data, with a gap of one block or none; data before audio;
\* discs with the gaps of those written track at once.
MCTocs ==
    {Disc(TRUE, <<Audio(TRUE, 0, 6, <<2, 4>>), Audio(gap # 1, gap, 6 + gap, <<1, 3>>), DataTrack("MODE1", 2, 12)>>) : gap \in 0 .. 1}
    \cup {Disc(FALSE, <<DataTrack("MODE1", 0, 6), DataTrack("MODE1", 0, 3), Audio(TRUE, 2, 7, <<2>>), Audio(TRUE, 3, 8, <<>>)>>)}
    \cup {Disc(FALSE, <<DataTrack("MODE1", 0, 5), DataTrack("MODE1", 3, 6), Audio(TRUE, 3, 7, <<2>>), Audio(TRUE, 1, 5, <<>>)>>)}
    \cup {Disc(TRUE, <<Audio(TRUE, 2, 7, <<3>>), DataTrack("MODE1", 3, 7), DataTrack("MODE2_FORM1", 3, 6)>>)}
MCReader(command, raw, analysis, padFirst, tao) ==
    [command |-> command, raw |-> raw, analysis |-> analysis, padFirst |-> padFirst, tao |-> tao]
MCReaders ==
    {MCReader("read-toc", FALSE, analysis, FALSE, FALSE) : analysis \in {"scan", "search"}}
    \cup {MCReader("read-toc", FALSE, "fast", FALSE, TRUE)}
    \cup {MCReader("read-cd", padFirst, "scan", padFirst, FALSE) : padFirst \in BOOLEAN}
    \cup {MCReader("read-cd", TRUE, "search", FALSE, FALSE), MCReader("read-cd", TRUE, "fast", TRUE, TRUE)}
=============================================================================
