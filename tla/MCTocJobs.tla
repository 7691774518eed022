----------------------------- MODULE MCTocJobs -----------------------------
(***************************************************************************)
(* Instances of TocJobs for TLC: blocks of two samples, a disc of one      *)
(* short track or none, two files.                                         *)
(***************************************************************************)
EXTENDS TocJobs

MCBlockSize == [AUDIO |-> 2, RW |-> 3, DATA |-> 3]
File(f, len) == Piece("AUDIO", f, 0, len)
Loaded(pieces) == AppendAll(NewTrack("AUDIO"), pieces)

ShortDisc == {<<Loaded(<<File("a", 1)>>)>>}
NoDisc == {<<>>}
OneOrTwo == {<<File("x", 3)>>, <<File("x", 3), File("y", 1)>>}
Two == {<<File("x", 3), File("y", 1)>>}
EvenFile == {<<File("x", 6)>>}
NotLoaded == {<<>>}
LoadedOrNot == {<<>>, <<Job("convert", NoFile, 0), Job("scan", NoFile, 0)>>}
AudioOrData == ShortDisc \cup {<<Loaded(<<File("a", 2)>>), AppendAll(NewTrack("DATA"), <<[File("d", 3) EXCEPT !.mode = "DATA"]>>)>>}

\* The discs are what TOC files may contain, as the theorems about sessions suppose.
ASSUME PlainSession

Patient == {TRUE}
Both == {TRUE, FALSE}
Impatient == {FALSE}
=============================================================================
