------------------------------- MODULE MCDao -------------------------------
(***************************************************************************)
(* Instances of Dao for TLC: a TOC whose tracks do not end with a buffer,  *)
(* of seven buffers with BufferSize = 3, in a ring that is shorter.        *)
(***************************************************************************)
EXTENDS Dao

MCTrackStart == <<0, 5, 9, 10, 16>>
MCTrackType == <<"MODE1", "MODE2", "AUDIO", "AUDIO">>
MCSubChanType == <<"NONE", "NONE", "RW", "NONE">>
=============================================================================
