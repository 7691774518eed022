------------------------------ MODULE MCCdrdao ------------------------------
(***************************************************************************)
(* Instances of Cdrdao for TLC.                                            *)
(***************************************************************************)
EXTENDS Cdrdao

MCMedia == {[empty |-> TRUE, append |-> TRUE, start |-> 0],
            [empty |-> FALSE, append |-> TRUE, start |-> 50],
            [empty |-> FALSE, append |-> FALSE, start |-> 0]}
Plain(command) == [command |-> command, simulate |-> FALSE, force |-> FALSE, eject |-> FALSE, keep |-> FALSE,
                   oneDrive |-> FALSE, cdText |-> FALSE, firstTrack |-> FALSE, audio |-> TRUE]
Options(command, names) == {[option \in DOMAIN Plain(command) |-> IF option \in on THEN TRUE ELSE Plain(command)[option]] : on \in SUBSET names}
MCJobs ==
    Options("write", {"simulate", "eject", "cdText"}) \cup {[Plain("write") EXCEPT !.force = TRUE, !.firstTrack = TRUE]}
    \cup Options("copy", {"oneDrive", "keep", "eject"})
    \cup {[j EXCEPT !.audio = audio] : j \in Options("fly", {"simulate", "eject"}), audio \in BOOLEAN}
    \cup Options("blank", {"simulate", "eject"}) \cup Options("unlock", {"eject"})
=============================================================================
