---------------------------- MODULE BurnSession ----------------------------
(***************************************************************************)
(* What a caller of writeDiskAtOnce() may rely on, without ring buffer and *)
(* reader: the recorder gets the image in order, the session is closed     *)
(* only behind the whole image, and the return value tells the truth about *)
(* the session.                                                            *)
(***************************************************************************)
EXTENDS Integers, Sequences

CONSTANTS
    Image,      \* the blocks the TOC describes, as the recorder shall get them
    Device      \* FALSE for a read test: there is no recorder

VARIABLES burned, session, result
bvars == <<burned, session, result>>

Init == burned = <<>> /\ session = "none" /\ result = "busy"

\* initDao(): the medium is not touched yet.
Prepare ==
    /\ Device /\ result = "busy" /\ session = "none"
    /\ session' = "ready"
    /\ UNCHANGED <<burned, result>>

\* startDao(), it may fail half way.
Open ==
    /\ result = "busy" /\ session = "ready"
    /\ session' = "open"
    /\ UNCHANGED <<burned, result>>

Burn ==
    /\ result = "busy" /\ session = "open"
    /\ \E n \in Len(burned) + 1 .. Len(Image) : burned' = SubSeq(Image, 1, n)
    /\ UNCHANGED <<session, result>>

Close ==
    /\ result = "busy" /\ session = "open" /\ burned = Image
    /\ session' = "closed"
    /\ UNCHANGED <<burned, result>>

Abort ==
    /\ result = "busy" /\ session \in {"ready", "open"}
    /\ session' = "aborted"
    /\ UNCHANGED <<burned, result>>

\* Success is reported for a closed session only, failure only if no
\* session is left open.
Return ==
    /\ result = "busy"
    /\ \/ result' = "success" /\ (Device => session = "closed")
       \/ result' = "failure" /\ session \in {"none", "ready", "aborted"}
    /\ UNCHANGED <<burned, session>>

Next == Prepare \/ Open \/ Burn \/ Close \/ Abort \/ Return

Spec == Init /\ [][Next]_bvars

\* The caller gets an answer.
FairSpec == Spec /\ WF_bvars(Next)
=============================================================================
