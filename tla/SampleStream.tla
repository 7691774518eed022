---------------------------- MODULE SampleStream ----------------------------
(***************************************************************************)
(* What a reader of a disc or of a track promises: a sequence of samples   *)
(* or blocks with a position, read in order from any position.  A call     *)
(* that fails ends the use of the stream.                                  *)
(***************************************************************************)
EXTENDS Integers, Sequences, SequencesExt

CONSTANTS
    Contents, \* what may be opened: sequences of units, each a sequence of values
    Failed    \* an answer

VARIABLES
    content, \* the stream that is open, or <<>>
    at,      \* units before the position
    asked,   \* units that a call still has to deliver, 0 if there is no call
    answer   \* what the last call delivered

streamVars == <<content, at, asked, answer>>

Init == content = <<>> /\ at = 0 /\ asked = 0 /\ answer = <<>>

Usable == content # <<>> /\ answer # Failed /\ asked = 0

Open ==
    /\ content = <<>>
    /\ content' \in Contents
    /\ at' = 0 /\ asked' = 0
    /\ answer' \in {<<>>, Failed}
Close ==
    /\ asked = 0
    /\ content' = <<>> /\ at' = 0 /\ asked' = 0 /\ answer' = <<>>
Seek ==
    /\ Usable
    /\ \/ at' \in 0 .. Len(content) - 1 /\ answer' = <<>>
       \/ answer' = Failed /\ UNCHANGED at
    /\ UNCHANGED <<content, asked>>
Ask == \* no more than there is
    /\ Usable
    /\ asked' \in 1 .. Len(content) - at
    /\ answer' = <<>>
    /\ UNCHANGED <<content, at>>
Answer ==
    /\ asked > 0
    /\ asked' = 0
    /\ \/ at' = at + asked /\ answer' = FlattenSeq(SubSeq(content, at + 1, at + asked))
       \/ answer' = Failed /\ UNCHANGED at
    /\ UNCHANGED content

Next == Open \/ Close \/ Seek \/ Ask \/ Answer

Spec == Init /\ [][Next]_streamVars
\* Every call returns.
FairSpec == Spec /\ WF_streamVars(Answer)
=============================================================================
