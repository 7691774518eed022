----------------------------- MODULE SerialJobs -----------------------------
(***************************************************************************)
(* What gcdmaster/TaskManager.h promises of the jobs of a queue: "The      *)
(* completed() functions are guaranteed to be called in the order in which *)
(* the jobs are added, one at a time."                                     *)
(***************************************************************************)
EXTENDS Sequences

CONSTANT Tasks

VARIABLES
    outstanding, \* the jobs added and not completed, in the order they were added
    completing   \* completed() of the first one is running

svars == <<outstanding, completing>>

Init == outstanding \in Seq(Tasks) /\ completing = FALSE

Add == \E job \in Tasks :
    outstanding' = Append(outstanding, job) /\ UNCHANGED completing
Begin ==
    /\ ~completing /\ outstanding # <<>>
    /\ completing' = TRUE
    /\ UNCHANGED outstanding
End ==
    /\ completing
    /\ completing' = FALSE
    /\ outstanding' = Tail(outstanding)

Next == Add \/ Begin \/ End

Spec == Init /\ [][Next]_svars
\* Every job that is added is completed at last.
FairSpec == Spec /\ WF_svars(Begin) /\ WF_svars(End)
=============================================================================
