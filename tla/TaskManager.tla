---------------------------- MODULE TaskManager ----------------------------
(***************************************************************************)
(* gcdmaster/TaskManager.cc: run() of a task is called in a worker thread, *)
(* completed() in the main thread.  Workers tell the main thread that they *)
(* are done by callbacks of its idle loop; it completes tasks in the order *)
(* they were added.  completed() may itself run the main loop, so that     *)
(* everything else here can happen while it is on the stack.               *)
(***************************************************************************)
EXTENDS Integers, Sequences, FiniteSets, SequencesExt

CONSTANTS
    Tasks,      \* tasks, each one added at most once
    Workers,    \* the threads of the pool
    NoTask

VARIABLES
    tasks,           \* added, run() not known to be done, or a predecessor's not
    completionQueue, \* to be completed
    pool,            \* ThreadPool::tasks
    running,         \* the task each worker runs
    idle,            \* the jobDone() callbacks that wait for the main loop
    done,            \* Task::done
    sources,         \* how often completionThread() is connected to the idle loop
    stack,           \* tasks whose completed() is on the stack of the main thread
    numAdded, numCompleted, active

taskVars == <<tasks, completionQueue, pool, running, idle, done, sources, stack,
              numAdded, numCompleted, active>>

\* The tasks of jobs were added, and nothing has happened since.
Added(jobs) ==
    /\ tasks = jobs /\ completionQueue = <<>> /\ pool = jobs
    /\ running = [w \in Workers |-> NoTask]
    /\ idle = <<>> /\ done = {}
    /\ sources = 0 /\ stack = <<>>
    /\ numAdded = Len(jobs) /\ numCompleted = 0 /\ active = (jobs # <<>>)
Init == Added(<<>>)

\* addJob() emits signalQueueStarted, completionThread() signalQueueEmptied.
QueueStarts == tasks = <<>>
QueueEmpties == Len(completionQueue) = 1 /\ numCompleted + 1 = numAdded

IsNew(job) == \* a task is a new object
    /\ job \notin done
    /\ job \notin ToSet(tasks) \cup ToSet(pool) \cup {running[w] : w \in Workers}
AddJob(job) ==
    /\ IsNew(job)
    /\ IF QueueStarts THEN numAdded' = 1 /\ numCompleted' = 0 /\ active' = TRUE
                      ELSE numAdded' = numAdded + 1 /\ UNCHANGED <<numCompleted, active>>
    /\ tasks' = Append(tasks, job)
    /\ pool' = Append(pool, job)
    /\ UNCHANGED <<completionQueue, running, idle, done, sources, stack>>
-----------------------------------------------------------------------------
(* The workers.                                                            *)

TakeTask(w) ==
    /\ running[w] = NoTask
    /\ pool # <<>>
    /\ running' = [running EXCEPT ![w] = Head(pool)]
    /\ pool' = Tail(pool)
    /\ UNCHANGED <<tasks, completionQueue, idle, done, sources, stack, numAdded, numCompleted, active>>

\* run() has returned.
PostDone(w) ==
    /\ running[w] # NoTask
    /\ idle' = Append(idle, running[w])
    /\ running' = [running EXCEPT ![w] = NoTask]
    /\ UNCHANGED <<tasks, completionQueue, pool, done, sources, stack, numAdded, numCompleted, active>>
-----------------------------------------------------------------------------
(* The main thread.                                                        *)

ReadyMutant(doneNow) == Len(SelectSeq(tasks, LAMBDA t : t \in doneNow))
Ready(doneNow) == \* how many tasks at the front are done
    CHOOSE n \in 0 .. Len(tasks) : /\ \A i \in 1 .. n : tasks[i] \in doneNow
                                   /\ n = Len(tasks) \/ tasks[n + 1] \notin doneNow
ConnectsMutant == 1
Connects == IF completionQueue = <<>> THEN 1 ELSE 0

JobDone ==
    /\ idle # <<>>
    /\ idle' = Tail(idle)
    /\ done' = done \cup {Head(idle)}
    /\ LET n == Ready(done')
       IN  /\ completionQueue' = completionQueue \o SubSeq(tasks, 1, n)
           /\ tasks' = SubSeq(tasks, n + 1, Len(tasks))
           /\ sources' = sources + (IF n > 0 THEN Connects ELSE 0)
    /\ UNCHANGED <<pool, running, stack, numAdded, numCompleted, active>>

\* An idle source that is being dispatched is not dispatched again, another one is.
BeginCompletion ==
    /\ sources > Len(stack)
    /\ stack' = Append(stack, Head(completionQueue))
    /\ UNCHANGED <<tasks, completionQueue, pool, running, idle, done, sources, numAdded, numCompleted, active>>

EndCompletion ==
    /\ stack # <<>>
    /\ stack' = Front(stack)
    /\ completionQueue' = Tail(completionQueue)
    /\ sources' = IF Len(completionQueue) = 1 THEN sources - 1 ELSE sources
    /\ IF QueueEmpties THEN numAdded' = 0 /\ numCompleted' = 0 /\ active' = FALSE
                       ELSE numCompleted' = numCompleted + 1 /\ UNCHANGED <<numAdded, active>>
    /\ UNCHANGED <<tasks, pool, running, idle, done>>

Next ==
    \/ \E job \in Tasks : AddJob(job)
    \/ \E w \in Workers : TakeTask(w)
    \/ \E w \in Workers : PostDone(w)
    \/ JobDone
    \/ BeginCompletion
    \/ EndCompletion

Spec == Init /\ [][Next]_taskVars
-----------------------------------------------------------------------------
Outstanding == completionQueue \o tasks

\* completed() is called one at a time, and in the order of addJob(), whatever
\* order the workers finish in, and although the callback that connects the
\* idle source runs while a completion is on the stack (jobDone(), completionThread()).
Serial == INSTANCE SerialJobs WITH outstanding <- Outstanding, completing <- (stack # <<>>)
=============================================================================
