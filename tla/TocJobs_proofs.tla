--------------------------- MODULE TocJobs_proofs ---------------------------
(***************************************************************************)
(* Proofs about TocJobs: the jobs of a session go through the queue of     *)
(* TaskManager, and the edit lock follows them and the player.             *)
(***************************************************************************)
EXTENDS TocJobs, TocEdit_proofs

P == INSTANCE TaskManager_proofs WITH Tasks <- 1 .. MaxJobs

QueueInv ==
    /\ P!TaskInv
    /\ jobs \in Seq(ToSet(jobs)) /\ Len(jobs) <= MaxJobs

PlayType == [status : {"STOPPED", "PLAYING", "PAUSED"}, open : BOOLEAN, sources : Int, abort : BOOLEAN,
             left : Int, again : Int, button : BOOLEAN]

OutstandingJobs == Len(completionQueue) + Len(tasks)
LockIs(b, n, status) == b = (IF n > 0 THEN 1 ELSE 0) + (IF status # "STOPPED" THEN 1 ELSE 0)

\* The lock of a session is what is outstanding and what is played.  The counters
\* of the queue are exact, and nothing is completed while files are being queued,
\* as long as the user waits.
LockInv ==
    /\ editBlocked \in Nat
    /\ play \in PlayType
    /\ play.open <=> play.status # "STOPPED"
    /\ patient =>
        /\ LockIs(editBlocked, OutstandingJobs, play.status)
        /\ numCompleted \in Int /\ numAdded = numCompleted + OutstandingJobs
        /\ selected # <<>> => completionQueue = <<>>
-----------------------------------------------------------------------------
(* The queue.                                                              *)

\* QueueSelected is the only action that adds jobs; six change the queue.
LEMMA QueueSteps ==
    ASSUME SessionNext
    PROVE  \/ UNCHANGED <<taskVars, jobs>>
           \/ UNCHANGED jobs /\ \/ \E w \in Workers : TM!TakeTask(w) \/ TM!PostDone(w)
                                \/ TM!JobDone \/ TM!BeginCompletion \/ TM!EndCompletion
           \/ QueueSelected
<1>1. ASSUME NEW w \in Workers, TakeTask(w) PROVE TM!TakeTask(w) /\ UNCHANGED jobs
  BY <1>1 DEF TakeTask
<1>2. ASSUME NEW w \in Workers, Convert(w) PROVE TM!PostDone(w) /\ UNCHANGED jobs
  BY <1>2 DEF Convert
<1>3. JobDone => TM!JobDone /\ UNCHANGED jobs
  BY DEF JobDone
<1>4. Complete => TM!BeginCompletion /\ UNCHANGED jobs
  BY DEF Complete, CompletionBegins
<1>5. EndCompletion => TM!EndCompletion /\ UNCHANGED jobs
  BY DEF EndCompletion
<1>6. ReadSamples \/ CloseDialog \/ Crash \/ UserCut => UNCHANGED <<taskVars, jobs>>
  BY DEF ReadSamples, CloseDialog, Crash, UserCut
<1>7. AppendFiles \/ InsertFiles => UNCHANGED <<taskVars, jobs>>
  BY DEF AppendFiles, InsertFiles, ChoosesFiles
<1>8. PlayStart \/ Pause \/ Resume \/ PlayStop \/ PlayCallback => UNCHANGED <<taskVars, jobs>>
  BY DEF PlayStart, Pause, Resume, PlayStop, PlayCallback, PlayChanges
<1> QED
  BY <1>1, <1>2, <1>3, <1>4, <1>5, <1>6, <1>7, <1>8 DEF SessionNext

\* A sequence is one of its elements.
LEMMA ElementsOfItself ==
    ASSUME NEW S, NEW s \in Seq(S)
    PROVE  s \in Seq(ToSet(s))
<1>1. PICK E : E = ToSet(s)
  OBVIOUS
<1>2. DOMAIN s = 1 .. Len(s) /\ Len(s) \in Nat /\ s = [i \in 1 .. Len(s) |-> s[i]]
  OBVIOUS
<1>3. \A i \in 1 .. Len(s) : s[i] \in E
  BY <1>1, <1>2 DEF ToSet
<1>4. PICK n \in Nat : n = Len(s)
  BY <1>2
<1>5. s \in [1 .. n -> E]
  BY <1>2, <1>3, <1>4
<1>6. s \in Seq(E)
  BY ONLY <1>5, n \in Nat
<1> QED
  BY <1>1, <1>6

LEMMA QueueInit == SessionInit => QueueInv
<1> SUFFICES ASSUME SessionInit PROVE QueueInv
  OBVIOUS
<1>1. jobs \in Seq(ToSet(jobs)) /\ Len(jobs) <= MaxJobs /\ Len(jobs) \in Nat /\ MaxJobs \in Nat
  <2>1. jobs \in Seq(LoadingJobs) /\ Len(jobs) <= MaxJobs
    BY SessionAssumption DEF SessionInit
  <2>2. jobs \in Seq(ToSet(jobs))
    BY <2>1, ElementsOfItself
  <2> QED
    BY <2>1, <2>2, SessionAssumption, LenProperties
<1>2. PICK ids : ids = [id \in DOMAIN jobs |-> id]
  OBVIOUS
<1>3. DOMAIN jobs = 1 .. Len(jobs)
  BY <1>1
<1>4. ids \in Seq(1 .. MaxJobs)
  BY <1>1, <1>2, <1>3
<1>5. P!IsInjective(ids)
  BY <1>2 DEF P!IsInjective
<1>6. P!Added(ids)
  BY <1>2 DEF SessionInit, TM!Added, P!Added
<1>7. P!TaskInv
  BY <1>4, <1>5, <1>6, P!TaskInit
<1> QED
  BY <1>1, <1>7 DEF QueueInv

LEMMA QueueStep == QueueInv /\ [SessionNext]_sessionVars => QueueInv' /\ [P!Next]_(P!taskVars)
<1> SUFFICES ASSUME QueueInv, [SessionNext]_sessionVars PROVE QueueInv' /\ [P!Next]_(P!taskVars)
  OBVIOUS
<1>0. NoTask \notin 1 .. MaxJobs /\ MaxJobs \in Nat
  BY SessionAssumption
<1>1. [P!Next]_(P!taskVars) => P!TaskInv'
  BY <1>0, P!TaskStep DEF QueueInv
<1>2. ASSUME UNCHANGED <<taskVars, jobs>> PROVE QueueInv' /\ [P!Next]_(P!taskVars)
  BY <1>1, <1>2 DEF QueueInv, taskVars, P!taskVars, ToSet
<1>3. ASSUME UNCHANGED jobs, \/ \E w \in Workers : TM!TakeTask(w) \/ TM!PostDone(w)
                             \/ TM!JobDone \/ TM!BeginCompletion \/ TM!EndCompletion
      PROVE  QueueInv' /\ [P!Next]_(P!taskVars)
  <2>1. (\E w \in Workers : TM!TakeTask(w)) => P!Next
    BY DEF TM!TakeTask, P!TakeTask, P!Next
  <2>2. (\E w \in Workers : TM!PostDone(w)) => P!Next
    BY DEF TM!PostDone, P!PostDone, P!Next
  <2>3. TM!JobDone => P!Next
    BY DEF TM!JobDone, P!JobDone, P!Next, TM!Ready, P!Ready, TM!Connects, P!Connects
  <2>4. TM!BeginCompletion \/ TM!EndCompletion => P!Next
    BY DEF TM!BeginCompletion, P!BeginCompletion, TM!EndCompletion, P!EndCompletion, P!Next,
           TM!QueueEmpties, P!QueueEmpties, TM!Front, P!Front
  <2> QED
    BY <1>1, <1>3, <2>1, <2>2, <2>3, <2>4 DEF QueueInv, ToSet
<1>4. ASSUME QueueSelected PROVE QueueInv' /\ [P!Next]_(P!taskVars)
  <2>1. PICK job : jobs' = Append(jobs, job) /\ TM!AddJob(Len(jobs) + 1) /\ Len(jobs) < MaxJobs
    BY <1>4 DEF QueueSelected, QueueJob
  <2>2. jobs \in Seq(ToSet(jobs)) /\ Len(jobs) \in Nat
    BY DEF QueueInv
  <2>3. Len(jobs) + 1 \in 1 .. MaxJobs
    BY <1>0, <2>1, <2>2
  <2>4. P!AddJob(Len(jobs) + 1)
    BY <2>1 DEF TM!AddJob, P!AddJob, TM!IsNew, P!IsNew, TM!QueueStarts, P!QueueStarts, TM!ToSet, P!ToSet
  <2>5. P!Next
    BY <2>3, <2>4 DEF P!Next
  <2>6. jobs' \in Seq(ToSet(jobs')) /\ Len(jobs') = Len(jobs) + 1
    <3>1. Len(jobs') = Len(jobs) + 1 /\ DOMAIN jobs' = 1 .. Len(jobs) + 1
      BY <2>1, <2>2
    <3>2. jobs' \in [1 .. Len(jobs) + 1 -> ToSet(jobs')]
      <4>1. jobs' \in Seq(ToSet(jobs) \cup {job})
        BY <2>1, <2>2
      <4> QED
        BY <3>1, <4>1 DEF ToSet
    <3> QED
      BY <2>2, <3>1, <3>2, SeqDef
  <2> QED
    BY <1>0, <1>1, <2>1, <2>2, <2>5, <2>6 DEF QueueInv
<1> QED
  <2>1. UNCHANGED sessionVars => UNCHANGED <<taskVars, jobs>>
    BY DEF sessionVars
  <2> QED
    BY <1>2, <1>3, <1>4, <2>1, QueueSteps

LEMMA QueueInvariant == SessionSpec => [](QueueInv /\ P!TaskInv)
<1>1. QueueInv => P!TaskInv
  BY DEF QueueInv
<1> QED
  BY <1>1, QueueInit, QueueStep, PTL DEF SessionSpec

\* completed() is called in the order of addJob(), and for one job at a time, in
\* any session: whatever the files, the edits and the clicks of the user, and
\* although the scan loop of a completion runs the main loop (runCompletion()).
THEOREM JobsInOrder == SessionSpec => InOrder
<1>1. P!TaskInv /\ [P!Next]_(P!taskVars) => [P!Serial!Next]_(P!Serial!svars)
  BY P!SerialStep
<1>2. SessionInit => P!TaskInv /\ stack = <<>>
  BY QueueInit DEF SessionInit, TM!Added, QueueInv
<1>3. P!TaskInv /\ stack = <<>> => P!Serial!Init
  BY P!SerialInit
<1>4. P!Serial!Init => TM!Serial!Init
  BY DEF P!Serial!Init, TM!Serial!Init, P!Outstanding, TM!Outstanding
<1>5. [P!Serial!Next]_(P!Serial!svars) => [TM!Serial!Next]_(TM!Serial!svars)
  BY DEF P!Serial!Next, TM!Serial!Next, P!Serial!Add, TM!Serial!Add, P!Serial!Begin, TM!Serial!Begin,
         P!Serial!End, TM!Serial!End, P!Serial!svars, TM!Serial!svars, P!Outstanding, TM!Outstanding
<1> QED
  BY <1>1, <1>2, <1>3, <1>4, <1>5, QueueStep, QueueInvariant, PTL DEF SessionSpec, InOrder, TM!Serial!Spec

\* A job is completed only after its file was converted, and no worker runs it
\* any more, for any number of workers (jobDone()).
THEOREM ConvertedFirst == SessionSpec => []CompletedAfterConversion
<1>1. P!TaskInv => CompletedAfterConversion
  <2> SUFFICES ASSUME P!TaskInv, NEW id \in ToSet(completionQueue)
               PROVE  id \in done /\ \A w \in Workers : running[w] # id
    BY DEF CompletedAfterConversion
  <2>1. P!TaskTypeOK /\ P!RunOnce
    BY DEF P!TaskInv
  <2>2. id \in done
    BY <2>1 DEF P!RunOnce, P!ToSet, ToSet
  <2>3. id # NoTask
    BY <2>1, <2>2, SessionAssumption DEF P!TaskTypeOK
  <2> QED
    BY <2>1, <2>2, <2>3 DEF P!RunOnce
<1> QED
  BY <1>1, QueueInvariant, PTL
-----------------------------------------------------------------------------
(* The edit lock.                                                          *)

LEMMA Outstand == QueueInv =>
    /\ Len(tasks) \in Nat /\ Len(completionQueue) \in Nat
    /\ tasks = <<>> <=> Len(tasks) = 0
    /\ completionQueue = <<>> <=> Len(completionQueue) = 0
    /\ Outstanding = <<>> <=> Len(tasks) = 0 /\ Len(completionQueue) = 0
<1> SUFFICES ASSUME QueueInv
             PROVE  /\ Len(tasks) \in Nat /\ Len(completionQueue) \in Nat
                    /\ tasks = <<>> <=> Len(tasks) = 0
                    /\ completionQueue = <<>> <=> Len(completionQueue) = 0
                    /\ Outstanding = <<>> <=> Len(tasks) = 0 /\ Len(completionQueue) = 0
  OBVIOUS
<1>1. tasks \in Seq(1 .. MaxJobs) /\ completionQueue \in Seq(1 .. MaxJobs)
  BY DEF QueueInv, P!TaskInv, P!TaskTypeOK
<1>2. completionQueue \o tasks = <<>> <=> completionQueue = <<>> /\ tasks = <<>>
  BY <1>1, ConcatEqualIffEmpty
<1>3. tasks = <<>> <=> Len(tasks) = 0
  BY <1>1
<1>4. completionQueue = <<>> <=> Len(completionQueue) = 0
  BY <1>1
<1> QED
  BY <1>1, <1>2, <1>3, <1>4 DEF Outstanding, TM!Outstanding

LEMMA LockCount == QueueInv => (EditLockIsExact <=> LockIs(editBlocked, OutstandingJobs, play.status))
<1> SUFFICES ASSUME QueueInv PROVE EditLockIsExact <=> LockIs(editBlocked, OutstandingJobs, play.status)
  OBVIOUS
<1>1. PICK n \in Nat : n = OutstandingJobs /\ (Outstanding # <<>> <=> n > 0)
  <2>1. OutstandingJobs \in Nat /\ (Outstanding # <<>> <=> OutstandingJobs > 0)
    BY Outstand DEF OutstandingJobs
  <2> QED
    BY <2>1
<1>2. Busy(Outstanding # <<>>) = IF n > 0 THEN 1 ELSE 0
  BY <1>1 DEF Busy
<1>3. Busy(play.status # "STOPPED") = IF play.status # "STOPPED" THEN 1 ELSE 0
  BY DEF Busy
<1> QED
  BY <1>1, <1>2, <1>3 DEF EditLockIsExact, LockIs

LEMMA LockInit == SessionInit => LockInv
<1> SUFFICES ASSUME SessionInit PROVE LockInv
  OBVIOUS
<1>1. QueueInv
  BY QueueInit
<1>2. PICK ids : ids = [id \in DOMAIN jobs |-> id]
  OBVIOUS
<1>3. /\ tasks = ids /\ completionQueue = <<>> /\ numAdded = Len(ids) /\ numCompleted = 0
      /\ editBlocked = Busy(ids # <<>>)
      /\ play = [status |-> "STOPPED", open |-> FALSE, sources |-> 0, abort |-> FALSE, left |-> 0,
                 again |-> Plays, button |-> editBlocked = 0]
      /\ selected = <<>>
  BY <1>2 DEF SessionInit, TM!Added
<1>4. PICK n \in Nat : n = Len(tasks) /\ (tasks = <<>> <=> n = 0)
  BY <1>1, Outstand
<1>5. OutstandingJobs = n /\ editBlocked = (IF n > 0 THEN 1 ELSE 0)
  <2>1. Len(<<>>) = 0
    OBVIOUS
  <2> QED
    BY <1>3, <1>4, <2>1 DEF OutstandingJobs, Busy
<1>6. PICK button \in BOOLEAN : button = (editBlocked = 0)
  OBVIOUS
<1>7. play \in PlayType /\ play.status = "STOPPED" /\ play.open = FALSE
  BY <1>3, <1>6, SessionAssumption DEF PlayType
<1> QED
  BY <1>3, <1>4, <1>5, <1>7 DEF LockInv, LockIs

\* Steps that change neither the lock nor what it counts.
LEMMA LockFrame ==
    ASSUME LockInv, UNCHANGED <<editBlocked, play, tasks, completionQueue, numAdded, numCompleted, patient>>,
           patient /\ selected' # <<>> => completionQueue = <<>>
    PROVE  LockInv'
BY DEF LockInv, LockIs, OutstandingJobs

LEMMA LockWorkers ==
    ASSUME LockInv, NEW w \in Workers, TakeTask(w) \/ Convert(w)
    PROVE  LockInv'
<1>1. /\ UNCHANGED <<editBlocked, play, tasks, completionQueue, numAdded, numCompleted, patient, selected>>
  BY DEF TakeTask, Convert, TM!TakeTask, TM!PostDone
<1> QED
  BY <1>1, LockFrame DEF LockInv

LEMMA LockJobs ==
    ASSUME LockInv, Complete \/ ReadSamples \/ CloseDialog \/ Crash \/ UserCut
    PROVE  LockInv'
<1>1. UNCHANGED <<editBlocked, play, tasks, completionQueue, numAdded, numCompleted, patient, selected>>
  BY DEF Complete, CompletionBegins, TM!BeginCompletion, ReadSamples, CloseDialog, Crash, UserCut, taskVars
<1> QED
  BY <1>1, LockFrame DEF LockInv

LEMMA LockChoice ==
    ASSUME QueueInv, LockInv, AppendFiles \/ InsertFiles
    PROVE  LockInv'
<1>1. /\ UNCHANGED <<editBlocked, play, tasks, completionQueue, numAdded, numCompleted, patient>>
      /\ patient => Outstanding = <<>>
  BY DEF AppendFiles, InsertFiles, ChoosesFiles, taskVars
<1>2. patient => completionQueue = <<>>
  BY <1>1, Outstand
<1> QED
  BY <1>1, <1>2, LockFrame

LEMMA LockJobDone ==
    ASSUME QueueInv, LockInv, JobDone
    PROVE  LockInv'
<1>1. /\ UNCHANGED <<editBlocked, play, numAdded, numCompleted, patient, selected>>
      /\ selected = <<>> /\ TM!JobDone
  BY DEF JobDone, TM!JobDone, Dispatches
<1>2. P!JobDone
  BY <1>1 DEF TM!JobDone, P!JobDone, TM!Ready, P!Ready, TM!Connects, P!Connects
<1>3. PICK n \in 0 .. Len(tasks), moved \in Seq(1 .. MaxJobs) :
         /\ Len(moved) = n /\ completionQueue' = completionQueue \o moved
         /\ tasks' \in Seq(1 .. MaxJobs) /\ tasks = moved \o tasks'
  BY <1>2, P!MoveReady DEF QueueInv, P!TaskInv
<1>4. completionQueue \in Seq(1 .. MaxJobs)
  BY DEF QueueInv, P!TaskInv, P!TaskTypeOK
<1>5. OutstandingJobs' = OutstandingJobs
  <2>1. Len(completionQueue') = Len(completionQueue) + Len(moved) /\ Len(tasks) = Len(moved) + Len(tasks')
    BY <1>3, <1>4, ConcatProperties
  <2>2. Len(moved) \in Nat /\ Len(completionQueue) \in Nat /\ Len(tasks') \in Nat
    BY <1>3, <1>4
  <2> QED
    BY <2>1, <2>2 DEF OutstandingJobs
<1> QED
  BY <1>1, <1>5 DEF LockInv, LockIs

\* The last completion of a queue takes the lock away.
LEMMA LockEnd ==
    ASSUME QueueInv, LockInv, EndCompletion
    PROVE  LockInv'
<1>1. /\ TM!EndCompletion /\ UNCHANGED <<selected, patient, tasks>>
      /\ IF TM!QueueEmpties THEN SetBlocked(Unblocked(editBlocked)) ELSE UNCHANGED <<editBlocked, play>>
  BY DEF EndCompletion, TM!EndCompletion
<1>2. P!EndCompletion
  BY <1>1 DEF TM!EndCompletion, P!EndCompletion, TM!QueueEmpties, P!QueueEmpties, TM!Front, P!Front
<1>3. completionQueue # <<>> /\ Len(completionQueue') = Len(completionQueue) - 1
  BY <1>2, P!EndsAlone DEF QueueInv
<1>4. PICK c \in Nat \ {0} : c = Len(completionQueue)
  <2>1. Len(completionQueue) \in Nat \ {0}
    BY <1>3, Outstand
  <2> QED
    BY <2>1
<1>5. PICK t \in Nat : t = Len(tasks)
  BY Outstand
<1>6. OutstandingJobs = c + t /\ OutstandingJobs' = c - 1 + t
  BY <1>1, <1>3, <1>4, <1>5 DEF OutstandingJobs
<1>7. patient => selected = <<>>
  BY <1>3 DEF LockInv
<1>8. CASE TM!QueueEmpties
  <2>1. c = 1 /\ numCompleted + 1 = numAdded /\ numAdded' = 0 /\ numCompleted' = 0
    BY <1>1, <1>4, <1>8 DEF TM!EndCompletion, TM!QueueEmpties
  <2>2. PICK b \in Nat : b = Unblocked(editBlocked)
    BY DEF LockInv, Unblocked
  <2>3. editBlocked' = b /\ play' = [play EXCEPT !.button = ButtonAfter(editBlocked, b, @)]
    BY <1>1, <1>8, <2>2 DEF SetBlocked
  <2>4. PICK button \in BOOLEAN : play' = [play EXCEPT !.button = button]
    <3>1. ButtonAfter(editBlocked, b, play.button) \in BOOLEAN
      <4>1. PICK e \in BOOLEAN : e = (b = 0)
        OBVIOUS
      <4>2. play.button \in BOOLEAN
        BY DEF LockInv, PlayType
      <4> QED
        BY <4>1, <4>2 DEF ButtonAfter
    <3> QED
      BY <2>3, <3>1
  <2>5. play' \in PlayType /\ play'.status = play.status /\ play'.open = play.open
    BY <2>4 DEF LockInv, PlayType
  <2>6. ASSUME patient PROVE t = 0 /\ LockIs(b, 0, play.status)
    <3>1. numCompleted \in Int /\ numAdded = numCompleted + (c + t) /\ LockIs(editBlocked, c + t, play.status)
      BY <1>6, <2>6 DEF LockInv
    <3>2. t = 0
      BY <2>1, <3>1
    <3> QED
      BY <2>2, <3>1, <3>2 DEF LockIs, Unblocked
  <2>7. OutstandingJobs' = t
    BY <1>6, <2>1
  <2>8. editBlocked' \in Nat /\ (play'.open <=> play'.status # "STOPPED")
    BY <2>3, <2>5 DEF LockInv
  <2> QED
    BY <1>1, <1>7, <2>1, <2>3, <2>5, <2>6, <2>7, <2>8 DEF LockInv
<1>9. CASE ~TM!QueueEmpties
  <2>1. numCompleted' = numCompleted + 1 /\ numAdded' = numAdded /\ UNCHANGED <<editBlocked, play>>
        /\ ~(c = 1 /\ numCompleted + 1 = numAdded)
    BY <1>1, <1>4, <1>9 DEF TM!EndCompletion, TM!QueueEmpties
  <2>2. ASSUME patient
        PROVE  /\ LockIs(editBlocked, c - 1 + t, play.status)
               /\ numCompleted' \in Int /\ numAdded' = numCompleted' + (c - 1 + t)
    <3>1. numCompleted \in Int /\ numAdded = numCompleted + (c + t) /\ LockIs(editBlocked, c + t, play.status)
      BY <1>6, <2>2 DEF LockInv
    <3>2. ~(c = 1 /\ t = 0)
      BY <2>1, <3>1
    <3> QED
      BY <2>1, <3>1, <3>2 DEF LockIs
  <2> QED
    BY <1>1, <1>6, <1>7, <2>1, <2>2 DEF LockInv
<1> QED
  BY <1>8, <1>9

\* The first job of a queue takes the lock.
LEMMA LockQueue ==
    ASSUME QueueInv, LockInv, QueueSelected
    PROVE  LockInv'
<1>1. PICK job : QueueJob(job) /\ selected # <<>> /\ UNCHANGED patient
  BY DEF QueueSelected
<1>2. /\ TM!AddJob(Len(jobs) + 1)
      /\ IF TM!QueueStarts THEN SetBlocked(editBlocked + 1) ELSE UNCHANGED <<editBlocked, play>>
  BY <1>1 DEF QueueJob
<1>3. /\ tasks' = Append(tasks, Len(jobs) + 1) /\ UNCHANGED completionQueue
      /\ IF TM!QueueStarts THEN numAdded' = 1 /\ numCompleted' = 0
                           ELSE numAdded' = numAdded + 1 /\ numCompleted' = numCompleted
  BY <1>2 DEF TM!AddJob
<1>4. PICK t \in Nat : t = Len(tasks) /\ (TM!QueueStarts <=> t = 0)
  BY Outstand DEF TM!QueueStarts
<1>5. PICK c \in Nat : c = Len(completionQueue) /\ (completionQueue = <<>> <=> c = 0)
  BY Outstand
<1>6. Len(tasks') = t + 1
  <2>1. tasks \in Seq(1 .. MaxJobs)
    BY DEF QueueInv, P!TaskInv, P!TaskTypeOK
  <2> QED
    BY <1>3, <1>4, <2>1
<1>7. OutstandingJobs = c + t /\ OutstandingJobs' = c + (t + 1)
  BY <1>3, <1>4, <1>5, <1>6 DEF OutstandingJobs
<1>8. patient => c = 0 /\ completionQueue' = <<>>
  BY <1>1, <1>3, <1>5 DEF LockInv
<1>9. CASE TM!QueueStarts
  <2>1. t = 0 /\ numAdded' = 1 /\ numCompleted' = 0
    BY <1>3, <1>4, <1>9
  <2>2. PICK b \in Nat : b = editBlocked + 1
    <3>1. editBlocked \in Nat
      BY DEF LockInv
    <3> QED
      BY <3>1
  <2>3. editBlocked' = b /\ play' = [play EXCEPT !.button = ButtonAfter(editBlocked, b, @)]
    BY <1>2, <1>9, <2>2 DEF SetBlocked
  <2>4. PICK button \in BOOLEAN : play' = [play EXCEPT !.button = button]
    <3>1. ButtonAfter(editBlocked, b, play.button) \in BOOLEAN
      <4>1. PICK e \in BOOLEAN : e = (b = 0)
        OBVIOUS
      <4>2. play.button \in BOOLEAN
        BY DEF LockInv, PlayType
      <4> QED
        BY <4>1, <4>2 DEF ButtonAfter
    <3> QED
      BY <2>3, <3>1
  <2>5. play' \in PlayType /\ play'.status = play.status /\ play'.open = play.open
    BY <2>4 DEF LockInv, PlayType
  <2>6. ASSUME patient PROVE LockIs(b, c + (t + 1), play.status)
    <3>1. LockIs(editBlocked, 0, play.status)
      BY <1>7, <1>8, <2>1, <2>6 DEF LockInv
    <3> QED
      BY <1>8, <2>1, <2>2, <2>6, <3>1 DEF LockIs
  <2>7. editBlocked' \in Nat /\ (play'.open <=> play'.status # "STOPPED")
    BY <2>3, <2>5 DEF LockInv
  <2>8. patient => numAdded' = numCompleted' + (c + (t + 1))
    BY <1>8, <2>1
  <2> QED
    BY <1>1, <1>7, <1>8, <2>1, <2>3, <2>5, <2>6, <2>7, <2>8 DEF LockInv
<1>10. CASE ~TM!QueueStarts
  <2>1. t > 0 /\ numAdded' = numAdded + 1 /\ numCompleted' = numCompleted /\ UNCHANGED <<editBlocked, play>>
    BY <1>2, <1>3, <1>4, <1>10
  <2>2. ASSUME patient
        PROVE  /\ LockIs(editBlocked, c + (t + 1), play.status)
               /\ numCompleted' \in Int /\ numAdded' = numCompleted' + (c + (t + 1))
    <3>1. numCompleted \in Int /\ numAdded = numCompleted + (c + t) /\ LockIs(editBlocked, c + t, play.status)
      BY <1>7, <2>2 DEF LockInv
    <3> QED
      BY <2>1, <3>1 DEF LockIs
  <2> QED
    BY <1>1, <1>7, <1>8, <2>1, <2>2 DEF LockInv
<1> QED
  BY <1>9, <1>10

\* What the player does to the lock: it is locked by a start, and unlocked by an end.
LEMMA LockPlayer ==
    ASSUME LockInv, NEW record \in PlayType, NEW blocked \in Nat, PlayChanges(record, blocked),
           record.open <=> record.status # "STOPPED",
           patient => blocked - (IF record.status # "STOPPED" THEN 1 ELSE 0)
                        = editBlocked - (IF play.status # "STOPPED" THEN 1 ELSE 0)
    PROVE  LockInv'
<1>1. /\ play' = record /\ editBlocked' = blocked
      /\ UNCHANGED <<tasks, completionQueue, numAdded, numCompleted, selected, patient>>
  BY DEF PlayChanges, taskVars
<1>2. OutstandingJobs' = OutstandingJobs
  BY <1>1 DEF OutstandingJobs
<1>3. PICK n : n = OutstandingJobs
  OBVIOUS
<1>4. ASSUME patient PROVE LockIs(blocked, n, record.status)
  <2>1. LockIs(editBlocked, n, play.status) /\ editBlocked \in Nat
    BY <1>3, <1>4 DEF LockInv
  <2>2. PICK q \in {0, 1} : q = IF n > 0 THEN 1 ELSE 0
    OBVIOUS
  <2>3. editBlocked = q + (IF play.status # "STOPPED" THEN 1 ELSE 0)
    BY <2>1, <2>2 DEF LockIs
  <2>4. blocked = q + (IF record.status # "STOPPED" THEN 1 ELSE 0)
    BY <1>4, <2>1, <2>2, <2>3
  <2> QED
    BY <2>2, <2>4 DEF LockIs
<1> QED
  BY <1>1, <1>2, <1>3, <1>4 DEF LockInv

LEMMA LockPlay ==
    ASSUME LockInv, PlayStart \/ Pause \/ Resume \/ PlayStop \/ PlayCallback
    PROVE  LockInv'
<1>0. /\ editBlocked \in Nat /\ play \in PlayType
      /\ play.open <=> play.status # "STOPPED"
      /\ patient => (play.status # "STOPPED" => editBlocked >= 1)
  <2>1. PICK n : n = OutstandingJobs
    OBVIOUS
  <2>2. patient => LockIs(editBlocked, n, play.status)
    BY <2>1 DEF LockInv
  <2>3. LockIs(editBlocked, n, play.status) /\ play.status # "STOPPED" => editBlocked >= 1
    BY DEF LockIs
  <2> QED
    BY <2>2, <2>3 DEF LockInv
<1>1. PICK free \in BOOLEAN : free = (Unblocked(editBlocked) = 0)
  OBVIOUS
<1>2. PICK b \in Nat : b = Unblocked(editBlocked) /\ (editBlocked >= 1 => b = editBlocked - 1)
  <2>1. Unblocked(editBlocked) \in Nat /\ (editBlocked >= 1 => Unblocked(editBlocked) = editBlocked - 1)
    BY <1>0 DEF Unblocked
  <2> QED
    BY <2>1
<1>3. CASE PlayStart
  <2>1. PICK more \in Int, again \in Int : more = play.sources + 1 /\ again = play.again - 1
    BY <1>0 DEF PlayType
  <2>2. PICK record : record = [play EXCEPT !.status = "PLAYING", !.open = TRUE, !.sources = more,
                                    !.abort = FALSE, !.left = PlayBursts, !.again = again, !.button = FALSE]
    OBVIOUS
  <2>3. PlayChanges(record, editBlocked + 1) /\ play.status = "STOPPED"
    BY <1>3, <2>1, <2>2 DEF PlayStart
  <2>4. record \in PlayType /\ record.open /\ record.status = "PLAYING"
    <3>1. PICK bursts \in Int : bursts = PlayBursts
      BY SessionAssumption
    <3>2. record = [play EXCEPT !.status = "PLAYING", !.open = TRUE, !.sources = more,
                                !.abort = FALSE, !.left = bursts, !.again = again, !.button = FALSE]
      BY <2>2, <3>1
    <3> QED
      BY <1>0, <3>2 DEF PlayType
  <2>5. editBlocked + 1 \in Nat
    BY <1>0
  <2>6. patient => (editBlocked + 1) - (IF record.status # "STOPPED" THEN 1 ELSE 0)
                      = editBlocked - (IF play.status # "STOPPED" THEN 1 ELSE 0)
    BY <1>0, <2>3, <2>4
  <2> QED
    BY <2>3, <2>4, <2>5, <2>6, LockPlayer
<1>4. CASE Pause
  <2>1. PICK record : record = [play EXCEPT !.status = "PAUSED"]
    OBVIOUS
  <2>2. PlayChanges(record, editBlocked) /\ play.status = "PLAYING"
    BY <1>4, <2>1 DEF Pause
  <2>3. record \in PlayType /\ (record.open <=> record.status # "STOPPED") /\ record.status = "PAUSED"
    BY <1>0, <2>1, <2>2 DEF PlayType
  <2> QED
    BY <1>0, <2>2, <2>3, LockPlayer
<1>5. CASE Resume
  <2>1. PICK more \in Int : more = play.sources + 1
    BY <1>0 DEF PlayType
  <2>2. PICK record : record = [play EXCEPT !.status = "PLAYING", !.sources = more]
    OBVIOUS
  <2>3. PlayChanges(record, editBlocked) /\ play.status = "PAUSED"
    BY <1>5, <2>1, <2>2 DEF Resume
  <2>4. record \in PlayType /\ (record.open <=> record.status # "STOPPED") /\ record.status = "PLAYING"
    BY <1>0, <2>2, <2>3 DEF PlayType
  <2> QED
    BY <1>0, <2>3, <2>4, LockPlayer
<1>6. CASE PlayStop
  <2>1. CASE play.status = "PAUSED"
    <3>1. PICK record : record = [play EXCEPT !.status = "STOPPED", !.open = FALSE, !.button = free]
      OBVIOUS
    <3>2. PlayChanges(record, b)
      BY <1>1, <1>2, <1>6, <2>1, <3>1 DEF PlayStop, Stopped
    <3>3. record \in PlayType /\ ~record.open /\ record.status = "STOPPED"
      BY <1>0, <3>1 DEF PlayType
    <3>4. patient => b - (IF record.status # "STOPPED" THEN 1 ELSE 0)
                       = editBlocked - (IF play.status # "STOPPED" THEN 1 ELSE 0)
      BY <1>0, <1>2, <2>1, <3>3
    <3> QED
      BY <3>2, <3>3, <3>4, LockPlayer
  <2>2. CASE play.status # "PAUSED"
    <3>1. PICK record : record = [play EXCEPT !.abort = TRUE]
      OBVIOUS
    <3>2. PlayChanges(record, editBlocked)
      BY <1>6, <2>2, <3>1 DEF PlayStop
    <3>3. record \in PlayType /\ record.open = play.open /\ record.status = play.status
      BY <1>0, <3>1 DEF PlayType
    <3> QED
      BY <1>0, <3>2, <3>3, LockPlayer
  <2> QED
    BY <2>1, <2>2
<1>7. CASE PlayCallback
  <2>0. PICK fewer \in Int, left \in Int : fewer = play.sources - 1 /\ left = play.left - 1
    BY <1>0 DEF PlayType
  <2>1. ASSUME play.status = "PAUSED", PlayChanges([play EXCEPT !.sources = @ - 1, !.button = TRUE], editBlocked)
        PROVE  LockInv'
    <3>1. PICK record : record = [play EXCEPT !.sources = fewer, !.button = TRUE]
      OBVIOUS
    <3>2. PlayChanges(record, editBlocked)
      BY <2>0, <2>1, <3>1
    <3>3. record \in PlayType /\ record.open = play.open /\ record.status = play.status
      BY <1>0, <3>1 DEF PlayType
    <3> QED
      BY <1>0, <3>2, <3>3, LockPlayer
  <2>2. ASSUME PlayChanges(play, editBlocked) PROVE LockInv'
    BY <1>0, <2>2, LockPlayer
  <2>3. ASSUME play.open, NEW button \in BOOLEAN,
               PlayChanges([Stopped(button) EXCEPT !.sources = @ - 1], Unblocked(editBlocked))
        PROVE  LockInv'
    <3>1. PICK record : record = [play EXCEPT !.status = "STOPPED", !.open = FALSE, !.button = button, !.sources = fewer]
      OBVIOUS
    <3>2. record = [Stopped(button) EXCEPT !.sources = @ - 1]
      BY <1>0, <2>0, <3>1 DEF Stopped, PlayType
    <3>3. PlayChanges(record, b)
      BY <1>2, <2>3, <3>2
    <3>4. record \in PlayType /\ ~record.open /\ record.status = "STOPPED"
      BY <1>0, <3>1 DEF PlayType
    <3>5. patient => b - (IF record.status # "STOPPED" THEN 1 ELSE 0)
                       = editBlocked - (IF play.status # "STOPPED" THEN 1 ELSE 0)
      BY <1>0, <1>2, <2>3, <3>4
    <3> QED
      BY <3>3, <3>4, <3>5, LockPlayer
  <2>4. ASSUME PlayChanges([play EXCEPT !.left = @ - 1], editBlocked) PROVE LockInv'
    <3>1. PICK record : record = [play EXCEPT !.left = left]
      OBVIOUS
    <3>2. PlayChanges(record, editBlocked)
      BY <2>0, <2>4, <3>1
    <3>3. record \in PlayType /\ record.open = play.open /\ record.status = play.status
      BY <1>0, <3>1 DEF PlayType
    <3> QED
      BY <1>0, <3>2, <3>3, LockPlayer
  <2>5. \/ play.status = "PAUSED" /\ PlayChanges([play EXCEPT !.sources = @ - 1, !.button = TRUE], editBlocked)
        \/ PlayChanges(play, editBlocked)
        \/ play.open /\ PlayChanges([Stopped(TRUE) EXCEPT !.sources = @ - 1], Unblocked(editBlocked))
        \/ play.open /\ PlayChanges([Stopped(free) EXCEPT !.sources = @ - 1], Unblocked(editBlocked))
        \/ PlayChanges([play EXCEPT !.left = @ - 1], editBlocked)
    BY <1>1, <1>7, Zenon DEF PlayCallback
  <2>6. TRUE \in BOOLEAN
    OBVIOUS
  <2> QED
    BY <1>1, <2>1, <2>2, <2>3, <2>4, <2>5, <2>6, Zenon
<1> QED
  BY <1>3, <1>4, <1>5, <1>6, <1>7

LEMMA LockStep == QueueInv /\ LockInv /\ [SessionNext]_sessionVars => LockInv'
<1>1. UNCHANGED sessionVars /\ LockInv => LockInv'
  BY DEF sessionVars, taskVars, LockInv, LockIs, OutstandingJobs
<1> QED
  BY <1>1, LockWorkers, LockJobs, LockChoice, LockJobDone, LockEnd, LockQueue, LockPlay DEF SessionNext

\* For a user who waits for the queue and for the player, editing is blocked
\* exactly as long as jobs are outstanding or the TOC is played, for any session
\* (blockEdit(), unblockEdit()).
THEOREM EditLock == SessionSpec => []EditLockFollowsQueue
<1>1. QueueInv /\ LockInv => EditLockFollowsQueue
  BY LockCount DEF LockInv, EditLockFollowsQueue
<1>2. QueueInv /\ LockInv /\ [SessionNext]_sessionVars => QueueInv' /\ LockInv'
  BY QueueStep, LockStep
<1> QED
  BY <1>1, <1>2, QueueInit, LockInit, PTL DEF SessionSpec
-----------------------------------------------------------------------------
(* The TOC in a session.                                                   *)

LegalJobs == LoadingJobs \cup [op : {"aptrack", "apfile", "infile"}, file : AudioFiles, pos : Nat]

\* The jobs are of the kinds that a session queues, the queue holds no others, and
\* each of them has blocked the editor at most once.
JobsInv ==
    /\ jobs \in Seq(LegalJobs) /\ selected \in Seq(LegalJobs)
    /\ failed \subseteq 1 .. Len(jobs)
    /\ ToSet(tasks) \subseteq 1 .. Len(jobs) /\ done \subseteq 1 .. Len(jobs)
    /\ editBlocked <= Len(jobs) + Busy(play.status # "STOPPED")

ScanType == [reader : {"closed", "open", "broken"}, at : Int, end : Int, burst : Int, rest : Int]
ScanInside(s, T) == /\ s.at \in Nat /\ s.burst \in Nat /\ s.rest \in Nat
                    /\ s.at <= s.end + 1 /\ s.end < DiscLength(T)

\* The reader is open only during a scan, which a completion waits for.
ScanInv ==
    /\ scan \in ScanType
    /\ where \in {"none", "scan", "dialog", "end", "crash"}
    /\ where = "none" <=> stack = <<>>
    /\ scan.reader = "open" => where = "scan"
    /\ patient /\ scan.reader = "open" => ScanInside(scan, toc)

TocInv == EditInv(0) /\ QueueInv /\ LockInv /\ JobsInv /\ ScanInv

\* What is not an edit leaves the disc as it is.
LEMMA DiscFrame ==
    ASSUME EditInv(0), UNCHANGED <<toc, scrap, audioEdits>>, aborted' \in BOOLEAN
    PROVE  EditInv(0)'
<1>1. 0 # FourSeconds
  BY TrackAssumption
<1>2. Disc(toc, 0)' /\ scrap' \in AudioLists /\ NoPadding(scrap')
  BY DEF EditInv
<1> QED
  BY <1>1, <1>2 DEF EditInv

\* The job whose completion begins.
LEMMA CompletedJob ==
    ASSUME QueueInv, JobsInv, CompletionBegins
    PROVE  /\ Head(completionQueue) \in 1 .. Len(jobs) /\ jobs[Head(completionQueue)] \in LegalJobs
           /\ stack = <<>> /\ stack' # <<>>
<1>1. /\ completionQueue \in Seq(1 .. MaxJobs) /\ stack \in Seq(1 .. MaxJobs)
      /\ sources = (IF completionQueue = <<>> THEN 0 ELSE 1) /\ Len(stack) <= sources
      /\ P!ToSet(completionQueue) \subseteq done
  BY DEF QueueInv, P!TaskInv, P!TaskTypeOK, P!RunOnce, P!CompletionInv
<1>2. sources > Len(stack) /\ stack' = Append(stack, Head(completionQueue))
  BY DEF CompletionBegins, TM!BeginCompletion
<1>3. Len(stack) = 0 /\ completionQueue # <<>>
  <2>1. Len(stack) \in Nat
    BY <1>1
  <2> QED
    BY <1>1, <1>2, <2>1
<1>4. stack = <<>>
  BY <1>1, <1>3
<1>5. Head(completionQueue) \in P!ToSet(completionQueue)
  BY <1>1, <1>3, P!TailElements
<1>6. Head(completionQueue) \in 1 .. Len(jobs)
  BY <1>1, <1>5 DEF JobsInv
<1>7. jobs[Head(completionQueue)] \in LegalJobs
  BY <1>6, ElementOfSeq DEF JobsInv
<1>8. stack' # <<>>
  BY <1>2, <1>4
<1> QED
  BY <1>4, <1>6, <1>7, <1>8

\* The files of a job are put into the TOC by an edit that keeps the disc.
LEMMA CompletionEdits ==
    ASSUME EditInv(0), QueueInv, JobsInv, Complete
    PROVE  EditInv(0)'
<1>1. PICK job \in LegalJobs : job = jobs[Head(completionQueue)]
  BY CompletedJob DEF Complete
<1>2. CASE UNCHANGED vars
  <2>1. UNCHANGED <<toc, scrap, audioEdits, aborted>>
    BY <1>2 DEF vars
  <2>2. aborted' \in BOOLEAN
    BY <2>1 DEF EditInv
  <2> QED
    BY <2>1, <2>2, DiscFrame
<1>3. CASE job.op \in {"aptrack", "apfile", "infile"} /\ (CurAppendTrack(job) \/ CurAppendFile(job) \/ CurInsertFile(job))
  <2>1. PICK list : list = <<job.file>>
    OBVIOUS
  <2>2. UNCHANGED scrap /\ (AppendTrack(list) \/ AppendToLastTrack(list) \/ InsertAudio(job.pos, list))
    BY <1>3, <2>1 DEF CurAppendTrack, CurAppendFile, CurInsertFile
  <2>3. job.pos \in Nat /\ job.file \in AudioFiles
    BY <1>3 DEF LegalJobs, LoadingJobs
  <2>4. list \in AudioLists /\ NoPadding(list)
    BY <2>1, <2>3, FileIsAudio
  <2> QED
    BY <2>2, <2>3, <2>4, EditInvAudio
<1>4. RunCompletion(Head(completionQueue))
  BY DEF Complete
<1>5. (Scan(job) \/ \E next : NothingToDo(next)) => UNCHANGED vars
  BY DEF Scan, NothingToDo
<1> QED
  BY <1>1, <1>2, <1>3, <1>4, <1>5 DEF RunCompletion

\* Every step of a session keeps the disc.
LEMMA SessionEdits ==
    ASSUME EditInv(0), QueueInv, JobsInv, [SessionNext]_sessionVars
    PROVE  EditInv(0)'
<1>0. aborted \in BOOLEAN /\ TRUE \in BOOLEAN
  BY DEF EditInv
<1>1. ASSUME UNCHANGED vars PROVE EditInv(0)'
  BY <1>0, <1>1, DiscFrame DEF vars
<1>2. Complete => EditInv(0)'
  BY CompletionEdits
<1>3. ASSUME UserCut PROVE EditInv(0)'
  <2>1. PICK first \in Samples, last \in Samples : Cut(first, last)
    BY <1>3 DEF UserCut, CutSelection
  <2>2. first \in Nat /\ last \in Nat
    BY <2>1 DEF Samples
  <2> QED
    BY <2>1, <2>2, EditInvCut
<1>4. Crash => EditInv(0)'
  BY <1>0, DiscFrame DEF Crash, Abort
<1>5. PlayStart \/ Pause \/ Resume \/ PlayStop \/ PlayCallback => EditInv(0)'
  BY <1>0, DiscFrame DEF PlayStart, Pause, Resume, PlayStop, PlayCallback, PlayChanges
<1>6. ASSUME NEW w \in Workers, TakeTask(w) \/ Convert(w) PROVE EditInv(0)'
  BY <1>1, <1>6 DEF TakeTask, Convert
<1>7. JobDone \/ ReadSamples \/ CloseDialog \/ EndCompletion => EditInv(0)'
  BY <1>1 DEF JobDone, ReadSamples, CloseDialog, EndCompletion
<1>8. AppendFiles \/ InsertFiles \/ QueueSelected => EditInv(0)'
  BY <1>1 DEF AppendFiles, InsertFiles, ChoosesFiles, QueueSelected
<1>9. UNCHANGED sessionVars => EditInv(0)'
  BY <1>1 DEF sessionVars
<1> QED
  BY <1>2, <1>3, <1>4, <1>5, <1>6, <1>7, <1>8, <1>9 DEF SessionNext
-----------------------------------------------------------------------------
(* The jobs.                                                               *)

\* A step that changes nothing that is counted.
LEMMA JobsFrame ==
    ASSUME JobsInv, UNCHANGED <<jobs, selected, failed, tasks, done, editBlocked, play>>
    PROVE  JobsInv'
BY DEF JobsInv, ToSet

\* A step that changes only the lock and the player.
LEMMA JobsLock ==
    ASSUME JobsInv, LockInv, UNCHANGED <<jobs, selected, failed, tasks, done>>,
           NEW was \in 0 .. 1, was = Busy(play.status # "STOPPED"),
           NEW is \in 0 .. 1, is = Busy(play'.status # "STOPPED"),
           \/ editBlocked' = editBlocked /\ is = was
           \/ editBlocked' = editBlocked + 1 /\ was = 0 /\ is = 1
           \/ editBlocked' = Unblocked(editBlocked) /\ (is = was \/ is = 0)
    PROVE  JobsInv'
<1>1. PICK n \in Nat : n = Len(jobs)
  <2>1. Len(jobs) \in Nat
    BY DEF JobsInv
  <2> QED
    BY <2>1
<1>2. PICK b \in Nat : b = editBlocked /\ b <= n + was
  BY <1>1 DEF JobsInv, LockInv
<1>3. editBlocked' <= n + is
  BY <1>2 DEF Unblocked
<1> QED
  BY <1>1, <1>3 DEF JobsInv, ToSet

\* What the queue holds are jobs.
LEMMA JobsQueued ==
    ASSUME QueueInv, JobsInv
    PROVE  /\ \A w \in Workers : running[w] # NoTask => running[w] \in 1 .. Len(jobs)
           /\ idle # <<>> => Head(idle) \in 1 .. Len(jobs)
<1>1. P!TaskTypeOK /\ P!RunOnce
  BY DEF QueueInv, P!TaskInv
<1>2. P!ToSet(tasks) \subseteq 1 .. Len(jobs)
  BY DEF JobsInv, ToSet, P!ToSet
<1>3. \A w \in Workers : running[w] # NoTask => running[w] \in 1 .. Len(jobs)
  BY <1>1, <1>2 DEF P!RunOnce
<1>4. ASSUME idle # <<>> PROVE Head(idle) \in 1 .. Len(jobs)
  <2>1. Head(idle) \in P!ToSet(idle)
    BY <1>1, <1>4, P!TailElements DEF P!TaskTypeOK
  <2> QED
    BY <1>1, <1>2, <2>1 DEF P!RunOnce
<1> QED
  BY <1>3, <1>4

\* Only a job that a worker has run can fail.
LEMMA JobsConvert ==
    ASSUME QueueInv, JobsInv, NEW w \in Workers, Convert(w)
    PROVE  JobsInv'
<1>1. /\ failed' \subseteq failed \cup {running[w]} /\ running[w] # NoTask
      /\ UNCHANGED <<jobs, selected, tasks, done, editBlocked, play>>
  BY DEF Convert, TM!PostDone
<1>2. running[w] \in 1 .. Len(jobs)
  BY <1>1, JobsQueued
<1> QED
  BY <1>1, <1>2 DEF JobsInv, ToSet

\* A job that is done was in the queue.
LEMMA JobsDone ==
    ASSUME QueueInv, JobsInv, JobDone
    PROVE  JobsInv'
<1>1. /\ UNCHANGED <<jobs, selected, failed, editBlocked, play>>
      /\ TM!JobDone /\ idle # <<>> /\ done' = done \cup {Head(idle)}
  BY DEF JobDone, TM!JobDone
<1>2. P!JobDone
  BY <1>1 DEF TM!JobDone, P!JobDone, TM!Ready, P!Ready, TM!Connects, P!Connects
<1>3. P!ToSet(tasks') \subseteq P!ToSet(tasks)
  BY <1>2, P!MoveReady DEF QueueInv, P!TaskInv
<1>4. ToSet(tasks') \subseteq ToSet(tasks)
  BY <1>3 DEF ToSet, P!ToSet
<1>5. done' \subseteq 1 .. Len(jobs)
  BY <1>1, JobsQueued DEF JobsInv
<1> QED
  BY <1>1, <1>4, <1>5 DEF JobsInv

\* What the user chooses are files.
LEMMA JobsChosen ==
    ASSUME JobsInv, AppendFiles \/ InsertFiles
    PROVE  JobsInv'
<1>1. PICK chosen \in Seq(LegalJobs) : selected' = chosen
  <2>1. CASE AppendFiles
    <3>1. PICK op \in {"aptrack", "apfile"}, files \in Selections : selected' = [i \in DOMAIN files |-> Job(op, files[i], 0)]
      BY <2>1 DEF AppendFiles, ChoosesFiles
    <3>2. files \in Seq(AudioFiles)
      BY SessionAssumption
    <3>3. \A f \in AudioFiles : Job(op, f, 0) \in LegalJobs
      BY DEF Job, LegalJobs
    <3> QED
      BY <3>1, <3>2, <3>3
  <2>2. CASE InsertFiles
    <3>1. PICK files \in Selections, pos \in {0} \cup 0 .. LastSample(toc) :
             selected' = [i \in DOMAIN Reverse(files) |-> Job("infile", Reverse(files)[i], pos)]
      BY <2>2 DEF InsertFiles, ChoosesFiles, InsertionOrder
    <3>2. files \in Seq(AudioFiles)
      BY SessionAssumption
    <3>3. Reverse(files) \in Seq(AudioFiles)
      BY <3>2 DEF Reverse
    <3>4. \A f \in AudioFiles : Job("infile", f, pos) \in LegalJobs
      BY <3>1 DEF Job, LegalJobs
    <3> QED
      BY <3>1, <3>3, <3>4
  <2> QED
    BY <2>1, <2>2
<1>2. UNCHANGED <<jobs, failed, tasks, done, editBlocked, play>>
  BY DEF AppendFiles, InsertFiles, ChoosesFiles, taskVars
<1> QED
  BY <1>1, <1>2 DEF JobsInv, ToSet

\* A job that is queued blocks the editor at most once.
LEMMA JobsAdded ==
    ASSUME QueueInv, JobsInv, LockInv, QueueSelected
    PROVE  JobsInv'
<1>1. /\ selected # <<>> /\ selected' = Tail(selected) /\ UNCHANGED failed
      /\ jobs' = Append(jobs, Head(selected)) /\ TM!AddJob(Len(jobs) + 1)
      /\ SetBlocked(editBlocked + 1) \/ UNCHANGED <<editBlocked, play>>
  BY DEF QueueSelected, QueueJob
<1>2. PICK R : R = LegalJobs
  OBVIOUS
<1>3. jobs \in Seq(R) /\ selected \in Seq(R) /\ Head(selected) \in R
  BY <1>1, <1>2 DEF JobsInv
<1>4. jobs' \in Seq(R) /\ selected' \in Seq(R) /\ Len(jobs') = Len(jobs) + 1 /\ Len(jobs) \in Nat
  BY <1>1, <1>3
<1>5. UNCHANGED done /\ ToSet(tasks') \subseteq 1 .. Len(jobs) + 1
  <2>1. tasks \in Seq(1 .. MaxJobs)
    BY DEF QueueInv, P!TaskInv, P!TaskTypeOK
  <2>2. UNCHANGED done /\ tasks' = Append(tasks, Len(jobs) + 1)
    BY <1>1 DEF TM!AddJob
  <2>3. ToSet(tasks') \subseteq 1 .. Len(jobs) + 1
    <3>1. PICK Q, S, job : Q = 1 .. MaxJobs /\ job = Len(jobs) + 1 /\ S = Q \cup {job}
      OBVIOUS
    <3>2. tasks \in Seq(Q)
      BY <2>1, <3>1
    <3>3. tasks \in Seq(S)
      <4>1. PICK n \in Nat : n = Len(tasks) /\ tasks \in [1 .. n -> Q]
        BY <3>2
      <4>2. tasks \in [1 .. n -> S]
        BY <3>1, <4>1
      <4> QED
        BY ONLY <4>2, n \in Nat
    <3>4. PICK longer : longer = Append(tasks, job)
      OBVIOUS
    <3>5. P!ToSet(longer) = P!ToSet(tasks) \cup {job}
      BY <3>1, <3>3, <3>4, P!AppendElements
    <3>6. ToSet(longer) = ToSet(tasks) \cup {job}
      BY <3>5 DEF ToSet, P!ToSet
    <3>7. longer = tasks'
      BY <2>2, <3>1, <3>4
    <3>8. ToSet(longer) = ToSet(tasks')
      BY ONLY <3>7 DEF ToSet
    <3>9. ToSet(tasks) \subseteq 1 .. Len(jobs)
      BY DEF JobsInv
    <3>10. ToSet(longer) \subseteq 1 .. Len(jobs) + 1
      BY <1>4, <3>1, <3>6, <3>9
    <3> QED
      BY <3>8, <3>10
  <2> QED
    BY <2>2, <2>3
<1>6. editBlocked' <= Len(jobs) + 1 + Busy(play'.status # "STOPPED")
  <2>1. PICK b \in Nat, n \in Nat, was \in 0 .. 1 :
           b = editBlocked /\ n = Len(jobs) /\ was = Busy(play.status # "STOPPED") /\ b <= n + was
    <3>1. Busy(play.status # "STOPPED") \in 0 .. 1
      BY DEF Busy
    <3> QED
      BY <1>4, <3>1 DEF JobsInv, LockInv
  <2>2. editBlocked' \in {b, b + 1} /\ play'.status = play.status
    BY <1>1, <2>1 DEF SetBlocked, LockInv, PlayType
  <2> QED
    BY <2>1, <2>2
<1> QED
  BY <1>1, <1>2, <1>4, <1>5, <1>6 DEF JobsInv

\* The end of a completion unblocks the editor at most.
LEMMA JobsEnd ==
    ASSUME JobsInv, LockInv, EndCompletion
    PROVE  JobsInv'
<1>1. /\ UNCHANGED <<jobs, selected, failed, tasks, done>>
      /\ SetBlocked(Unblocked(editBlocked)) \/ UNCHANGED <<editBlocked, play>>
  BY DEF EndCompletion, TM!EndCompletion
<1>2. play'.status = play.status /\ (editBlocked' = Unblocked(editBlocked) \/ editBlocked' = editBlocked)
  BY <1>1 DEF SetBlocked, LockInv, PlayType
<1>3. PICK was \in 0 .. 1 : was = Busy(play.status # "STOPPED")
  BY DEF Busy
<1> QED
  BY <1>1, <1>2, <1>3, JobsLock

\* The player blocks the editor while it is not stopped.
LEMMA JobsPlay ==
    ASSUME JobsInv, LockInv, PlayStart \/ Pause \/ Resume \/ PlayStop \/ PlayCallback
    PROVE  JobsInv'
<1>1. UNCHANGED <<jobs, selected, failed, tasks, done>>
  BY DEF PlayStart, Pause, Resume, PlayStop, PlayCallback, PlayChanges, taskVars
<1>2. play \in PlayType /\ (play.open <=> play.status # "STOPPED")
  BY DEF LockInv
<1>3. PICK was \in 0 .. 1, is \in 0 .. 1 : was = Busy(play.status # "STOPPED") /\ is = Busy(play'.status # "STOPPED")
  BY DEF Busy
<1>4. CASE PlayStart
  <2>1. play.status = "STOPPED" /\ play'.status = "PLAYING" /\ editBlocked' = editBlocked + 1
    BY <1>2, <1>4 DEF PlayStart, PlayChanges, PlayType
  <2> QED
    BY <1>1, <1>3, <2>1, JobsLock DEF Busy
<1>5. CASE Pause \/ Resume
  <2>1. play.status # "STOPPED" /\ play'.status # "STOPPED" /\ editBlocked' = editBlocked
    BY <1>2, <1>5 DEF Pause, Resume, PlayChanges, PlayType
  <2> QED
    BY <1>1, <1>3, <2>1, JobsLock DEF Busy
<1>6. CASE PlayStop
  <2>1. \/ play'.status = "STOPPED" /\ editBlocked' = Unblocked(editBlocked)
        \/ play'.status = play.status /\ editBlocked' = editBlocked
    BY <1>2, <1>6 DEF PlayStop, PlayChanges, Stopped, PlayType
  <2> QED
    BY <1>1, <1>3, <2>1, JobsLock DEF Busy
<1>7. CASE PlayCallback
  <2>1. \/ play'.status = "STOPPED" /\ editBlocked' = Unblocked(editBlocked)
        \/ play'.status = play.status /\ editBlocked' = editBlocked
    BY <1>2, <1>7 DEF PlayCallback, PlayChanges, Stopped, PlayType
  <2> QED
    BY <1>1, <1>3, <2>1, JobsLock DEF Busy
<1> QED
  BY <1>4, <1>5, <1>6, <1>7

\* Each step of a session keeps what is said of the jobs.
LEMMA JobsStep == QueueInv /\ LockInv /\ JobsInv /\ [SessionNext]_sessionVars => JobsInv'
<1> SUFFICES ASSUME QueueInv, LockInv, JobsInv, [SessionNext]_sessionVars PROVE JobsInv'
  OBVIOUS
<1>1. ASSUME NEW w \in Workers, TakeTask(w) PROVE JobsInv'
  BY <1>1, JobsFrame DEF TakeTask, TM!TakeTask
<1>2. Complete \/ ReadSamples \/ CloseDialog \/ Crash \/ UserCut => JobsInv'
  BY JobsFrame DEF Complete, CompletionBegins, TM!BeginCompletion, ReadSamples, CloseDialog, Crash, UserCut, taskVars
<1>3. UNCHANGED sessionVars => JobsInv'
  BY JobsFrame DEF sessionVars, taskVars
<1> QED
  BY <1>1, <1>2, <1>3, JobsConvert, JobsDone, JobsChosen, JobsAdded, JobsEnd, JobsPlay DEF SessionNext
-----------------------------------------------------------------------------
(* The scans.                                                              *)

\* The block of a sample.
LEMMA BlockOf ==
    ASSUME NEW n \in Int, NEW q \in Nat \ {0}
    PROVE  /\ n \div q \in Int
           /\ n >= 0 => n \div q \in Nat
           /\ n \div q >= 0 => (n \div q) * q <= n
<1>1. PICK d \in Int, r \in Nat : d = n \div q /\ n = q * d + r
  <2>1. n = q * (n \div q) + (n % q) /\ n \div q \in Int /\ (n % q) \in 0 .. q - 1
    OBVIOUS
  <2> QED
    BY <2>1
<1>2. n >= 0 => n \div q \in Nat /\ (n \div q) * q <= n
  BY DivFacts
<1>3. d >= 0 => n >= 0
  <2>1. d >= 0 => q * d \in Nat
    OBVIOUS
  <2>2. PICK p \in Int : p = q * d
    OBVIOUS
  <2> QED
    BY <1>1, <2>1, <2>2
<1> QED
  BY <1>1, <1>2, <1>3

\* The length of a disc is a natural number.
LEMMA DiscLengthNat ==
    ASSUME NEW T, Disc(T, 0)
    PROVE  DiscLength(T) \in Nat
<1>1. PICK d : d = 0
  OBVIOUS
<1>2. Len(T) \in Nat /\ \A k \in 1 .. Len(T) : Length(T[k]) \in Nat
  <2>1. \A k \in 1 .. Len(T) : Length(T[k]) = T[k].length /\ T[k].length \in Nat
    BY <1>1, DiscPositions
  <2> QED
    BY <2>1 DEF Disc
<1>3. Len(T) + 1 \in 1 .. Len(T) + 1
  BY <1>2
<1> QED
  BY <1>2, <1>3, AbsStartNat DEF DiscLength

\* The least of three numbers.
LEMMA LeastOfThree ==
    ASSUME NEW a \in Int, NEW b \in Int, NEW c \in Int
    PROVE  Min({a, b, c}) \in Int /\ Min({a, b, c}) \in {a, b, c} /\ Min({a, b, c}) <= c
<1>1. \E n \in {a, b, c} : \A m \in {a, b, c} : n <= m
  OBVIOUS
<1>2. Min({a, b, c}) \in {a, b, c} /\ \A m \in {a, b, c} : Min({a, b, c}) <= m
  BY <1>1 DEF Min
<1> QED
  BY <1>2

\* The fields of a scan.
LEMMA ScanFields ==
    ASSUME NEW s \in ScanType
    PROVE  /\ s.reader \in {"closed", "open", "broken"}
           /\ s.at \in Int /\ s.end \in Int /\ s.burst \in Int /\ s.rest \in Int
           /\ s = [reader |-> s.reader, at |-> s.at, end |-> s.end, burst |-> s.burst, rest |-> s.rest]
BY DEF ScanType

\* A record of such fields is a scan.
LEMMA ScanRecord ==
    ASSUME NEW r \in {"closed", "open", "broken"}, NEW a \in Int, NEW e \in Int, NEW b \in Int, NEW n \in Int
    PROVE  [reader |-> r, at |-> a, end |-> e, burst |-> b, rest |-> n] \in ScanType
BY DEF ScanType

\* A scan that has moved on.
LEMMA ScanMoved ==
    ASSUME NEW r, NEW a, NEW e, NEW b, NEW n, NEW c, NEW m,
           NEW f, f = [reader |-> r, at |-> a, end |-> e, burst |-> b, rest |-> n],
           NEW g, g = [f EXCEPT !.at = c, !.rest = m]
    PROVE  g = [reader |-> r, at |-> c, end |-> e, burst |-> b, rest |-> m]
<1>1. DOMAIN g = {"reader", "at", "end", "burst", "rest"} /\ g = [i \in DOMAIN g |-> g[i]]
  OBVIOUS
<1>2. g.reader = r /\ g.burst = b /\ g.at = c /\ g.end = e /\ g.rest = m
  OBVIOUS
<1> QED
  BY ONLY <1>1, <1>2

\* scanToc() opens the reader only for blocks of the disc.
LEMMA ScanBegins ==
    ASSUME NEW T, Disc(T, 0), scan \in ScanType, scan.reader # "open",
           NEW first \in Nat, NEW last \in Int, NEW r \in ScanToc(T, first, last)
    PROVE  /\ r.ret \in {-1, 0, 1, 2} /\ r.scan \in ScanType
           /\ r.scan.reader = "open" => r.ret = 0 /\ ScanInside(r.scan, T)
<1>1. PICK B \in Nat \ {0}, L \in Nat : B = SAMPLES_PER_BLOCK /\ L = DiscLength(T)
  BY DiscLengthNat, TrackAssumption
<1>2. PICK at \in Nat : at = first \div B
  BY BlockOf
<1>3. PICK end \in Int : end = last \div B /\ (end >= 0 => end * B <= last)
  BY BlockOf
<1>4. PICK length \in Nat : length = L * B
  OBVIOUS
<1>5. SampleOf(L) = length /\ SampleOf(at) = at * B /\ at * B \in Nat
  BY <1>1, <1>4 DEF SampleOf
<1>6. PICK asked : asked = Asked(T, first, last)
  OBVIOUS
<1>7. asked = IF end < at THEN [scan EXCEPT !.at = at, !.end = end]
              ELSE IF last >= length THEN [scan EXCEPT !.at = at, !.end = end, !.rest = length]
              ELSE [scan EXCEPT !.at = at, !.end = end, !.rest = length - SampleOf(at)]
  BY <1>1, <1>2, <1>3, <1>5, <1>6 DEF Asked
<1>8. PICK reader \in {"closed", "broken"}, burst \in Int, rest \in Int :
         /\ scan.reader = reader
         /\ asked = [reader |-> reader, at |-> at, end |-> end, burst |-> burst, rest |-> rest]
         /\ end >= at /\ last < length => rest = length - at * B
  <2>1. PICK reader \in {"closed", "broken"}, was \in Int, ends \in Int, burst \in Int, left \in Int :
           scan = [reader |-> reader, at |-> was, end |-> ends, burst |-> burst, rest |-> left]
    BY ScanFields
  <2>2. PICK rest \in Int : rest = IF end < at THEN left ELSE IF last >= length THEN length ELSE length - at * B
    <3>1. length - at * B \in Int
      BY <1>5
    <3> QED
      BY <3>1
  <2>3. asked = [reader |-> reader, at |-> at, end |-> end, burst |-> burst, rest |-> rest]
    BY <1>5, <1>7, <2>1, <2>2
  <2> QED
    BY <2>1, <2>2, <2>3, SMTT(30)
<1>a. asked \in ScanType /\ asked.reader = scan.reader /\ asked.reader # "open"
  BY <1>8, ScanRecord
<1>9. CanScan(T, first, last) <=> end >= at /\ last < length
  BY <1>1, <1>2, <1>3, <1>5 DEF CanScan
<1>10. CASE ~CanScan(T, first, last)
  <2>1. r = [ret |-> 1, scan |-> asked]
    BY <1>6, <1>10 DEF ScanToc
  <2> QED
    BY <1>a, <2>1
<1>11. CASE CanScan(T, first, last) /\ scan.reader # "closed"
  <2>1. r = [ret |-> -1, scan |-> asked]
    BY <1>6, <1>11 DEF ScanToc
  <2> QED
    BY <1>a, <2>1
<1>12. CASE CanScan(T, first, last) /\ scan.reader = "closed"
  <2>1. PICK blocks : blocks = BurstBlocks(end - at + 1)
    OBVIOUS
  <2>2. blocks \in Nat
    BY <1>9, <1>12, <2>1 DEF BurstBlocks
  <2>3. PICK begun : begun = [reader |-> "open", at |-> at, end |-> end, burst |-> blocks, rest |-> rest]
    OBVIOUS
  <2>4. PICK broken : broken = [reader |-> "broken", at |-> at, end |-> end, burst |-> burst, rest |-> rest]
    OBVIOUS
  <2>5. r \in {[ret |-> 0, scan |-> begun], [ret |-> 2, scan |-> broken], [ret |-> 2, scan |-> asked]}
    <3>1. asked.at = at /\ asked.end = end
      BY <1>8
    <3>2. [asked EXCEPT !.reader = "broken"] = broken
      BY <1>8, <2>4
    <3>3. PICK opened : opened = [asked EXCEPT !.reader = "open", !.burst = blocks]
      OBVIOUS
    <3>4. opened = begun
      <4>1. DOMAIN opened = {"reader", "at", "end", "burst", "rest"} /\ opened = [i \in DOMAIN opened |-> opened[i]]
        BY ONLY <1>8, <3>3
      <4>2. /\ opened.reader = "open" /\ opened.burst = blocks
            /\ opened.at = at /\ opened.end = end /\ opened.rest = rest
        BY ONLY <1>8, <3>3
      <4> QED
        BY ONLY <2>3, <4>1, <4>2
    <3>5. r \in {[ret |-> 0, scan |-> opened],
                 [ret |-> 2, scan |-> [asked EXCEPT !.reader = "broken"]],
                 [ret |-> 2, scan |-> asked]}
      BY <1>6, <1>12, <2>1, <3>1, <3>3 DEF ScanToc
    <3> QED
      BY <3>2, <3>4, <3>5
  <2>6. end >= at /\ end < L /\ rest \in Nat
    <3>1. end >= at /\ end >= 0 /\ end * B < length /\ rest = length - at * B
      <4>1. PICK e \in Int : e = end * B
        OBVIOUS
      <4> QED
        BY <1>3, <1>8, <1>9, <1>12, <4>1
    <3>2. end < L
      BY <1>4, <3>1
    <3>3. at * B <= L * B
      BY <3>1, <3>2
    <3>4. PICK a \in Nat : a = at * B
      BY <1>5
    <3> QED
      BY <1>4, <3>1, <3>2, <3>3, <3>4
  <2>7. begun \in ScanType /\ broken \in ScanType /\ broken.reader = "broken"
    BY <2>2, <2>3, <2>4, ScanRecord
  <2>8. ScanInside(begun, T)
    BY <1>1, <2>2, <2>3, <2>6 DEF ScanInside
  <2> QED
    BY <1>a, <2>5, <2>7, <2>8
<1> QED
  BY <1>10, <1>11, <1>12

\* What follows scanToc().
LEMMA AfterScans ==
    ASSUME NEW ret \in {-1, 0, 1, 2}
    PROVE  /\ AfterScanJob(ret) \in {"scan", "dialog", "end", "crash"}
           /\ AfterAudioJob(ret) \in {"scan", "crash"}
           /\ ret = 0 => AfterScanJob(ret) = "scan" /\ AfterAudioJob(ret) = "scan"
BY DEF AfterScanJob, AfterAudioJob

\* A completion waits for the scan that it has begun.
LEMMA ScanWaits ==
    ASSUME NEW T, Disc(T, 0), scan \in ScanType, scan.reader # "open", NEW first \in Nat, NEW last \in Int,
           Scans(T, first, last, AfterScanJob) \/ Scans(T, first, last, AfterAudioJob)
    PROVE  /\ scan' \in ScanType /\ where' \in {"scan", "dialog", "end", "crash"}
           /\ scan'.reader = "open" => where' = "scan" /\ ScanInside(scan', T)
<1>1. PICK r \in ScanToc(T, first, last) : scan' = r.scan /\ where' \in {AfterScanJob(r.ret), AfterAudioJob(r.ret)}
  BY DEF Scans
<1>2. /\ r.ret \in {-1, 0, 1, 2} /\ r.scan \in ScanType
      /\ r.scan.reader = "open" => r.ret = 0 /\ ScanInside(r.scan, T)
  BY ScanBegins
<1>3. where' \in {"scan", "dialog", "end", "crash"} /\ (r.ret = 0 => where' = "scan")
  BY ONLY <1>1, <1>2, AfterScans
<1> QED
  BY <1>1, <1>2, <1>3
\* The completion of a job begins, and perhaps a scan.
LEMMA ScanComplete ==
    ASSUME EditInv(0), EditInv(0)', QueueInv, JobsInv, ScanInv, Complete
    PROVE  ScanInv'
<1>0. Disc(toc, 0) /\ Disc(toc', 0)
  BY DEF EditInv
<1>1. PICK job \in LegalJobs : job = jobs[Head(completionQueue)] /\ stack = <<>> /\ stack' # <<>>
  BY CompletedJob DEF Complete
<1>2. scan \in ScanType /\ scan.reader # "open"
  BY <1>1 DEF ScanInv
<1>3. PICK B \in Nat \ {0}, L \in Nat : B = SAMPLES_PER_BLOCK /\ L = DiscLength(toc)
  BY <1>0, DiscLengthNat, TrackAssumption
<1>4. PICK M \in Nat : M = DiscLength(toc')
  BY <1>0, DiscLengthNat
<1>5. LastSample(toc) + 1 \in Nat /\ LastSample(toc) \in Int /\ LastSample(toc') \in Int
  <2>1. LastSample(toc) = L * B - 1 /\ LastSample(toc') = M * B - 1 /\ L * B \in Nat /\ M * B \in Nat
    BY <1>3, <1>4 DEF LastSample, SampleOf
  <2> QED
    BY <2>1
<1>6. job.pos \in Nat /\ job.pos + job.file.len \in Int
  <2>1. job.file \in PieceType /\ job.pos \in Nat
    BY DEF LegalJobs, LoadingJobs, AudioFiles
  <2>2. job.file.len \in Nat
    BY <2>1 DEF PieceType
  <2> QED
    BY <2>1, <2>2
<1>7. \/ Scan(job) \/ CurAppendTrack(job) \/ CurAppendFile(job) \/ CurInsertFile(job)
      \/ NothingToDo("dialog") \/ NothingToDo("end")
  BY <1>1 DEF Complete, RunCompletion
<1>8. /\ scan' \in ScanType /\ where' \in {"scan", "dialog", "end", "crash"}
      /\ scan'.reader = "open" => where' = "scan" /\ ScanInside(scan', toc')
  <2>1. CASE Scan(job)
    <3>1. toc' = toc /\ Scans(toc, job.pos, LastSample(toc), AfterScanJob)
      BY <2>1 DEF Scan, vars
    <3> QED
      BY <1>0, <1>2, <1>5, <1>6, <3>1, ScanWaits
  <2>2. CASE CurAppendTrack(job)
    BY <1>0, <1>2, <1>5, <2>2, ScanWaits DEF CurAppendTrack
  <2>3. CASE CurAppendFile(job)
    BY <1>0, <1>2, <1>5, <2>3, ScanWaits DEF CurAppendFile
  <2>4. CASE CurInsertFile(job)
    BY <1>0, <1>2, <1>6, <2>4, ScanWaits DEF CurInsertFile
  <2>5. CASE NothingToDo("dialog") \/ NothingToDo("end")
    BY <1>2, <2>5 DEF NothingToDo
  <2> QED
    BY <1>7, <2>1, <2>2, <2>3, <2>4, <2>5
<1> QED
  BY <1>1, <1>8 DEF ScanInv

\* What the next readSamples() reads, and how far the scan is then.
LEMMA BurstRead ==
    ASSUME scan \in ScanType
    PROVE  /\ BlocksRead \in Int /\ Advanced \in ScanType /\ Advanced.reader = scan.reader
           /\ [Advanced EXCEPT !.reader = "closed"] \in ScanType /\ [Advanced EXCEPT !.reader = "closed"].reader = "closed"
           /\ \A T : ScanInside(scan, T) => ScanInside(Advanced, T)
<1>1. PICK B \in Nat \ {0} : B = SAMPLES_PER_BLOCK
  BY TrackAssumption
<1>2. PICK r \in {"closed", "open", "broken"}, at \in Int, end \in Int, burst \in Int, rest \in Int :
         scan = [reader |-> r, at |-> at, end |-> end, burst |-> burst, rest |-> rest]
  BY ScanFields
<1>3. PICK blocks \in Int : blocks = Ceiling(rest, B) /\ (rest >= 0 => blocks >= 0)
  <2>1. Ceiling(rest, B) \in Int
    BY BlockOf DEF Ceiling
  <2>2. rest >= 0 => Ceiling(rest, B) \in Nat
    BY CeilingFacts
  <2> QED
    BY <2>1, <2>2
<1>4. PICK left \in Nat : left = LargerOf(end - at + 1, 0) /\ (at <= end + 1 => left = end - at + 1)
  <2>1. PICK d \in Int : d = end - at + 1
    OBVIOUS
  <2>2. LargerOf(d, 0) \in Nat /\ (d >= 0 => LargerOf(d, 0) = d)
    BY DEF LargerOf
  <2> QED
    BY <2>1, <2>2
<1>5. PICK n \in Int : n = BlocksRead /\ n \in {burst, blocks, left} /\ n <= left
  <2>1. BlocksRead = Min({burst, blocks, left})
    <3>1. scan.burst = burst /\ scan.rest = rest /\ scan.end = end /\ scan.at = at
      BY <1>2
    <3> QED
      BY <1>1, <1>3, <1>4, <3>1, Zenon DEF BlocksRead
  <2>2. PICK least : least = Min({burst, blocks, left})
    OBVIOUS
  <2>3. left \in Int
    OBVIOUS
  <2>4. least \in Int /\ least \in {burst, blocks, left} /\ least <= left
    BY <2>2, <2>3, LeastOfThree
  <2> QED
    BY <2>1, <2>2, <2>4
<1>6. PICK rest2 \in Nat : rest2 = LargerOf(rest - SampleOf(n), 0)
  <2>1. PICK p \in Int : p = SampleOf(n)
    BY <1>1 DEF SampleOf
  <2>2. LargerOf(rest - p, 0) \in Nat
    BY DEF LargerOf
  <2> QED
    BY <2>1, <2>2
<1>7. Advanced = [reader |-> r, at |-> at + n, end |-> end, burst |-> burst, rest |-> rest2]
  <2>1. PICK to \in Int : to = at + n
    OBVIOUS
  <2>2. Advanced = [scan EXCEPT !.at = scan.at + n, !.rest = LargerOf(scan.rest - SampleOf(n), 0)]
    BY <1>5 DEF Advanced
  <2>3. scan.at = at /\ scan.rest = rest
    BY <1>2
  <2>4. Advanced = [scan EXCEPT !.at = to, !.rest = rest2]
    BY <1>6, <2>1, <2>2, <2>3
  <2>5. Advanced = [reader |-> r, at |-> to, end |-> end, burst |-> burst, rest |-> rest2]
    BY ONLY <1>2, <2>4, ScanMoved
  <2> QED
    BY <2>1, <2>5
<1>8. Advanced \in ScanType /\ Advanced.reader = r
  BY <1>7, ScanRecord
<1>9. [Advanced EXCEPT !.reader = "closed"] = [reader |-> "closed", at |-> at + n, end |-> end, burst |-> burst, rest |-> rest2]
  BY <1>7
<1>10. [Advanced EXCEPT !.reader = "closed"] \in ScanType /\ [Advanced EXCEPT !.reader = "closed"].reader = "closed"
  BY <1>9, ScanRecord
<1>11. ASSUME NEW T, ScanInside(scan, T) PROVE ScanInside(Advanced, T)
  <2>1. at \in Nat /\ burst \in Nat /\ rest \in Nat /\ at <= end + 1 /\ end < DiscLength(T)
    BY <1>2, <1>11 DEF ScanInside
  <2>2. n >= 0 /\ n <= end - at + 1
    BY <1>3, <1>4, <1>5, <2>1
  <2>3. at + n \in Nat /\ at + n <= end + 1
    BY <2>1, <2>2
  <2>4. Advanced.at = at + n /\ Advanced.end = end /\ Advanced.burst = burst /\ Advanced.rest = rest2
    BY <1>7
  <2> QED
    BY <2>1, <2>3, <2>4 DEF ScanInside
<1> QED
  BY <1>2, <1>5, <1>8, <1>10, <1>11

\* A burst is read.
LEMMA ScanReads ==
    ASSUME ScanInv, ReadSamples
    PROVE  ScanInv'
<1>1. /\ scan \in ScanType /\ where = "scan" /\ stack # <<>>
      /\ UNCHANGED <<stack, patient, toc>>
      /\ patient /\ scan.reader = "open" => ScanInside(scan, toc)
  BY DEF ScanInv, ReadSamples, taskVars, vars
<1>2. \/ scan.reader # "open" /\ where' = "crash" /\ scan' = scan
      \/ where' = "end" /\ scan' = [Advanced EXCEPT !.reader = "closed"]
      \/ where' = where /\ scan' = Advanced
      \/ where' = "dialog" /\ scan' = [scan EXCEPT !.reader = "closed"]
  BY DEF ReadSamples
<1>3. [scan EXCEPT !.reader = "closed"] \in ScanType /\ [scan EXCEPT !.reader = "closed"].reader = "closed"
  BY <1>1 DEF ScanType
<1>4. /\ scan' \in ScanType /\ where' \in {"scan", "dialog", "end", "crash"}
      /\ scan'.reader = "open" => where' = "scan" /\ scan.reader = "open" /\ scan' = Advanced
  BY <1>1, <1>2, <1>3, BurstRead
<1>5. patient /\ scan'.reader = "open" => ScanInside(scan', toc)
  BY <1>1, <1>4, BurstRead
<1> QED
  BY <1>1, <1>4, <1>5 DEF ScanInv

\* A patient user does not edit while the disc is scanned.
LEMMA NoEditWhileScanning ==
    ASSUME QueueInv, LockInv, ScanInv, patient, scan.reader = "open"
    PROVE  editBlocked # 0
<1>1. stack # <<>>
  BY DEF ScanInv
<1>2. /\ sources = (IF completionQueue = <<>> THEN 0 ELSE 1) /\ Len(stack) <= sources
      /\ stack \in Seq(1 .. MaxJobs)
  BY DEF QueueInv, P!TaskInv, P!CompletionInv, P!TaskTypeOK
<1>3. Len(stack) \in Nat /\ Len(stack) # 0
  BY <1>1, <1>2
<1>4. completionQueue # <<>>
  BY <1>2, <1>3
<1>5. PICK c \in Nat, t \in Nat : c = Len(completionQueue) /\ t = Len(tasks) /\ c # 0
  BY <1>4, Outstand
<1>6. LockIs(editBlocked, c + t, play.status)
  BY <1>5 DEF LockInv, OutstandingJobs
<1> QED
  BY <1>5, <1>6 DEF LockIs, LockInv

\* The scan follows each step.
LEMMA ScanStep ==
    EditInv(0) /\ EditInv(0)' /\ QueueInv /\ LockInv /\ JobsInv /\ ScanInv /\ [SessionNext]_sessionVars => ScanInv'
<1> SUFFICES ASSUME EditInv(0), EditInv(0)', QueueInv, LockInv, JobsInv, ScanInv, [SessionNext]_sessionVars
             PROVE  ScanInv'
  OBVIOUS
<1>1. ASSUME UNCHANGED <<scan, where, stack, patient, toc>> PROVE ScanInv'
  BY <1>1 DEF ScanInv, ScanInside
<1>2. ASSUME NEW w \in Workers, TakeTask(w) \/ Convert(w) PROVE ScanInv'
  BY <1>1, <1>2 DEF TakeTask, Convert, TM!TakeTask, TM!PostDone, vars
<1>3. JobDone \/ Crash \/ QueueSelected => UNCHANGED <<scan, where, stack, patient, toc>>
  BY DEF JobDone, TM!JobDone, Crash, Abort, QueueSelected, QueueJob, TM!AddJob, taskVars, vars
<1>4. AppendFiles \/ InsertFiles => UNCHANGED <<scan, where, stack, patient, toc>>
  BY DEF AppendFiles, InsertFiles, ChoosesFiles, taskVars, vars
<1>5. PlayStart \/ Pause \/ Resume \/ PlayStop \/ PlayCallback => UNCHANGED <<scan, where, stack, patient, toc>>
  BY DEF PlayStart, Pause, Resume, PlayStop, PlayCallback, PlayChanges, taskVars
<1>6. UNCHANGED sessionVars => UNCHANGED <<scan, where, stack, patient, toc>>
  BY DEF sessionVars, taskVars, vars
<1>7. CloseDialog => ScanInv'
  BY DEF CloseDialog, ScanInv, ScanInside, taskVars, vars
<1>8. ASSUME EndCompletion PROVE ScanInv'
  <2>1. P!EndCompletion
    BY <1>8 DEF EndCompletion, TM!EndCompletion, P!EndCompletion, TM!QueueEmpties, P!QueueEmpties, TM!Front, P!Front
  <2>2. stack' = <<>>
    BY <2>1, P!EndsAlone DEF QueueInv
  <2>3. scan' = scan /\ where = "end" /\ where' = "none"
    BY <1>8 DEF EndCompletion
  <2> QED
    BY <2>2, <2>3 DEF ScanInv
<1>9. ASSUME UserCut PROVE ScanInv'
  <2>1. UNCHANGED <<scan, where, stack, patient>> /\ editBlocked = 0
    BY <1>9 DEF UserCut, taskVars
  <2>2. ~(patient /\ scan.reader = "open")
    BY <2>1, NoEditWhileScanning
  <2> QED
    BY <2>1, <2>2 DEF ScanInv
<1> QED
  BY <1>1, <1>2, <1>3, <1>4, <1>5, <1>6, <1>7, <1>8, <1>9, ScanComplete, ScanReads DEF SessionNext
-----------------------------------------------------------------------------
(* The session.                                                            *)

\* A session on a disc of whole tracks starts in the invariant.
LEMMA TocInit ==
    ASSUME PlainSession
    PROVE  SessionInit => TocInv
<1> SUFFICES ASSUME SessionInit PROVE TocInv
  OBVIOUS
<1>1. PICK d : d = 0
  OBVIOUS
<1>2. Reserve(d) /\ d # FourSeconds
  BY <1>1, TrackAssumption DEF Reserve
<1>3. EditInv(d)
  BY <1>2, EditInvInit DEF SessionInit
<1>4. QueueInv /\ LockInv
  BY QueueInit, LockInit
<1>5. ScanInv
  <2>1. scan = [reader |-> "closed", at |-> 0, end |-> 0, burst |-> 0, rest |-> 0] /\ where = "none"
    BY DEF SessionInit
  <2>2. stack = <<>>
    BY DEF SessionInit, TM!Added
  <2>3. scan \in ScanType /\ scan.reader = "closed"
    BY <2>1, ScanRecord
  <2> QED
    BY <2>1, <2>2, <2>3 DEF ScanInv
<1>6. JobsInv
  <2>1. jobs \in Seq(LoadingJobs)
    BY SessionAssumption DEF SessionInit
  <2>2. PICK n \in Nat : n = Len(jobs) /\ DOMAIN jobs = 1 .. n
    BY <2>1
  <2>0. PICK R : R = LegalJobs
    OBVIOUS
  <2>3. jobs \in Seq(R)
    <3>1. \A i \in 1 .. n : jobs[i] \in R
      BY <2>0, <2>1, <2>2, ElementOfSeq DEF LegalJobs
    <3>2. jobs \in [1 .. n -> R]
      BY <2>1, <2>2, <3>1
    <3> QED
      BY ONLY <3>2, n \in Nat
  <2>4. PICK ids : ids = [id \in DOMAIN jobs |-> id]
    OBVIOUS
  <2>5. tasks = ids /\ done = {} /\ editBlocked = Busy(ids # <<>>) /\ failed = {} /\ selected = <<>>
    BY <2>4 DEF SessionInit, TM!Added
  <2>6. ToSet(tasks) \subseteq 1 .. n
    BY <2>2, <2>4, <2>5 DEF ToSet
  <2>7. play.status = "STOPPED"
    BY DEF SessionInit
  <2>8. editBlocked <= n + Busy(play.status # "STOPPED")
    <3>1. ids = <<>> <=> n = 0
      <4>1. ids \in Seq(1 .. n) /\ Len(ids) = n
        BY <2>2, <2>4
      <4> QED
        BY <4>1, EmptySeq
    <3>2. editBlocked = IF n = 0 THEN 0 ELSE 1
      BY <2>5, <3>1 DEF Busy
    <3> QED
      BY <2>7, <3>2 DEF Busy
  <2>9. selected \in Seq(R)
    BY <2>5
  <2> QED
    BY <2>0, <2>2, <2>3, <2>5, <2>6, <2>8, <2>9 DEF JobsInv
<1> QED
  BY <1>1, <1>3, <1>4, <1>5, <1>6 DEF TocInv

\* Each step of a session keeps it.
LEMMA TocStep == TocInv /\ [SessionNext]_sessionVars => TocInv'
BY QueueStep, LockStep, SessionEdits, JobsStep, ScanStep DEF TocInv

\* It says what the properties do.
LEMMA TocImplies == TocInv => MarksOrdered /\ (patient => SessionTypeOK)
<1> SUFFICES ASSUME TocInv PROVE MarksOrdered /\ (patient => SessionTypeOK)
  OBVIOUS
<1>1. EditInv(0) /\ QueueInv /\ LockInv /\ JobsInv /\ ScanInv
  BY DEF TocInv
<1>2. TypeOK /\ MarksOrdered
  <2>1. PICK d : d = 0
    OBVIOUS
  <2>2. Reserve(d)
    BY <2>1 DEF Reserve
  <2> QED
    BY <1>1, <2>1, <2>2, EditInvImplies
<1>3. PICK n \in Nat : n = Len(jobs) /\ n <= MaxJobs /\ DOMAIN jobs = 1 .. n
  <2>1. Len(jobs) \in Nat /\ DOMAIN jobs = 1 .. Len(jobs)
    BY <1>1 DEF JobsInv
  <2> QED
    BY <1>1, <2>1 DEF QueueInv
<1>4. editBlocked \in 0 .. MaxJobs + 1
  <2>1. PICK b \in Nat, p \in 0 .. 1 : b = editBlocked /\ p = Busy(play.status # "STOPPED") /\ b <= n + p
    BY <1>1, <1>3 DEF LockInv, JobsInv, Busy
  <2>2. MaxJobs \in Nat
    BY SessionAssumption
  <2> QED
    BY <1>3, <2>1, <2>2
<1>5. failed \subseteq DOMAIN jobs
  BY <1>1, <1>3 DEF JobsInv
<1>6. scan.reader \in {"closed", "open", "broken"}
  BY <1>1, ScanFields DEF ScanInv
<1>7. patient /\ scan.reader = "open" => scan.at <= scan.end + 1 /\ scan.end < DiscLength(toc)
  BY <1>1 DEF ScanInv, ScanInside
<1>8. where \in {"none", "scan", "dialog", "end", "crash"}
  BY <1>1 DEF ScanInv
<1>9. play.status \in {"STOPPED", "PLAYING", "PAUSED"}
  BY <1>1 DEF LockInv, PlayType
<1>10. \A w \in Workers : running[w] \in DOMAIN jobs \cup {NoTask}
  BY <1>1, <1>3, JobsQueued
<1> QED
  BY <1>2, <1>3, <1>4, <1>5, <1>6, <1>7, <1>8, <1>9, <1>10 DEF SessionTypeOK

\* Type correctness of a session: whatever files are added, whatever fails, and
\* however the workers, the scans, the player and a patient user take turns, the
\* TOC stays a disc and no scan leaves it, so that the arrays that scanToc() has
\* sized are not left (SampleManager.cc, TocEdit.cc).
THEOREM SessionTypes == ASSUME PlainSession PROVE SessionSpec => [](patient => SessionTypeOK)
BY TocInit, TocStep, TocImplies, PTL DEF SessionSpec

\* The jobs of a session put files into the TOC, and the user cuts between them: no
\* interleaving of them puts the marks of a track out of order (TocEdit.cc).
THEOREM SessionMarksInOrder == ASSUME PlainSession PROVE SessionSpec => []MarksOrdered
BY TocInit, TocStep, TocImplies, PTL DEF SessionSpec
=============================================================================
