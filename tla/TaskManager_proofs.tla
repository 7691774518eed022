------------------------- MODULE TaskManager_proofs -------------------------
(***************************************************************************)
(* Proofs about TaskManager: what a task is until it is completed, for any *)
(* number of tasks and workers, and that completed() is called in order    *)
(* and one at a time.                                                      *)
(***************************************************************************)
EXTENDS TaskManager, SequenceTheorems, WellFoundedInduction, TLAPS

TaskTypeOK ==
    /\ tasks \in Seq(Tasks) /\ completionQueue \in Seq(Tasks) /\ pool \in Seq(Tasks) /\ idle \in Seq(Tasks)
    /\ stack \in Seq(Tasks)
    /\ running \in [Workers -> Tasks \cup {NoTask}]
    /\ done \subseteq Tasks

\* A task is at one place: in the pool, with one worker, in one callback, or done.
\* Until it is done it is in tasks; only what is done is to be completed.
RunOnce ==
    /\ IsInjective(pool) /\ IsInjective(idle)
    /\ \A t \in ToSet(pool) : t \in ToSet(tasks) /\ t \notin ToSet(idle) /\ t \notin done
    /\ \A t \in ToSet(idle) : t \in ToSet(tasks) /\ t \notin done
    /\ \A w \in Workers : running[w] # NoTask =>
        /\ running[w] \in ToSet(tasks)
        /\ running[w] \notin ToSet(pool) /\ running[w] \notin ToSet(idle) /\ running[w] \notin done
        /\ \A v \in Workers : running[v] = running[w] => v = w
    /\ ToSet(completionQueue) \subseteq done

\* completionThread() is connected once, as long as there is something to complete.
CompletionInv ==
    /\ sources = IF completionQueue = <<>> THEN 0 ELSE 1
    /\ Len(stack) <= sources

TaskInv == TaskTypeOK /\ RunOnce /\ CompletionInv
-----------------------------------------------------------------------------
(* Lemmas about natural numbers and about the elements of sequences.       *)

\* A set of natural numbers that is not empty has a least element.
LEMMA LeastNatural ==
    ASSUME NEW T, T \subseteq Nat, T # {}
    PROVE  \E n \in T : \A m \in T : n <= m
<1>1. PICK n \in T : \A m \in T : ~(<<m, n>> \in OpToRel(<, Nat))
  BY WFMin, NatLessThanWellFounded
<1>2. \A m \in T : ~(m < n)
  BY <1>1 DEF OpToRel
<1> QED
  BY <1>2

\* Ready() is the number of the tasks at the front that are done.
LEMMA ReadyTasks ==
    ASSUME NEW S, tasks \in Seq(S), NEW D
    PROVE  /\ Ready(D) \in 0 .. Len(tasks)
           /\ \A i \in 1 .. Ready(D) : tasks[i] \in D
<1>1. PICK T : T = {n \in 0 .. Len(tasks) : n = Len(tasks) \/ tasks[n + 1] \notin D}
  OBVIOUS
<1>2. Len(tasks) \in Nat
  OBVIOUS
<1>3. T \subseteq Nat /\ Len(tasks) \in T
  BY <1>1, <1>2
<1>4. PICK n \in T : \A m \in T : n <= m
  BY <1>3, LeastNatural
<1>5. \A i \in 1 .. n : tasks[i] \in D
  <2> SUFFICES ASSUME NEW i \in 1 .. n, tasks[i] \notin D PROVE FALSE
    OBVIOUS
  <2>1. n \in 0 .. Len(tasks) /\ i - 1 \in 0 .. Len(tasks) /\ (i - 1) + 1 = i
    BY <1>1, <1>2
  <2>2. i - 1 \in T
    BY <1>1, <2>1
  <2> QED
    BY <1>4, <2>1, <2>2
<1>6. \E k \in 0 .. Len(tasks) : /\ \A i \in 1 .. k : tasks[i] \in D
                                 /\ k = Len(tasks) \/ tasks[k + 1] \notin D
  BY <1>1, <1>4, <1>5
<1> QED
  BY <1>6 DEF Ready

LEMMA Elements ==
    ASSUME NEW S, NEW s \in Seq(S)
    PROVE  /\ ToSet(s) \subseteq S
           /\ DOMAIN s = 1 .. Len(s)
           /\ \A i \in 1 .. Len(s) : s[i] \in ToSet(s)
           /\ \A e \in ToSet(s) : \E i \in 1 .. Len(s) : s[i] = e
BY DEF ToSet

LEMMA AppendElements ==
    ASSUME NEW S, NEW s \in Seq(S), NEW e \in S
    PROVE  /\ Append(s, e) \in Seq(S)
           /\ ToSet(Append(s, e)) = ToSet(s) \cup {e}
           /\ IsInjective(s) /\ e \notin ToSet(s) => IsInjective(Append(s, e))
<1>0. Append(s, e) \in Seq(S)
  OBVIOUS
<1>1. PICK a \in Seq(S) : a = Append(s, e)
  BY <1>0
<1>2. Len(a) = Len(s) + 1 /\ a[Len(a)] = e /\ \A i \in 1 .. Len(s) : a[i] = s[i]
  BY <1>1
<1>3. DOMAIN a = 1 .. Len(a) /\ DOMAIN s = 1 .. Len(s) /\ Len(s) \in Nat
  OBVIOUS
<1>4. ToSet(a) = ToSet(s) \cup {e}
  BY <1>2, <1>3 DEF ToSet
<1>5. ASSUME IsInjective(s), e \notin ToSet(s) PROVE IsInjective(a)
  <2>1. \A i, j \in 1 .. Len(s) : s[i] = s[j] => i = j
    BY <1>3, <1>5 DEF IsInjective
  <2>2. \A i \in 1 .. Len(s) : s[i] # e
    BY <1>3, <1>5 DEF ToSet
  <2>3. \A i \in 1 .. Len(a) : i \in 1 .. Len(s) \/ i = Len(a)
    BY <1>2, <1>3
  <2>4. \A i, j \in 1 .. Len(a) : a[i] = a[j] => i = j
    BY <1>2, <2>1, <2>2, <2>3
  <2> QED
    BY <1>3, <2>4 DEF IsInjective
<1> QED
  BY <1>1, <1>4, <1>5

LEMMA TailElements ==
    ASSUME NEW S, NEW s \in Seq(S), s # <<>>
    PROVE  /\ Head(s) \in ToSet(s) /\ Head(s) \in S /\ Tail(s) \in Seq(S)
           /\ ToSet(Tail(s)) \subseteq ToSet(s)
           /\ IsInjective(s) => IsInjective(Tail(s)) /\ Head(s) \notin ToSet(Tail(s))
<1>0. Tail(s) \in Seq(S)
  BY HeadTailProperties
<1>1. PICK t \in Seq(S) : t = Tail(s)
  BY <1>0
<1>2. /\ Len(s) \in Nat \ {0} /\ Len(t) = Len(s) - 1 /\ Head(s) = s[1]
      /\ \A i \in 1 .. Len(t) : t[i] = s[i + 1] /\ i + 1 \in 1 .. Len(s) /\ i + 1 # 1
  BY <1>1
<1>3. DOMAIN t = 1 .. Len(t) /\ DOMAIN s = 1 .. Len(s) /\ 1 \in 1 .. Len(s)
  BY <1>2
<1>4. s[1] \in S
  BY <1>3
<1>5. ToSet(t) \subseteq ToSet(s) /\ s[1] \in ToSet(s)
  BY <1>2, <1>3 DEF ToSet
<1>6. ASSUME IsInjective(s) PROVE IsInjective(t) /\ s[1] \notin ToSet(t)
  <2>1. \A i, j \in 1 .. Len(s) : s[i] = s[j] => i = j
    BY <1>3, <1>6 DEF IsInjective
  <2>2. ASSUME NEW i \in 1 .. Len(t), NEW j \in 1 .. Len(t), t[i] = t[j] PROVE i = j
    <3>1. i + 1 = j + 1
      BY <1>2, <2>1, <2>2
    <3> QED
      BY <3>1
  <2>3. \A i \in 1 .. Len(t) : t[i] # s[1]
    BY <1>2, <1>3, <2>1
  <2>4. IsInjective(t)
    BY <1>3, <2>2, Zenon DEF IsInjective
  <2>5. s[1] \notin ToSet(t)
    BY <1>3, <2>3 DEF ToSet
  <2> QED
    BY <2>4, <2>5
<1> QED
  BY <1>1, <1>2, <1>4, <1>5, <1>6

LEMMA SplitElements ==
    ASSUME NEW S, NEW s \in Seq(S), NEW n \in 0 .. Len(s)
    PROVE  /\ SubSeq(s, 1, n) \in Seq(S) /\ SubSeq(s, n + 1, Len(s)) \in Seq(S)
           /\ Len(SubSeq(s, 1, n)) = n
           /\ s = SubSeq(s, 1, n) \o SubSeq(s, n + 1, Len(s))
           /\ \A e \in ToSet(SubSeq(s, 1, n)) : \E i \in 1 .. n : s[i] = e
           /\ ToSet(s) = ToSet(SubSeq(s, 1, n)) \cup ToSet(SubSeq(s, n + 1, Len(s)))
<1>0. Len(s) \in Nat /\ n \in Nat /\ n <= Len(s)
  OBVIOUS
<1>1. PICK a : a = SubSeq(s, 1, n)
  OBVIOUS
<1>2. PICK b : b = SubSeq(s, n + 1, Len(s))
  OBVIOUS
<1>3. /\ a \in Seq(S) /\ Len(a) = n /\ \A i \in 1 .. n : a[i] = s[i]
  BY <1>0, <1>1
<1>4. /\ b \in Seq(S) /\ Len(b) = Len(s) - n /\ \A i \in 1 .. Len(s) - n : b[i] = s[n + i]
  BY <1>0, <1>2
<1>5. s = a \o b
  <2>1. /\ a \o b \in Seq(S) /\ Len(a \o b) = Len(s)
        /\ \A i \in 1 .. Len(s) : (a \o b)[i] = IF i <= n THEN a[i] ELSE b[i - n]
    BY <1>0, <1>3, <1>4, ConcatProperties
  <2>2. \A i \in 1 .. Len(s) : (a \o b)[i] = s[i]
    BY <1>0, <1>3, <1>4, <2>1
  <2> QED
    BY <2>1, <2>2, SeqEqual
<1>6. DOMAIN s = 1 .. Len(s) /\ DOMAIN a = 1 .. n /\ DOMAIN b = 1 .. Len(s) - n
  BY <1>3, <1>4
<1>7. ToSet(s) = ToSet(a) \cup ToSet(b)
  <2>1. ASSUME NEW i \in 1 .. Len(s) PROVE s[i] \in ToSet(a) \cup ToSet(b)
    <3>1. i <= n => i \in 1 .. n /\ s[i] = a[i]
      BY <1>0, <1>3
    <3>2. i > n => i - n \in 1 .. Len(s) - n /\ s[i] = b[i - n]
      BY <1>0, <1>4
    <3> QED
      BY <1>0, <1>6, <3>1, <3>2 DEF ToSet
  <2>2. \A i \in 1 .. n : a[i] \in ToSet(s)
    BY <1>0, <1>3, <1>6 DEF ToSet
  <2>3. \A i \in 1 .. Len(s) - n : b[i] \in ToSet(s)
    BY <1>0, <1>4, <1>6 DEF ToSet
  <2> QED
    BY <1>6, <2>1, <2>2, <2>3 DEF ToSet
<1>8. \A e \in ToSet(a) : \E i \in 1 .. n : s[i] = e
  <2>1. \A e \in ToSet(a) : \E i \in 1 .. n : a[i] = e
    BY <1>6 DEF ToSet
  <2> QED
    BY <1>3, <2>1
<1> QED
  BY <1>1, <1>2, <1>3, <1>4, <1>5, <1>7, <1>8

LEMMA ConcatElements ==
    ASSUME NEW S, NEW s \in Seq(S), NEW t \in Seq(S)
    PROVE  s \o t \in Seq(S) /\ ToSet(s \o t) = ToSet(s) \cup ToSet(t)
<1>0. s \o t \in Seq(S)
  BY ConcatProperties
<1>1. PICK c \in Seq(S) : c = s \o t
  BY <1>0
<1>2. /\ Len(s) \in Nat /\ Len(t) \in Nat /\ Len(c) = Len(s) + Len(t)
      /\ \A i \in 1 .. Len(s) : c[i] = s[i]
      /\ \A i \in 1 .. Len(t) : c[Len(s) + i] = t[i] /\ Len(s) + i \in 1 .. Len(c)
  BY <1>1, ConcatProperties
<1>3. DOMAIN c = 1 .. Len(c) /\ DOMAIN s = 1 .. Len(s) /\ DOMAIN t = 1 .. Len(t)
  OBVIOUS
<1>4. ASSUME NEW i \in 1 .. Len(c) PROVE c[i] \in ToSet(s) \cup ToSet(t)
  <2>1. i <= Len(s) => c[i] \in ToSet(s)
    BY <1>2, <1>3 DEF ToSet
  <2>2. ASSUME i > Len(s) PROVE c[i] \in ToSet(t)
    <3>1. i - Len(s) \in 1 .. Len(t) /\ Len(s) + (i - Len(s)) = i
      BY <1>2, <2>2
    <3>2. c[i] = t[i - Len(s)]
      BY <1>2, <3>1
    <3> QED
      BY <1>3, <3>1, <3>2 DEF ToSet
  <2> QED
    BY <1>2, <2>1, <2>2
<1>5. \A i \in 1 .. Len(s) : s[i] \in ToSet(c)
  BY <1>2, <1>3 DEF ToSet
<1>6. \A i \in 1 .. Len(t) : t[i] \in ToSet(c)
  BY <1>2, <1>3 DEF ToSet
<1>7. ToSet(c) \subseteq ToSet(s) \cup ToSet(t)
  BY <1>3, <1>4 DEF ToSet
<1>8. ToSet(s) \subseteq ToSet(c)
  BY <1>3, <1>5 DEF ToSet
<1>9. ToSet(t) \subseteq ToSet(c)
  BY <1>3, <1>6 DEF ToSet
<1> QED
  BY <1>1, <1>7, <1>8, <1>9
-----------------------------------------------------------------------------
(* The invariant.                                                          *)

\* TocJobs starts with the jobs of loading a TOC, TaskManager alone with none.
LEMMA TaskInit ==
    ASSUME NEW first \in Seq(Tasks), IsInjective(first), Added(first)
    PROVE  TaskInv
<1>1. TaskTypeOK
  BY DEF Added, TaskTypeOK
<1>2. ToSet(<<>>) = {} /\ IsInjective(<<>>)
  BY DEF ToSet, IsInjective
<1>3. RunOnce
  BY <1>2 DEF Added, RunOnce
<1>4. CompletionInv
  BY DEF Added, CompletionInv
<1> QED
  BY <1>1, <1>3, <1>4 DEF TaskInv

LEMMA AddStep == TaskInv /\ (\E job \in Tasks : AddJob(job)) => TaskInv'
<1> SUFFICES ASSUME TaskInv, NEW job \in Tasks, AddJob(job) PROVE TaskInv'
  OBVIOUS
<1>0. TaskTypeOK /\ RunOnce /\ CompletionInv
  BY DEF TaskInv
<1>1. /\ tasks' = Append(tasks, job) /\ pool' = Append(pool, job)
      /\ UNCHANGED <<completionQueue, running, idle, done, sources, stack>>
      /\ job \notin done /\ job \notin ToSet(tasks) /\ job \notin ToSet(pool)
      /\ \A w \in Workers : running[w] # job
  BY DEF AddJob, IsNew
<1>2. TaskTypeOK'
  BY <1>0, <1>1 DEF TaskTypeOK
<1>3. /\ ToSet(tasks') = ToSet(tasks) \cup {job} /\ ToSet(pool') = ToSet(pool) \cup {job}
      /\ IsInjective(pool')
  BY <1>0, <1>1, AppendElements DEF TaskTypeOK, RunOnce
<1>4. RunOnce'
  <2>1. job \notin ToSet(idle)
    BY <1>0, <1>1 DEF RunOnce
  <2>2. IsInjective(idle')
    BY <1>0, <1>1 DEF RunOnce
  <2>3. \A t \in ToSet(pool') : t \in ToSet(tasks') /\ t \notin ToSet(idle') /\ t \notin done'
    BY <1>0, <1>1, <1>3, <2>1 DEF RunOnce
  <2>4. \A w \in Workers : running'[w] # NoTask =>
            /\ running'[w] \in ToSet(tasks')
            /\ running'[w] \notin ToSet(pool') /\ running'[w] \notin ToSet(idle') /\ running'[w] \notin done'
            /\ \A v \in Workers : running'[v] = running'[w] => v = w
    BY <1>0, <1>1, <1>3 DEF RunOnce
  <2> QED
    BY <1>0, <1>1, <1>3, <2>2, <2>3, <2>4 DEF RunOnce
<1>5. CompletionInv'
  BY <1>0, <1>1 DEF CompletionInv
<1> QED
  BY <1>2, <1>4, <1>5 DEF TaskInv

LEMMA TakeStep == NoTask \notin Tasks /\ TaskInv /\ (\E w \in Workers : TakeTask(w)) => TaskInv'
<1> SUFFICES ASSUME NoTask \notin Tasks, TaskInv, NEW w \in Workers, TakeTask(w) PROVE TaskInv'
  OBVIOUS
<1>0. TaskTypeOK /\ RunOnce /\ CompletionInv
  BY DEF TaskInv
<1>1. PICK job : job = Head(pool)
  OBVIOUS
<1>2. /\ running[w] = NoTask /\ pool # <<>>
      /\ running' = [running EXCEPT ![w] = job] /\ pool' = Tail(pool)
      /\ UNCHANGED <<tasks, completionQueue, idle, done, sources, stack>>
  BY <1>1 DEF TakeTask
<1>3. /\ job \in ToSet(pool) /\ job \in Tasks /\ pool' \in Seq(Tasks)
      /\ ToSet(pool') \subseteq ToSet(pool) /\ IsInjective(pool') /\ job \notin ToSet(pool')
  BY <1>0, <1>1, <1>2, TailElements DEF TaskTypeOK, RunOnce
<1>4. TaskTypeOK'
  BY <1>0, <1>2, <1>3 DEF TaskTypeOK
<1>5. running'[w] = job /\ \A v \in Workers : v # w => running'[v] = running[v]
  BY <1>0, <1>2 DEF TaskTypeOK
<1>6. RunOnce'
  <2>1. job \in ToSet(tasks) /\ job \notin ToSet(idle) /\ job \notin done /\ job # NoTask
    BY <1>0, <1>3 DEF RunOnce
  <2>2. \A v \in Workers : running[v] # job
    BY <1>0, <1>3, <2>1 DEF RunOnce
  <2>3. \A t \in ToSet(pool') : t \in ToSet(tasks') /\ t \notin ToSet(idle') /\ t \notin done'
    BY <1>0, <1>2, <1>3 DEF RunOnce
  <2>4. ASSUME NEW v \in Workers, running'[v] # NoTask
        PROVE  /\ running'[v] \in ToSet(tasks')
               /\ running'[v] \notin ToSet(pool') /\ running'[v] \notin ToSet(idle') /\ running'[v] \notin done'
               /\ \A u \in Workers : running'[u] = running'[v] => u = v
    <3>1. CASE v = w
      BY <1>2, <1>3, <1>5, <2>1, <2>2, <3>1
    <3>2. CASE v # w
      BY <1>0, <1>2, <1>3, <1>5, <2>2, <2>4, <3>2 DEF RunOnce
    <3> QED
      BY <3>1, <3>2
  <2>5. IsInjective(idle') /\ ToSet(completionQueue') \subseteq done'
        /\ \A t \in ToSet(idle') : t \in ToSet(tasks') /\ t \notin done'
    BY <1>0, <1>2 DEF RunOnce
  <2> QED
    BY <1>3, <2>3, <2>4, <2>5 DEF RunOnce
<1>7. CompletionInv'
  BY <1>0, <1>2 DEF CompletionInv
<1> QED
  BY <1>4, <1>6, <1>7 DEF TaskInv

LEMMA PostStep == TaskInv /\ (\E w \in Workers : PostDone(w)) => TaskInv'
<1> SUFFICES ASSUME TaskInv, NEW w \in Workers, PostDone(w) PROVE TaskInv'
  OBVIOUS
<1>0. TaskTypeOK /\ RunOnce /\ CompletionInv
  BY DEF TaskInv
<1>1. PICK job : job = running[w]
  OBVIOUS
<1>2. /\ job # NoTask /\ idle' = Append(idle, job) /\ running' = [running EXCEPT ![w] = NoTask]
      /\ UNCHANGED <<tasks, completionQueue, pool, done, sources, stack>>
  BY <1>1 DEF PostDone
<1>3. job \in Tasks /\ job \in ToSet(tasks) /\ job \notin ToSet(pool) /\ job \notin ToSet(idle) /\ job \notin done
  BY <1>0, <1>1, <1>2 DEF TaskTypeOK, RunOnce
<1>4. /\ idle' \in Seq(Tasks) /\ ToSet(idle') = ToSet(idle) \cup {job} /\ IsInjective(idle')
  BY <1>0, <1>2, <1>3, AppendElements DEF TaskTypeOK, RunOnce
<1>5. TaskTypeOK'
  BY <1>0, <1>2, <1>4 DEF TaskTypeOK
<1>6. running'[w] = NoTask /\ \A v \in Workers : v # w => running'[v] = running[v]
  BY <1>0, <1>2 DEF TaskTypeOK
<1>7. RunOnce'
  <2>1. \A v \in Workers : v # w => running[v] # job
    BY <1>0, <1>1, <1>2 DEF RunOnce
  <2>2. \A t \in ToSet(pool') : t \in ToSet(tasks') /\ t \notin ToSet(idle') /\ t \notin done'
    BY <1>0, <1>2, <1>3, <1>4 DEF RunOnce
  <2>3. ASSUME NEW v \in Workers, running'[v] # NoTask
        PROVE  /\ running'[v] \in ToSet(tasks')
               /\ running'[v] \notin ToSet(pool') /\ running'[v] \notin ToSet(idle') /\ running'[v] \notin done'
               /\ \A u \in Workers : running'[u] = running'[v] => u = v
    BY <1>0, <1>2, <1>4, <1>6, <2>1, <2>3 DEF RunOnce
  <2>4. IsInjective(pool') /\ ToSet(completionQueue') \subseteq done'
        /\ \A t \in ToSet(idle') : t \in ToSet(tasks') /\ t \notin done'
    BY <1>0, <1>2, <1>3, <1>4 DEF RunOnce
  <2> QED
    BY <1>4, <2>2, <2>3, <2>4 DEF RunOnce
<1>8. CompletionInv'
  BY <1>0, <1>2 DEF CompletionInv
<1> QED
  BY <1>5, <1>7, <1>8 DEF TaskInv

\* jobDone() moves the tasks at the front that are done, and keeps the order.
LEMMA MoveReady ==
    ASSUME TaskTypeOK, JobDone
    PROVE  \E n \in 0 .. Len(tasks), moved \in Seq(Tasks) :
              /\ Len(moved) = n
              /\ completionQueue' = completionQueue \o moved /\ completionQueue' \in Seq(Tasks)
              /\ tasks' \in Seq(Tasks) /\ tasks = moved \o tasks'
              /\ ToSet(tasks) = ToSet(moved) \cup ToSet(tasks')
              /\ ToSet(moved) \subseteq done'
              /\ ToSet(completionQueue') = ToSet(completionQueue) \cup ToSet(moved)
              /\ sources' = sources + (IF n > 0 THEN Connects ELSE 0)
<1>1. PICK D : D = done'
  OBVIOUS
<1>2. PICK n : n = Ready(D)
  OBVIOUS
<1>3. PICK moved : moved = SubSeq(tasks, 1, n)
  OBVIOUS
<1>4. /\ completionQueue' = completionQueue \o moved
      /\ tasks' = SubSeq(tasks, n + 1, Len(tasks))
      /\ sources' = sources + (IF n > 0 THEN Connects ELSE 0)
  BY <1>1, <1>2, <1>3 DEF JobDone
<1>5. tasks \in Seq(Tasks) /\ completionQueue \in Seq(Tasks)
  BY DEF TaskTypeOK
<1>6. n \in 0 .. Len(tasks) /\ \A i \in 1 .. n : tasks[i] \in D
  BY <1>2, <1>5, ReadyTasks
<1>7. /\ moved \in Seq(Tasks) /\ tasks' \in Seq(Tasks) /\ Len(moved) = n
      /\ tasks = moved \o tasks' /\ ToSet(tasks) = ToSet(moved) \cup ToSet(tasks')
      /\ \A e \in ToSet(moved) : \E i \in 1 .. n : tasks[i] = e
  BY <1>3, <1>4, <1>5, <1>6, SplitElements
<1>8. ToSet(moved) \subseteq D
  BY <1>6, <1>7
<1>9. completionQueue' \in Seq(Tasks) /\ ToSet(completionQueue') = ToSet(completionQueue) \cup ToSet(moved)
  BY <1>4, <1>5, <1>7, ConcatElements
<1> QED
  BY <1>1, <1>4, <1>6, <1>7, <1>8, <1>9

LEMMA JobDoneStep == TaskInv /\ JobDone => TaskInv'
<1> SUFFICES ASSUME TaskInv, JobDone PROVE TaskInv'
  OBVIOUS
<1>0. TaskTypeOK /\ RunOnce /\ CompletionInv
  BY DEF TaskInv
<1>1. PICK job : job = Head(idle)
  OBVIOUS
<1>2. /\ idle # <<>> /\ idle' = Tail(idle) /\ done' = done \cup {job}
      /\ UNCHANGED <<pool, running, stack>>
  BY <1>1 DEF JobDone
<1>3. PICK n \in 0 .. Len(tasks), moved \in Seq(Tasks) :
          /\ Len(moved) = n
          /\ completionQueue' = completionQueue \o moved /\ completionQueue' \in Seq(Tasks)
          /\ tasks' \in Seq(Tasks) /\ tasks = moved \o tasks'
          /\ ToSet(tasks) = ToSet(moved) \cup ToSet(tasks')
          /\ ToSet(moved) \subseteq done'
          /\ ToSet(completionQueue') = ToSet(completionQueue) \cup ToSet(moved)
          /\ sources' = sources + (IF n > 0 THEN Connects ELSE 0)
  BY <1>0, MoveReady
<1>4. /\ job \in ToSet(idle) /\ job \in Tasks /\ idle' \in Seq(Tasks)
      /\ ToSet(idle') \subseteq ToSet(idle) /\ IsInjective(idle') /\ job \notin ToSet(idle')
  BY <1>0, <1>1, <1>2, TailElements DEF TaskTypeOK, RunOnce
<1>5. TaskTypeOK'
  BY <1>0, <1>2, <1>3, <1>4 DEF TaskTypeOK
<1>6. RunOnce'
  <2>1. \A t : t \in ToSet(tasks) /\ t \notin done' => t \in ToSet(tasks')
    BY <1>3
  <2>2. \A t \in ToSet(pool') : t \in ToSet(tasks') /\ t \notin ToSet(idle') /\ t \notin done'
    BY <1>0, <1>2, <1>4, <2>1 DEF RunOnce
  <2>3. \A t \in ToSet(idle') : t \in ToSet(tasks') /\ t \notin done'
    BY <1>0, <1>2, <1>4, <2>1 DEF RunOnce
  <2>4. ASSUME NEW v \in Workers, running'[v] # NoTask
        PROVE  /\ running'[v] \in ToSet(tasks')
               /\ running'[v] \notin ToSet(pool') /\ running'[v] \notin ToSet(idle') /\ running'[v] \notin done'
               /\ \A u \in Workers : running'[u] = running'[v] => u = v
    <3>1. running' = running /\ pool' = pool
      BY <1>2
    <3>2. /\ running[v] \in ToSet(tasks) /\ running[v] \notin ToSet(pool)
          /\ running[v] \notin ToSet(idle) /\ running[v] \notin done
          /\ \A u \in Workers : running[u] = running[v] => u = v
      BY <1>0, <2>4, <3>1 DEF RunOnce
    <3>3. running[v] \notin done' /\ running[v] \notin ToSet(idle')
      BY <1>2, <1>4, <3>2
    <3> QED
      BY <2>1, <3>1, <3>2, <3>3
  <2>5. IsInjective(pool') /\ ToSet(completionQueue') \subseteq done'
    BY <1>0, <1>2, <1>3 DEF RunOnce
  <2> QED
    BY <1>4, <2>2, <2>3, <2>4, <2>5 DEF RunOnce
<1>7. CompletionInv'
  <2>1. completionQueue \in Seq(Tasks) /\ Len(stack) \in Nat
    BY <1>0 DEF TaskTypeOK
  <2>2. /\ Len(completionQueue') = Len(completionQueue) + n
        /\ Len(completionQueue) \in Nat /\ n \in Nat
    BY <1>3, <2>1, ConcatProperties
  <2>3. completionQueue = <<>> <=> Len(completionQueue) = 0
    BY <2>1, EmptySeq
  <2>4. completionQueue' = <<>> <=> Len(completionQueue') = 0
    BY <1>3, EmptySeq
  <2> QED
    BY <1>0, <1>2, <1>3, <2>1, <2>2, <2>3, <2>4 DEF CompletionInv, Connects
<1> QED
  BY <1>5, <1>6, <1>7 DEF TaskInv

\* completed() begins for the first task of the queue, and no other is running.
LEMMA BeginsAlone ==
    ASSUME TaskInv, BeginCompletion
    PROVE  stack = <<>> /\ completionQueue # <<>> /\ Len(stack') = 1 /\ stack' # <<>>
<1>1. /\ stack \in Seq(Tasks) /\ completionQueue \in Seq(Tasks)
      /\ sources = (IF completionQueue = <<>> THEN 0 ELSE 1) /\ Len(stack) <= sources /\ sources > Len(stack)
      /\ stack' = Append(stack, Head(completionQueue))
  BY DEF TaskInv, TaskTypeOK, CompletionInv, BeginCompletion
<1>2. Len(stack) \in Nat
  BY <1>1
<1>3. completionQueue # <<>> /\ Len(stack) = 0
  BY <1>1, <1>2
<1>4. stack = <<>>
  BY <1>1, <1>3, EmptySeq
<1>5. stack' = <<Head(completionQueue)>>
  BY <1>1, <1>4
<1> QED
  BY <1>3, <1>4, <1>5

LEMMA BeginStep == TaskInv /\ BeginCompletion => TaskInv'
<1> SUFFICES ASSUME TaskInv, BeginCompletion PROVE TaskInv'
  OBVIOUS
<1>1. /\ completionQueue # <<>> /\ Len(stack') = 1
      /\ stack' = Append(stack, Head(completionQueue))
      /\ UNCHANGED <<tasks, completionQueue, pool, running, idle, done, sources>>
  BY BeginsAlone DEF BeginCompletion
<1>2. completionQueue \in Seq(Tasks) /\ stack \in Seq(Tasks)
  BY DEF TaskInv, TaskTypeOK
<1>3. stack' \in Seq(Tasks)
  BY <1>1, <1>2, HeadTailProperties
<1>4. TaskTypeOK'
  BY <1>1, <1>3 DEF TaskInv, TaskTypeOK
<1>5. RunOnce'
  BY <1>1 DEF TaskInv, RunOnce
<1>6. CompletionInv'
  BY <1>1 DEF TaskInv, CompletionInv
<1> QED
  BY <1>4, <1>5, <1>6 DEF TaskInv

\* The completion that ends is the only one on the stack.
LEMMA EndsAlone ==
    ASSUME TaskInv, EndCompletion
    PROVE  /\ stack # <<>> /\ completionQueue # <<>> /\ stack' = <<>>
           /\ completionQueue' = Tail(completionQueue) /\ completionQueue' \in Seq(Tasks)
           /\ Len(completionQueue') = Len(completionQueue) - 1
<1>1. /\ stack \in Seq(Tasks) /\ completionQueue \in Seq(Tasks)
      /\ sources = (IF completionQueue = <<>> THEN 0 ELSE 1) /\ Len(stack) <= sources
      /\ stack # <<>> /\ stack' = Front(stack) /\ completionQueue' = Tail(completionQueue)
  BY DEF TaskInv, TaskTypeOK, CompletionInv, EndCompletion
<1>2. Len(stack) \in Nat \ {0}
  BY <1>1, EmptySeq
<1>3. completionQueue # <<>> /\ Len(stack) = 1
  <2>1. PICK n \in Nat \ {0} : n = Len(stack)
    BY <1>2
  <2>2. completionQueue = <<>> => n <= 0
    BY <1>1, <2>1
  <2>3. completionQueue # <<>> => n <= 1
    BY <1>1, <2>1
  <2> QED
    BY <2>1, <2>2, <2>3
<1>4. stack' = <<>>
  <2>1. stack' = SubSeq(stack, 1, 0)
    BY <1>1, <1>3 DEF Front
  <2> QED
    BY <2>1, SubSeqEmpty
<1> QED
  BY <1>1, <1>3, <1>4, HeadTailProperties

LEMMA EndStep == TaskInv /\ EndCompletion => TaskInv'
<1> SUFFICES ASSUME TaskInv, EndCompletion PROVE TaskInv'
  OBVIOUS
<1>1. /\ stack' = <<>> /\ completionQueue # <<>>
      /\ completionQueue' = Tail(completionQueue) /\ completionQueue' \in Seq(Tasks)
      /\ Len(completionQueue') = Len(completionQueue) - 1
  BY EndsAlone
<1>2. /\ sources' = (IF Len(completionQueue) = 1 THEN sources - 1 ELSE sources)
      /\ UNCHANGED <<tasks, pool, running, idle, done>>
  BY DEF EndCompletion
<1>3. completionQueue \in Seq(Tasks) /\ sources = 1
  BY <1>1 DEF TaskInv, TaskTypeOK, CompletionInv
<1>4. ToSet(completionQueue') \subseteq ToSet(completionQueue)
  BY <1>1, <1>3, TailElements
<1>5. TaskTypeOK'
  BY <1>1, <1>2 DEF TaskInv, TaskTypeOK
<1>6. RunOnce'
  BY <1>2, <1>4 DEF TaskInv, RunOnce
<1>7. CompletionInv'
  <2>1. completionQueue' = <<>> <=> Len(completionQueue') = 0
    BY <1>1, EmptySeq
  <2>2. Len(completionQueue) \in Nat
    BY <1>3
  <2>3. Len(stack') = 0
    BY <1>1
  <2> QED
    BY <1>1, <1>2, <1>3, <2>1, <2>2, <2>3 DEF CompletionInv
<1> QED
  BY <1>5, <1>6, <1>7 DEF TaskInv

LEMMA TaskStep == NoTask \notin Tasks /\ TaskInv /\ [Next]_taskVars => TaskInv'
<1>1. TaskInv /\ UNCHANGED taskVars => TaskInv'
  BY DEF taskVars, TaskInv, TaskTypeOK, RunOnce, CompletionInv
<1> QED
  BY <1>1, AddStep, TakeStep, PostStep, JobDoneStep, BeginStep, EndStep DEF Next
-----------------------------------------------------------------------------
(* The order of completions.                                               *)

LEMMA SerialInit == TaskInv /\ stack = <<>> => Serial!Init
<1> SUFFICES ASSUME TaskInv, stack = <<>> PROVE Serial!Init
  OBVIOUS
<1>1. completionQueue \o tasks \in Seq(Tasks)
  BY ConcatProperties DEF TaskInv, TaskTypeOK
<1> QED
  BY <1>1 DEF Serial!Init, Outstanding

LEMMA SerialStep == TaskInv /\ [Next]_taskVars => [Serial!Next]_(Serial!svars)
<1> USE DEF Serial!svars, Outstanding
<1> SUFFICES ASSUME TaskInv, [Next]_taskVars PROVE [Serial!Next]_(Serial!svars)
  OBVIOUS
<1>0. tasks \in Seq(Tasks) /\ completionQueue \in Seq(Tasks)
  BY DEF TaskInv, TaskTypeOK
<1>1. ASSUME NEW job \in Tasks, AddJob(job) PROVE Serial!Add
  <2>1. tasks' = Append(tasks, job) /\ UNCHANGED <<completionQueue, stack>>
    BY <1>1 DEF AddJob
  <2>2. completionQueue \o Append(tasks, job) = Append(completionQueue \o tasks, job)
    <3>1. PICK one \in Seq(Tasks) : one = <<job>>
      <4>1. <<job>> \in Seq(Tasks)
        OBVIOUS
      <4> QED
        BY <4>1
    <3>2. Append(tasks, job) = tasks \o one
      BY <1>0, <3>1, AppendIsConcat
    <3>3. Append(completionQueue \o tasks, job) = (completionQueue \o tasks) \o one
      BY <1>0, <3>1, ConcatProperties, AppendIsConcat
    <3> QED
      BY <1>0, <3>1, <3>2, <3>3, ConcatAssociative
  <2> QED
    BY <2>1, <2>2 DEF Serial!Add
<1>2. ASSUME (\E w \in Workers : TakeTask(w)) \/ (\E w \in Workers : PostDone(w)) \/ UNCHANGED taskVars
      PROVE  UNCHANGED Serial!svars
  BY <1>2 DEF TakeTask, PostDone, taskVars
<1>3. ASSUME JobDone PROVE UNCHANGED Serial!svars
  <2>1. PICK n \in 0 .. Len(tasks), moved \in Seq(Tasks) :
            /\ completionQueue' = completionQueue \o moved
            /\ tasks' \in Seq(Tasks) /\ tasks = moved \o tasks'
    BY <1>3, MoveReady DEF TaskInv
  <2>2. completionQueue' \o tasks' = completionQueue \o tasks
    BY <1>0, <2>1, ConcatAssociative, SMTT(30)
  <2>3. stack' = stack
    BY <1>3 DEF JobDone
  <2> QED
    BY <2>2, <2>3
<1>4. ASSUME BeginCompletion PROVE Serial!Begin
  <2>1. stack = <<>> /\ completionQueue # <<>> /\ stack' # <<>>
    BY <1>4, BeginsAlone
  <2>2. UNCHANGED <<tasks, completionQueue>>
    BY <1>4 DEF BeginCompletion
  <2>3. completionQueue \o tasks # <<>>
    BY <1>0, <2>1, ConcatEqualIffEmpty
  <2> QED
    BY <2>1, <2>2, <2>3 DEF Serial!Begin
<1>5. ASSUME EndCompletion PROVE Serial!End
  <2>1. stack # <<>> /\ completionQueue # <<>> /\ stack' = <<>> /\ completionQueue' = Tail(completionQueue)
    BY <1>5, EndsAlone
  <2>2. tasks' = tasks
    BY <1>5 DEF EndCompletion
  <2>3. Tail(completionQueue) \o tasks = Tail(completionQueue \o tasks)
    <3>1. PICK rest \in Seq(Tasks) : rest = Tail(completionQueue)
      BY <1>0, <2>1, HeadTailProperties
    <3>2. PICK both \in Seq(Tasks) : both = completionQueue \o tasks
      BY <1>0, ConcatProperties
    <3>3. /\ Len(completionQueue) \in Nat \ {0} /\ Len(tasks) \in Nat
          /\ Len(rest) = Len(completionQueue) - 1
          /\ Len(both) = Len(completionQueue) + Len(tasks) /\ both # <<>>
      BY <1>0, <2>1, <3>1, <3>2, ConcatProperties, ConcatEqualIffEmpty, HeadTailProperties, EmptySeq
    <3>4. Tail(both) \in Seq(Tasks) /\ Len(Tail(both)) = Len(both) - 1
          /\ \A i \in 1 .. Len(Tail(both)) : Tail(both)[i] = both[i + 1]
      BY <3>2, <3>3, HeadTailProperties
    <3>5. rest \o tasks \in Seq(Tasks) /\ Len(rest \o tasks) = Len(rest) + Len(tasks)
      BY <1>0, <3>1, ConcatProperties
    <3>6. ASSUME NEW i \in 1 .. Len(rest) + Len(tasks) PROVE (rest \o tasks)[i] = both[i + 1]
      <4>1. (rest \o tasks)[i] = IF i <= Len(rest) THEN rest[i] ELSE tasks[i - Len(rest)]
        BY <1>0, <3>1, ConcatProperties
      <4>2. i + 1 \in 1 .. Len(completionQueue) + Len(tasks)
        BY <3>3
      <4>3. both[i + 1] = IF i + 1 <= Len(completionQueue) THEN completionQueue[i + 1]
                          ELSE tasks[(i + 1) - Len(completionQueue)]
        BY <1>0, <3>2, <4>2, ConcatProperties
      <4>4. i <= Len(rest) => rest[i] = completionQueue[i + 1]
        BY <1>0, <2>1, <3>1, <3>3, HeadTailProperties
      <4> QED
        BY <3>3, <4>1, <4>3, <4>4
    <3> QED
      BY <3>1, <3>2, <3>3, <3>4, <3>5, <3>6, SeqEqual
  <2> QED
    BY <2>1, <2>2, <2>3 DEF Serial!End
<1> QED
  BY <1>1, <1>2, <1>3, <1>4, <1>5 DEF Next, Serial!Next

LEMMA TaskInvariant == ASSUME NoTask \notin Tasks PROVE Spec => []TaskInv
<1>1. Init => TaskInv
  <2>1. <<>> \in Seq(Tasks) /\ IsInjective(<<>>)
    BY DEF IsInjective
  <2> QED
    BY <2>1, TaskInit DEF Init
<1> QED
  BY <1>1, TaskStep, PTL DEF Spec

\* completed() is called for one task after the other, in the order of addJob(),
\* for any number of tasks and workers, whatever order the workers finish in,
\* and although jobDone() runs while a completion is on the stack (completionThread()).
THEOREM ImplementsSerialJobs == ASSUME NoTask \notin Tasks PROVE Spec => Serial!Spec
<1>1. Init => Serial!Init
  <2>1. <<>> \in Seq(Tasks)
    OBVIOUS
  <2>2. <<>> \o <<>> = <<>>
    BY <2>1, ConcatEmptySeq
  <2> QED
    BY <2>1, <2>2 DEF Init, Added, Serial!Init, Outstanding
<1> QED
  BY <1>1, SerialStep, TaskInvariant, PTL DEF Spec, Serial!Spec
=============================================================================
