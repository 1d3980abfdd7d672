------------------------- MODULE TransferQueueProofs -------------------------
(***************************************************************************)
(* Theorems of TransferQueue, for every value of its constants.            *)
(***************************************************************************)
EXTENDS TransferQueue, FiniteSetTheorems, TLAPS

-----------------------------------------------------------------------------
(* What the operators on queues keep.                                       *)

\* Setting a state keeps a queue a queue.
LEMMA SetStateType ==
  ASSUME NEW q, IsQueue(q), NEW S, NEW st \in States
  PROVE  /\ IsQueue(SetState(q, S, st))
         /\ DOMAIN SetState(q, S, st) = DOMAIN q
  BY DEF IsQueue, SetState, Job

\* Dropping entries keeps a queue a queue.
LEMMA KeepType ==
  ASSUME NEW q, IsQueue(q), NEW S, S \subseteq DOMAIN q
  PROVE  IsQueue(Keep(q, S))
  BY DEF IsQueue, Keep

\* Appending a job keeps a queue a queue.
LEMMA PushType ==
  ASSUME NEW q, IsQueue(q), NEW n \in Slots, NEW job \in Job
  PROVE  IsQueue(Push(q, n, job))
  BY DEF IsQueue, Push

\* The counters stay within their range.
LEMMA BumpRange ==
  ASSUME NEW n \in 0 .. MaxAttempts
  PROVE  Bump(n) \in 0 .. MaxAttempts
  BY ConstantsAssumption DEF Bump

\* The queue a tick leaves is a queue, at the same positions.
LEMMA TickQueueType ==
  ASSUME NEW q, IsQueue(q)
  PROVE  /\ IsQueue(AutoRetry(Promote(q)))
         /\ DOMAIN AutoRetry(Promote(q)) = DOMAIN q
<1>1. IsQueue(Promote(q)) /\ DOMAIN Promote(q) = DOMAIN q
  BY SetStateType DEF Promote, States
<1>2. ASSUME NEW p, IsQueue(p)
      PROVE  IsQueue(AutoRetry(p)) /\ DOMAIN AutoRetry(p) = DOMAIN p
  <2>1. \A s \in DOMAIN p : p[s] \in Job /\ Bump(p[s].retries) \in 0 .. MaxAttempts
    BY <1>2, BumpRange DEF IsQueue, Job
  <2>2. QED
    BY <1>2, <2>1 DEF IsQueue, AutoRetry, Job, States
<1>3. QED
  BY <1>1, <1>2

\* A new job has the type of a job.
LEMMA NewJobType ==
  ASSUME NEW id \in Ids
  PROVE  NewJob(id) \in Job
  BY ConstantsAssumption DEF NewJob, Job, States

\* A restarted job has the type of a job.
LEMMA RestartedType ==
  ASSUME NEW job \in Job
  PROVE  [job EXCEPT !.state = "Waiting", !.attempt = 0, !.retries = 0] \in Job
<1>1. 0 \in 0 .. MaxAttempts /\ "Waiting" \in States
  BY ConstantsAssumption DEF States
<1>2. QED
  BY <1>1 DEF Job

\* The outcome of a worker keeps a job a job.
LEMMA ApplyType ==
  ASSUME NEW job \in Job, NEW result \in {"ok", "allFailed", "err"}
  PROVE  Apply(job, result) \in Job /\ Apply(job, result).id = job.id
<1>1. Bump(job.attempt) \in 0 .. MaxAttempts
  BY BumpRange DEF Job
<1>2. QED
  BY <1>1 DEF Apply, Job, States

\* Setting the flag of a task keeps it a task.
LEMMA SetCancelType ==
  ASSUME NEW task \in Task, NEW flag \in BOOLEAN
  PROVE  [task EXCEPT !.cancel = flag] \in Task
  BY DEF Task

\* Moving a task to another phase keeps the table of tasks well typed.
LEMMA SetPhaseType ==
  ASSUME NEW ts \in [Ids -> [Cells -> Task]], NEW id \in Ids, NEW c \in Cells,
         NEW phase \in Phases
  PROVE  [ts EXCEPT ![id][c].phase = phase] \in [Ids -> [Cells -> Task]]
<1>1. ts[id][c] \in Task /\ [ts[id][c] EXCEPT !.phase = phase] \in Task
  BY DEF Task
<1>2. [ts[id] EXCEPT ![c] = [ts[id][c] EXCEPT !.phase = phase]] \in [Cells -> Task]
  BY <1>1
<1>3. QED
  BY <1>2
-----------------------------------------------------------------------------
(* Type correctness.                                                        *)

\* Every reachable state has the types of TypeOK.
THEOREM TypeCorrect == Spec => []TypeOK
<1>1. Init => TypeOK
  <2>1. IsQueue(EmptyQueue)
    BY DEF IsQueue, EmptyQueue
  <2>2. NoTask \in Task /\ "none" \in Age /\ NoCell \in Cells \cup {NoCell}
    BY DEF NoTask, Task, Phases, Age
  <2>3. 0 \in 0 .. MaxSeq /\ 0 \in 0 .. MaxRestarts /\ MaxUser \in 0 .. MaxUser
    BY ConstantsAssumption
  <2>4. Init => saved.jobs = jobs /\ saved.parallel = parallel
    BY DEF Init
  <2>5. QED
    BY <2>1, <2>2, <2>3, <2>4 DEF Init, TypeOK
<1>2. TypeOK /\ [Next]_vars => TypeOK'
  <2> SUFFICES ASSUME TypeOK, [Next]_vars
               PROVE  TypeOK'
    OBVIOUS
  <2>1. CASE User
    <3>0. ASSUME UserStep
          PROVE  /\ budget' \in 0 .. MaxUser
                 /\ failedSince' = failedSince /\ workers' = workers /\ tasks' = tasks
                 /\ saved' = saved /\ restarts' = restarts
      BY <3>0, ConstantsAssumption DEF TypeOK, UserStep, engineVars, diskVars
    <3>1. ASSUME NEW name \in Names, PushJob(name)
          PROVE  IsQueue(jobs') /\ seq' \in 0 .. MaxSeq
      <4>1. seq \in 0 .. MaxSeq - 1 /\ <<name, seq>> \in Ids
        BY <3>1, ConstantsAssumption DEF PushJob, TypeOK, Ids
      <4>2. QED
        BY <3>1, <4>1, PushType, NewJobType, ConstantsAssumption DEF PushJob, TypeOK
    <3>2. ASSUME NEW name \in Names, Enqueue(name) PROVE TypeOK'
      BY <3>0, <3>1, <3>2 DEF Enqueue, TypeOK
    <3>3. ASSUME NEW s \in Slots, PauseJob(s) PROVE TypeOK'
      BY <3>0, <3>3, SetStateType DEF PauseJob, OnlyJobs, TypeOK, States
    <3>4. ASSUME NEW s \in Slots, ResumeJob(s) PROVE TypeOK'
      BY <3>0, <3>4, SetStateType DEF ResumeJob, OnlyJobs, TypeOK, States
    <3>5. ASSUME NEW s \in Slots, RetryJob(s) PROVE TypeOK'
      <4>1. IsQueue(jobs')
        <5>1. s \in DOMAIN jobs /\ jobs[s] \in Job
          BY <3>5 DEF RetryJob, IsFirst, TypeOK, IsQueue
        <5>2. [jobs[s] EXCEPT !.state = "Waiting", !.attempt = 0, !.retries = 0] \in Job
          BY <5>1, RestartedType
        <5>3. QED
          BY <3>5, <5>1, <5>2 DEF RetryJob, TypeOK, IsQueue
      <4>2. QED
        BY <3>0, <3>5, <4>1 DEF RetryJob, OnlyJobs, TypeOK
    <3>6. ASSUME NEW s \in Slots, CancelJob(s) PROVE TypeOK'
      BY <3>0, <3>6, KeepType DEF CancelJob, OnlyJobs, TypeOK
    <3>7. CASE ClearDone
      BY <3>0, <3>7, KeepType DEF ClearDone, OnlyJobs, TypeOK
    <3>8. CASE TogglePauseAll
      BY <3>0, <3>8, SetStateType DEF TogglePauseAll, OnlyJobs, TypeOK, States
    <3>9. ASSUME NEW off \in BOOLEAN, SetOffline(off) PROVE TypeOK'
      BY <3>0, <3>9, SetStateType DEF SetOffline, TypeOK, States
    <3>10. ASSUME NEW n \in 1 .. MaxParallel, SetParallel(n) PROVE TypeOK'
      BY <3>0, <3>10 DEF SetParallel, TypeOK
    <3>11. ASSUME NEW name \in OrphanNames, ResumeOrphan(name) PROVE TypeOK'
      <4>1. IsQueue(jobs') /\ seq' \in 0 .. MaxSeq
        <5>1. ASSUME NEW s \in Resumable(jobs, name),
                     jobs' = SetState(jobs, {s}, "Waiting"), UNCHANGED seq
              PROVE  IsQueue(jobs') /\ seq' \in 0 .. MaxSeq
          BY <5>1, SetStateType DEF TypeOK, States
        <5>2. name \in Names
          BY ConstantsAssumption
        <5>3. QED
          BY <3>1, <3>11, <5>1, <5>2 DEF ResumeOrphan
      <4>2. QED
        BY <3>0, <3>11, <4>1 DEF ResumeOrphan, TypeOK
    <3>12. CASE DiscardOrphans
      BY <3>0, <3>12 DEF DiscardOrphans, TypeOK
    <3>13. QED
      BY <2>1, <3>2, <3>3, <3>4, <3>5, <3>6, <3>7, <3>8, <3>9, <3>10, <3>11, <3>12
      DEF User
  <2>2. CASE Tick
    <3>1. IsQueue(jobs')
      BY <2>2, TickQueueType DEF Tick, TypeOK
    <3> DEFINE q == AutoRetry(Promote(jobs))
               ts == Flagged(q)
    <3>2. PICK cell \in [ToSpawn(q) -> Cells] :
            /\ workers' = [id \in Ids |-> IF id \in ToSpawn(q) THEN cell[id]
                                          ELSE Drained[id]]
            /\ tasks' = Spawn(q, ts, cell)
      BY <2>2 DEF Tick
    <3> HIDE DEF q
    <3>3. Drained \in [Ids -> Cells \cup {NoCell}]
      BY DEF Drained, TypeOK
    <3>4. workers' \in [Ids -> Cells \cup {NoCell}]
      BY <3>2, <3>3
    <3>5. ts \in [Ids -> [Cells -> Task]]
      <4>1. \A id \in Ids, c \in Cells :
              /\ tasks[id][c] \in Task
              /\ [tasks[id][c] EXCEPT !.cancel = ~HasRunning(q, id)] \in Task
        <5>1. \A id \in Ids, c \in Cells : tasks[id][c] \in Task
          BY DEF TypeOK
        <5>2. \A id \in Ids : (~HasRunning(q, id)) \in BOOLEAN
          BY DEF HasRunning
        <5>3. QED
          BY <5>1, <5>2, SetCancelType
      <4>2. NoTask \in Task
        BY DEF NoTask, Task, Phases
      <4>3. \A id \in Ids, c \in Cells :
              (CASE workers[id] = c /\ Reaped(id) -> NoTask
                [] Drained[id] = c ->
                     [tasks[id][c] EXCEPT !.cancel = ~HasRunning(q, id)]
                [] OTHER -> tasks[id][c]) \in Task
        BY <4>1, <4>2
      <4>4. QED
        BY <4>3 DEF Flagged
    <3>6. tasks' \in [Ids -> [Cells -> Task]]
      BY <3>2, <3>5 DEF Spawn, NewTask, Task, Phases
    <3>7. QED
      BY <2>2, <3>1, <3>4, <3>6 DEF Tick, TypeOK
  <2>3. ASSUME NEW id \in Ids, Elapse(id) PROVE TypeOK'
    BY <2>3 DEF Elapse, TypeOK, Age
  <2>4. ASSUME NEW id \in Ids, NEW c \in Cells, SeeCancel(id, c) PROVE TypeOK'
    BY <2>4, SetPhaseType DEF SeeCancel, TypeOK, Phases
  <2>5. ASSUME NEW id \in Ids, NEW c \in Cells,
               NEW result \in {"ok", "allFailed", "err"}, Finish(id, c, result)
        PROVE  TypeOK'
    <3>1. IsQueue(jobs')
      <4>1. \A s \in DOMAIN jobs : Apply(jobs[s], result) \in Job
        BY ApplyType DEF TypeOK, IsQueue
      <4>2. QED
        BY <2>5, <4>1 DEF Finish, TypeOK, IsQueue
    <3>2. tasks' \in [Ids -> [Cells -> Task]]
      BY <2>5, SetPhaseType DEF Finish, TypeOK, Phases
    <3>3. failedSince' \in [Ids -> Age]
      BY <2>5 DEF Finish, TypeOK, Age
    <3>4. QED
      BY <2>5, <3>1, <3>2, <3>3 DEF Finish, TypeOK
  <2>6. CASE Persist
    BY <2>6 DEF Persist, TypeOK
  <2>7. CASE Restart
    <3>1. IsQueue(jobs')
      BY <2>7, SetStateType DEF Restart, SanitizeJobs, TypeOK, States
    <3>2. failedSince' \in [Ids -> Age] /\ workers' \in [Ids -> Cells \cup {NoCell}]
          /\ tasks' \in [Ids -> [Cells -> Task]]
      BY <2>7 DEF Restart, Age, NoTask, Task, Phases
    <3>3. restarts' \in 0 .. MaxRestarts
      BY <2>7, ConstantsAssumption DEF Restart, TypeOK
    <3>4. orphans' \subseteq OrphanNames /\ seq' \in 0 .. MaxSeq
      BY <2>7, ConstantsAssumption DEF Restart
    <3>5. QED
      BY <2>7, <3>1, <3>2, <3>3, <3>4 DEF Restart, TypeOK
  <2>8. CASE UNCHANGED vars
    BY <2>8 DEF vars, TypeOK
  <2>9. QED
    BY <2>1, <2>2, <2>3, <2>4, <2>5, <2>6, <2>7, <2>8 DEF Next, Engine, WorkerStep
<1>3. QED
  BY <1>1, <1>2, PTL DEF Spec
-----------------------------------------------------------------------------
(* One task per job.  OneTaskPerJob is not inductive: a task that has ended *)
(* and is not reaped yet must also be the one in the table, or its cell     *)
(* could hide a second one.                                                 *)

TaskInv == \A id \in Ids, c \in Cells : tasks[id][c].phase # "none" => workers[id] = c

\* A tick reaps, flags and spawns without losing track of a task.
LEMMA TickTaskInv == TypeOK /\ TaskInv /\ Tick => TaskInv'
<1> SUFFICES ASSUME TypeOK, TaskInv, Tick,
                    NEW id \in Ids, NEW c \in Cells, tasks'[id][c].phase # "none"
             PROVE  workers'[id] = c
  BY DEF TaskInv
<1> DEFINE q == AutoRetry(Promote(jobs))
<1>1. PICK cell \in [ToSpawn(q) -> Cells] :
        /\ workers' = [i \in Ids |-> IF i \in ToSpawn(q) THEN cell[i] ELSE Drained[i]]
        /\ tasks' = Spawn(q, Flagged(q), cell)
  BY DEF Tick
<1> HIDE DEF q
<1>2. /\ Drained[id] = (IF Reaped(id) THEN NoCell ELSE workers[id])
      /\ workers'[id] = (IF id \in ToSpawn(q) THEN cell[id] ELSE Drained[id])
      /\ tasks'[id][c] = (IF id \in ToSpawn(q) /\ c = cell[id] THEN NewTask
                          ELSE Flagged(q)[id][c])
  BY <1>1 DEF Drained, Spawn
<1>3. CASE id \in ToSpawn(q) /\ c = cell[id]
  BY <1>2, <1>3
<1>4. CASE ~(id \in ToSpawn(q) /\ c = cell[id])
  <2>1. Flagged(q)[id][c].phase # "none"
    BY <1>2, <1>4
  <2>2. Flagged(q)[id][c] = (CASE workers[id] = c /\ Reaped(id) -> NoTask
          [] Drained[id] = c -> [tasks[id][c] EXCEPT !.cancel = ~HasRunning(q, id)]
          [] OTHER -> tasks[id][c])
    BY DEF Flagged
  <2>3. tasks[id][c] \in Task
    BY DEF TypeOK
  <2>4. tasks[id][c].phase # "none" /\ ~(workers[id] = c /\ Reaped(id))
    <3>1. NoTask.phase = "none"
      BY DEF NoTask
    <3>2. \A flag : [tasks[id][c] EXCEPT !.cancel = flag].phase = tasks[id][c].phase
      BY <2>3 DEF Task
    <3>3. CASE workers[id] = c /\ Reaped(id)
      <4>1. Drained[id] # c
        BY <1>2, <3>3 DEF Cells, NoCell
      <4>2. QED
        BY <2>1, <2>2, <3>1, <3>3, <4>1
    <3>4. CASE ~(workers[id] = c /\ Reaped(id))
      BY <2>1, <2>2, <3>2, <3>4
    <3>5. QED
      BY <3>3, <3>4
  <2>5. Drained[id] = c
    BY <1>2, <2>4 DEF TaskInv
  <2>6. id \notin ToSpawn(q)
    BY <2>5 DEF ToSpawn, Cells, NoCell
  <2>7. QED
    BY <1>2, <2>5, <2>6
<1>5. QED
  BY <1>3, <1>4

\* For every queue, every limit and every user: a transfer that is going on is
\* the one in the worker table.
THEOREM OneTask == Spec => []OneTaskPerJob
<1>1. Init => TaskInv
  BY DEF Init, TaskInv, NoTask
<1>2. TypeOK /\ TaskInv /\ [Next]_vars => TaskInv'
  <2> SUFFICES ASSUME TypeOK, TaskInv, [Next]_vars
               PROVE  TaskInv'
    OBVIOUS
  <2>1. CASE UNCHANGED <<tasks, workers>>
    BY <2>1 DEF TaskInv
  <2>2. CASE User
    <3>1. UNCHANGED <<tasks, workers>>
      BY <2>2 DEF User, Enqueue, PauseJob, ResumeJob, RetryJob, CancelJob, ClearDone,
         TogglePauseAll, SetOffline, SetParallel, ResumeOrphan, DiscardOrphans,
         OnlyJobs, UserStep, engineVars
    <3>2. QED
      BY <2>1, <3>1
  <2>3. CASE Tick
    BY <2>3, TickTaskInv
  <2>4. ASSUME NEW id \in Ids, NEW c \in Cells, WorkerStep(id, c) PROVE TaskInv'
    <3>1. workers' = workers
      BY <2>4 DEF WorkerStep, SeeCancel, Finish
    <3>2. tasks[id][c].phase # "none"
      BY <2>4 DEF WorkerStep, SeeCancel, Finish, Active
    <3>3. \A i \in Ids, d \in Cells : <<i, d>> # <<id, c>> => tasks'[i][d] = tasks[i][d]
      BY <2>4 DEF WorkerStep, SeeCancel, Finish, TypeOK
    <3>4. QED
      BY <3>1, <3>2, <3>3 DEF TaskInv
  <2>5. CASE Restart
    BY <2>5 DEF Restart, TaskInv, NoTask
  <2>6. QED
    BY <2>1, <2>2, <2>3, <2>4, <2>5 DEF Next, Engine, Elapse, Persist, vars
<1>3. TaskInv => OneTaskPerJob
  BY DEF TaskInv, OneTaskPerJob, Active
<1>4. QED
  BY <1>1, <1>2, <1>3, TypeCorrect, PTL DEF Spec
-----------------------------------------------------------------------------
(* Shared ids and the retry budget.  Both need an invariant of each queue   *)
(* that could come back, the one in memory and the one on disk.             *)

\* Of the entries that share an id only the first has ever been started.
FirstOnly(q) == \A s \in DOMAIN q : q[s].state # "Waiting" => IsFirst(q, s)

\* A retry is paid for by a counted attempt, and a job that failed has
\* counted one more than it was retried.
JobPaid(job) ==
  ~IsTree(job.id) => /\ job.retries < MaxAttempts
                     /\ job.retries <= job.attempt
                     /\ job.state = "Failed" => job.retries < job.attempt

Paid(q) == \A s \in DOMAIN q : JobPaid(q[s])

QueueInv(q) == FirstOnly(q) /\ Paid(q)

\* A job that leaves "Failed" or never was in it stays paid for.
LEMMA SetStatePaid ==
  ASSUME NEW q, IsQueue(q), Paid(q), NEW S, NEW st \in States \ {"Failed"}
  PROVE  Paid(SetState(q, S, st))
<1>1. \A s \in DOMAIN q : q[s] \in Job
  BY DEF IsQueue
<1>2. \A s \in DOMAIN q : JobPaid([q[s] EXCEPT !.state = st])
  BY <1>1 DEF Job, Paid, JobPaid
<1>3. QED
  BY <1>2 DEF SetState, Paid

\* The first entries of their ids may be given any state, any entry may be
\* set to "Waiting".
LEMMA SetStateFirst ==
  ASSUME NEW q, IsQueue(q), FirstOnly(q), NEW S, NEW st \in States,
         st = "Waiting" \/ \A s \in S \cap DOMAIN q : IsFirst(q, s)
  PROVE  FirstOnly(SetState(q, S, st))
<1> DEFINE p == SetState(q, S, st)
<1>1. DOMAIN p = DOMAIN q
  BY DEF SetState
<1>2. \A s \in DOMAIN q : q[s] \in Job
  BY DEF IsQueue
<1>3. \A s \in DOMAIN q : /\ p[s].id = q[s].id
                           /\ p[s].state = IF s \in S THEN st ELSE q[s].state
  BY <1>2 DEF SetState, Job
<1> HIDE DEF p
<1>4. FirstOnly(p)
  BY <1>1, <1>3 DEF FirstOnly, IsFirst
<1>5. QED
  BY <1>4 DEF p

\* Dropping entries keeps the invariant of a queue.
LEMMA KeepInv ==
  ASSUME NEW q, QueueInv(q), NEW S, S \subseteq DOMAIN q
  PROVE  QueueInv(Keep(q, S))
  BY DEF QueueInv, FirstOnly, IsFirst, Paid, Keep

\* Appending a new job keeps the invariant of a queue.
LEMMA PushInv ==
  ASSUME NEW q, IsQueue(q), QueueInv(q), NEW n, IsEnd(q, n), NEW id \in Ids
  PROVE  QueueInv(Push(q, n, NewJob(id)))
<1> DEFINE p == Push(q, n, NewJob(id))
<1>1. /\ DOMAIN p = DOMAIN q \cup {n}
      /\ p[n] = NewJob(id)
      /\ \A s \in DOMAIN q : p[s] = q[s] /\ s < n /\ s \in Nat /\ n \in Nat
  BY DEF Push, IsEnd, IsQueue, Slots
<1>2. JobPaid(NewJob(id)) /\ NewJob(id).state = "Waiting"
  BY ConstantsAssumption DEF NewJob, JobPaid
<1> HIDE DEF p
<1>3. FirstOnly(p)
  BY <1>1, <1>2 DEF QueueInv, FirstOnly, IsFirst
<1>4. Paid(p)
  BY <1>1, <1>2 DEF QueueInv, Paid
<1>5. QED
  BY <1>3, <1>4 DEF QueueInv, p

\* The queue a tick leaves: a retry is paid for by the attempt before it.
LEMMA TickQueueInv ==
  ASSUME NEW q, IsQueue(q), QueueInv(q)
  PROVE  QueueInv(AutoRetry(Promote(q)))
<1> DEFINE p == Promote(q)
           r == AutoRetry(p)
<1>1. IsQueue(p)
  BY SetStateType DEF Promote, States
<1>2. FirstOnly(p) /\ Paid(p)
  BY SetStateFirst, SetStatePaid DEF QueueInv, Promote, States
<1> HIDE DEF p
<1>3. \A s \in DOMAIN p : p[s] \in Job
  BY <1>1 DEF IsQueue
<1>4. FirstOnly(r)
  <2>1. /\ DOMAIN r = DOMAIN p
        /\ \A s \in DOMAIN p : /\ r[s].id = p[s].id
                               /\ r[s].state = "Waiting" \/ r[s].state = p[s].state
    BY <1>3 DEF AutoRetry, Job
  <2> HIDE DEF r
  <2>2. ASSUME NEW s \in DOMAIN p, r[s].state # "Waiting"
        PROVE  IsFirst(r, s)
    <3>1. IsFirst(p, s)
      BY <1>2, <2>1, <2>2 DEF FirstOnly
    <3>2. QED
      BY <2>1, <3>1 DEF IsFirst
  <2>3. QED
    BY <2>1, <2>2 DEF FirstOnly
<1>5. Paid(r)
  <2>1. ASSUME NEW s \in DOMAIN p, RetryDue(p, s)
        PROVE  JobPaid([p[s] EXCEPT !.state = "Waiting", !.retries = Bump(@)])
    BY <1>2, <1>3, <2>1, ConstantsAssumption DEF RetryDue, Paid, JobPaid, Job, Bump
  <2>2. QED
    BY <1>2, <2>1 DEF AutoRetry, Paid
<1>6. QED
  BY <1>4, <1>5 DEF QueueInv, p

\* An error is counted, so the job that failed is paid for.
LEMMA ApplyPaid ==
  ASSUME NEW job \in Job, JobPaid(job), job.state = "Running",
         NEW result \in {"ok", "allFailed", "err"}, result = "allFailed" => IsTree(job.id)
  PROVE  JobPaid(Apply(job, result))
  BY ConstantsAssumption DEF JobPaid, Apply, Job, Bump

AllQueuesInv == QueueInv(jobs) /\ QueueInv(saved.jobs)

\* Every user action keeps the invariant of the queue in memory.
LEMMA UserQueueInv ==
  TypeOK /\ QueueInv(jobs) /\ User => QueueInv(jobs') /\ saved' = saved
<1> SUFFICES ASSUME TypeOK, QueueInv(jobs), User
             PROVE  QueueInv(jobs') /\ saved' = saved
  OBVIOUS
<1>1. IsQueue(jobs) /\ FirstOnly(jobs) /\ Paid(jobs)
  BY DEF TypeOK, QueueInv
<1>2. ASSUME NEW S, NEW st \in States \ {"Failed"},
             st = "Waiting" \/ \A s \in S \cap DOMAIN jobs : IsFirst(jobs, s),
             jobs' = SetState(jobs, S, st)
      PROVE  QueueInv(jobs')
  BY <1>1, <1>2, SetStateFirst, SetStatePaid DEF QueueInv
<1>3. ASSUME NEW S, S \subseteq DOMAIN jobs, jobs' = Keep(jobs, S)
      PROVE  QueueInv(jobs')
  BY <1>3, KeepInv
<1>4. ASSUME NEW name \in Names, PushJob(name)
      PROVE  QueueInv(jobs')
  <2>1. <<name, seq>> \in Ids
    BY <1>4, ConstantsAssumption DEF PushJob, TypeOK, Ids
  <2>2. QED
    BY <1>1, <1>4, <2>1, PushInv DEF PushJob
<1>5. \A s \in DOMAIN jobs : jobs[s].state # "Waiting" => IsFirst(jobs, s)
  BY <1>1 DEF FirstOnly
<1>6. saved' = saved
  BY DEF User, Enqueue, PauseJob, ResumeJob, RetryJob, CancelJob, ClearDone,
     TogglePauseAll, SetOffline, SetParallel, ResumeOrphan, DiscardOrphans,
     OnlyJobs, UserStep, diskVars
<1>7. ASSUME NEW name \in Names, Enqueue(name) PROVE QueueInv(jobs')
  BY <1>4, <1>7 DEF Enqueue
<1>8. ASSUME NEW s \in Slots, PauseJob(s) \/ ResumeJob(s) PROVE QueueInv(jobs')
  <2>1. PICK st \in {"Paused", "Running"} : jobs' = SetState(jobs, {s}, st)
    BY <1>8 DEF PauseJob, ResumeJob
  <2>2. IsFirst(jobs, s)
    BY <1>8 DEF PauseJob, ResumeJob
  <2>3. QED
    BY <1>2, <2>1, <2>2 DEF States
<1>9. ASSUME NEW s \in Slots, RetryJob(s) PROVE QueueInv(jobs')
  <2>1. s \in DOMAIN jobs /\ jobs[s] \in Job
    BY <1>1, <1>9 DEF RetryJob, IsFirst, IsQueue
  <2> DEFINE job == [jobs[s] EXCEPT !.state = "Waiting", !.attempt = 0, !.retries = 0]
  <2>2. job.id = jobs[s].id /\ job.state = "Waiting" /\ JobPaid(job)
    BY <2>1, ConstantsAssumption DEF Job, JobPaid
  <2>3. jobs' = [jobs EXCEPT ![s] = job]
    BY <1>9 DEF RetryJob
  <2> HIDE DEF job
  <2>4. /\ DOMAIN jobs' = DOMAIN jobs
        /\ \A t \in DOMAIN jobs : jobs'[t] = IF t = s THEN job ELSE jobs[t]
    BY <2>3
  <2>5. FirstOnly(jobs')
    BY <1>1, <2>2, <2>4 DEF FirstOnly, IsFirst
  <2>6. Paid(jobs')
    BY <1>1, <2>2, <2>4 DEF Paid
  <2>7. QED
    BY <2>5, <2>6 DEF QueueInv
<1>10. ASSUME NEW s \in Slots, CancelJob(s) PROVE QueueInv(jobs')
  BY <1>3, <1>10 DEF CancelJob
<1>11. CASE ClearDone
  BY <1>3, <1>6, <1>11 DEF ClearDone
<1>12. ASSUME NEW st \in {"Paused", "Running"}, NEW from \in {"Paused", "Running"},
              jobs' = SetState(jobs, InState(jobs, from), st)
       PROVE  QueueInv(jobs')
  <2>1. \A s \in InState(jobs, from) : IsFirst(jobs, s)
    BY <1>5 DEF InState
  <2>2. QED
    BY <1>2, <1>12, <2>1 DEF States
<1>13. CASE TogglePauseAll
  BY <1>6, <1>12, <1>13 DEF TogglePauseAll
<1>14. ASSUME NEW off \in BOOLEAN, SetOffline(off) PROVE QueueInv(jobs')
  BY <1>12, <1>14 DEF SetOffline
<1>15. ASSUME NEW n \in 1 .. MaxParallel, SetParallel(n) PROVE QueueInv(jobs')
  BY <1>15 DEF SetParallel
<1>16. ASSUME NEW name \in OrphanNames, ResumeOrphan(name) PROVE QueueInv(jobs')
  <2>1. name \in Names
    BY ConstantsAssumption
  <2>2. PushJob(name) \/ \E s : jobs' = SetState(jobs, {s}, "Waiting")
    BY <1>16 DEF ResumeOrphan
  <2>3. QED
    BY <1>2, <1>4, <2>1, <2>2 DEF States
<1>17. CASE DiscardOrphans
  BY <1>6, <1>17 DEF DiscardOrphans
<1>18. QED
  BY <1>6, <1>7, <1>8, <1>9, <1>10, <1>11, <1>13, <1>14, <1>15, <1>16, <1>17 DEF User

\* A worker's late answer keeps the invariant of the queue in memory.
LEMMA FinishQueueInv ==
  ASSUME TypeOK, QueueInv(jobs), NEW id \in Ids, NEW c \in Cells,
         NEW result \in {"ok", "allFailed", "err"}, Finish(id, c, result)
  PROVE  QueueInv(jobs')
<1>1. \A s \in DOMAIN jobs : jobs[s] \in Job /\ JobPaid(jobs[s])
  BY DEF TypeOK, IsQueue, QueueInv, Paid
<1>2. result = "allFailed" => IsTree(id)
  BY DEF Finish, Active, Outcomes
<1>3. DOMAIN jobs' = DOMAIN jobs
  BY DEF Finish
<1>4. \A s \in DOMAIN jobs :
        \/ jobs'[s] = jobs[s]
        \/ /\ jobs[s].id = id /\ jobs[s].state = "Running"
           /\ jobs'[s] = Apply(jobs[s], result)
  BY DEF Finish
<1>5. Paid(jobs')
  BY <1>1, <1>2, <1>3, <1>4, ApplyPaid DEF Paid
<1>6. \A s \in DOMAIN jobs : /\ jobs'[s].id = jobs[s].id
                             /\ jobs'[s].state # "Waiting" => jobs[s].state # "Waiting"
  BY <1>1, <1>4, ApplyType
<1>7. FirstOnly(jobs')
  BY <1>3, <1>6 DEF FirstOnly, IsFirst, QueueInv
<1>8. QED
  BY <1>5, <1>7 DEF QueueInv

\* The invariant of the queues holds in every reachable state.
LEMMA QueuesCorrect == Spec => []AllQueuesInv
<1>1. Init => AllQueuesInv
  BY DEF Init, AllQueuesInv, QueueInv, FirstOnly, Paid, EmptyQueue
<1>2. TypeOK /\ AllQueuesInv /\ [Next]_vars => AllQueuesInv'
  <2> SUFFICES ASSUME TypeOK, AllQueuesInv, [Next]_vars
               PROVE  QueueInv(jobs') /\ QueueInv(saved.jobs')
    BY DEF AllQueuesInv
  <2>1. IsQueue(jobs) /\ IsQueue(saved.jobs) /\ QueueInv(jobs) /\ QueueInv(saved.jobs)
    BY DEF TypeOK, AllQueuesInv
  <2>2. CASE User
    BY <2>1, <2>2, UserQueueInv
  <2>3. CASE Tick
    BY <2>1, <2>3, TickQueueInv DEF Tick
  <2>4. ASSUME NEW id \in Ids, NEW c \in Cells, WorkerStep(id, c)
        PROVE  QueueInv(jobs') /\ saved' = saved
    BY <2>1, <2>4, FinishQueueInv DEF WorkerStep, SeeCancel, Finish
  <2>5. CASE Persist
    BY <2>1, <2>5 DEF Persist
  <2>6. CASE Restart
    <3>1. jobs' = SetState(saved.jobs, InState(saved.jobs, "Running"), "Waiting")
          /\ saved' = saved
      BY <2>6 DEF Restart, SanitizeJobs
    <3>2. QED
      BY <2>1, <3>1, SetStateFirst, SetStatePaid DEF QueueInv, States
  <2>7. CASE UNCHANGED <<jobs, saved>>
    BY <2>1, <2>7
  <2>8. QED
    BY <2>1, <2>2, <2>3, <2>4, <2>5, <2>6, <2>7 DEF Next, Engine, Elapse, vars
<1>3. QED
  BY <1>1, <1>2, TypeCorrect, PTL DEF Spec

\* For every number of relaunches and every user: two running jobs never
\* share an id.
THEOREM IdsApart == Spec => []NoSharedId
<1>1. TypeOK /\ AllQueuesInv => NoSharedId
  <2> SUFFICES ASSUME TypeOK, AllQueuesInv,
                      NEW s \in InState(jobs, "Running"), NEW t \in InState(jobs, "Running"),
                      jobs[s].id = jobs[t].id
               PROVE  s = t
    BY DEF NoSharedId
  <2>1. s \in Nat /\ t \in Nat /\ IsFirst(jobs, s) /\ IsFirst(jobs, t)
    BY DEF TypeOK, IsQueue, Slots, InState, AllQueuesInv, QueueInv, FirstOnly
  <2>2. s <= t /\ t <= s
    BY <2>1 DEF IsFirst
  <2>3. QED
    BY <2>1, <2>2
<1>2. QED
  BY <1>1, TypeCorrect, QueuesCorrect, PTL

\* Whatever fails, is paused or is relaunched: a file is retried automatically
\* fewer than max_attempts times.
THEOREM FilesWithinBudget == Spec => []FileRetryBudget
<1>1. AllQueuesInv => FileRetryBudget
  BY DEF AllQueuesInv, QueueInv, Paid, JobPaid, FileRetryBudget
<1>2. QED
  BY <1>1, QueuesCorrect, PTL
-----------------------------------------------------------------------------
(* Paused and done jobs.                                                    *)

\* With unique ids a tick leaves every job alone that neither waits nor failed.
LEMMA TickLeavesStopped ==
  ASSUME IsQueue(jobs), UniqueIds, Tick,
         NEW s \in DOMAIN jobs, jobs[s].state \in {"Paused", "Done"}
  PROVE  s \in DOMAIN jobs' /\ jobs'[s] = jobs[s]
<1>1. jobs' = AutoRetry(Promote(jobs)) /\ DOMAIN jobs' = DOMAIN jobs
  BY TickQueueType DEF Tick
<1>2. jobs[s].id \notin {jobs[t].id : t \in Promoted(jobs)}
  <2>1. \A t \in Promoted(jobs) : t \in DOMAIN jobs /\ jobs[t].state = "Waiting"
    BY DEF Promoted, InState
  <2>2. QED
    BY <2>1 DEF UniqueIds
<1>3. Promote(jobs)[s] = jobs[s] /\ s \in DOMAIN Promote(jobs)
  BY <1>2 DEF Promote, SetState
<1>4. ~RetryDue(Promote(jobs), s)
  BY <1>3 DEF RetryDue
<1>5. QED
  BY <1>1, <1>3, <1>4 DEF AutoRetry

\* No tick and no late result of a worker moves a job that is paused or done.
THEOREM StoppedUntouched == Spec => StoppedStays
<1>1. TypeOK /\ [Next]_vars =>
        [EngineStep /\ UniqueIds =>
           \A s \in DOMAIN jobs :
             jobs[s].state \in {"Paused", "Done"} =>
               s \in DOMAIN jobs' /\ jobs'[s] = jobs[s]]_vars
  <2> SUFFICES ASSUME TypeOK, Next, EngineStep, UniqueIds,
                      NEW s \in DOMAIN jobs, jobs[s].state \in {"Paused", "Done"}
               PROVE  s \in DOMAIN jobs' /\ jobs'[s] = jobs[s]
    OBVIOUS
  <2>1. budget \in Nat /\ restarts \in Nat /\ budget' = budget /\ restarts' = restarts
    BY ConstantsAssumption DEF TypeOK, EngineStep
  <2>2. ~User
    <3>1. ~UserStep
      BY <2>1 DEF UserStep
    <3>2. QED
      BY <3>1 DEF User, Enqueue, PauseJob, ResumeJob, RetryJob, CancelJob, ClearDone,
         TogglePauseAll, SetOffline, SetParallel, ResumeOrphan, DiscardOrphans, OnlyJobs
  <2>3. ~Restart
    BY <2>1 DEF Restart
  <2>4. CASE Tick
    BY <2>4, TickLeavesStopped DEF TypeOK
  <2>5. ASSUME NEW id \in Ids, NEW c \in Cells, WorkerStep(id, c)
        PROVE  s \in DOMAIN jobs' /\ jobs'[s] = jobs[s]
    BY <2>5 DEF WorkerStep, SeeCancel, Finish
  <2>6. CASE jobs' = jobs
    BY <2>6
  <2>7. QED
    BY <2>2, <2>3, <2>4, <2>5, <2>6 DEF Next, Engine, Elapse, Persist
<1>2. QED
  BY <1>1, TypeCorrect, PTL DEF Spec, StoppedStays
-----------------------------------------------------------------------------
(* The limit on running jobs.                                               *)

\* Of a finite set of positions, fewer than k have fewer than k below them,
\* or as many.
LEMMA FirstOnes ==
  ASSUME NEW S, IsFiniteSet(S), S \subseteq Nat, NEW k \in Nat
  PROVE  LET P == {s \in S : Cardinality({t \in S : t < s}) < k}
         IN  IsFiniteSet(P) /\ Cardinality(P) <= k
<1> DEFINE Below(s) == {t \in S : t < s}
           P == {s \in S : Cardinality(Below(s)) < k}
           f == [s \in P |-> Cardinality(Below(s))]
<1>1. \A s \in S : IsFiniteSet(Below(s)) /\ Cardinality(Below(s)) \in Nat
  <2> TAKE s \in S
  <2>1. Below(s) \in SUBSET S
    OBVIOUS
  <2>2. QED
    BY <2>1, FS_Subset, FS_CardinalityType
<1>2. \A s, t \in S : s < t => Cardinality(Below(s)) < Cardinality(Below(t))
  <2> SUFFICES ASSUME NEW s \in S, NEW t \in S, s < t
               PROVE  Cardinality(Below(s)) < Cardinality(Below(t))
    OBVIOUS
  <2>1. s \in Nat /\ t \in Nat
    OBVIOUS
  <2>2. Below(s) \in SUBSET Below(t) /\ s \in Below(t) /\ s \notin Below(s)
    <3>1. \A x \in S : x < s => x < t
      BY <2>1
    <3>2. ~(s < s)
      BY <2>1
    <3>3. QED
      BY <3>1, <3>2
  <2> HIDE DEF Below
  <2>3. Cardinality(Below(s)) <= Cardinality(Below(t))
    BY <1>1, <2>2, FS_Subset
  <2>4. Cardinality(Below(s)) # Cardinality(Below(t))
    BY <1>1, <2>2, FS_Subset
  <2>5. QED
    BY <1>1, <2>3, <2>4
<1>3. f \in [P -> 0 .. k - 1]
  <2> HIDE DEF Below
  <2>1. \A s \in P : Cardinality(Below(s)) \in 0 .. k - 1
    BY <1>1
  <2>2. QED
    BY <2>1
<1>4. \A s, t \in P : f[s] = f[t] => s = t
  <2> SUFFICES ASSUME NEW s \in P, NEW t \in P, f[s] = f[t]
               PROVE  s = t
    OBVIOUS
  <2> HIDE DEF Below
  <2>1. s \in S /\ t \in S /\ s \in Nat /\ t \in Nat
    OBVIOUS
  <2>2. Cardinality(Below(s)) = Cardinality(Below(t))
    OBVIOUS
  <2>3. ~(s < t) /\ ~(t < s)
    BY <1>1, <1>2, <2>1, <2>2
  <2>4. QED
    BY <2>1, <2>3
<1>5. f \in Injection(P, 0 .. k - 1)
  <2> HIDE DEF P, f
  <2>1. QED
    BY <1>3, <1>4 DEF Injection, IsInjective
<1>6. IsFiniteSet(0 .. k - 1) /\ Cardinality(0 .. k - 1) = k
  BY FS_Interval
<1>7. IsFiniteSet(P) /\ Cardinality(P) <= k
  <2> HIDE DEF P, f
  <2>1. QED
    BY <1>5, <1>6, FS_Injection
<1>8. QED
  BY <1>7

\* Looking the ids of a set of positions up again finds no more positions.
LEMMA FirstsOf ==
  ASSUME NEW q, IsQueue(q), NEW S, IsFiniteSet(S)
  PROVE  LET ids == {q[s].id : s \in S}
             F == {s \in DOMAIN q : q[s].id \in ids /\ IsFirst(q, s)}
         IN  IsFiniteSet(F) /\ Cardinality(F) <= Cardinality(S)
<1> DEFINE ids == {q[s].id : s \in S}
           F == {s \in DOMAIN q : q[s].id \in ids /\ IsFirst(q, s)}
           g == [s \in F |-> CHOOSE t \in S : q[t].id = q[s].id]
<1>1. \A s \in F : g[s] \in S /\ q[g[s]].id = q[s].id
  OBVIOUS
<1>2. \A s, t \in F : q[s].id = q[t].id => s = t
  <2> SUFFICES ASSUME NEW s \in F, NEW t \in F, q[s].id = q[t].id
               PROVE  s = t
    OBVIOUS
  <2>1. s \in Nat /\ t \in Nat
    BY DEF IsQueue, Slots
  <2>2. s <= t /\ t <= s
    BY DEF IsFirst
  <2>3. QED
    BY <2>1, <2>2
<1>3. g \in [F -> S] /\ \A s, t \in F : g[s] = g[t] => s = t
  <2>1. g = [s \in F |-> g[s]]
    OBVIOUS
  <2> HIDE DEF F, g
  <2>2. QED
    BY <1>1, <1>2, <2>1
<1>4. g \in Injection(F, S)
  <2> HIDE DEF F, g
  <2>1. QED
    BY <1>3 DEF Injection, IsInjective
<1>5. IsFiniteSet(F) /\ Cardinality(F) <= Cardinality(S)
  <2> HIDE DEF F, g
  <2>1. QED
    BY <1>4, FS_Injection
<1>6. QED
  BY <1>5

\* The positions in a state are a finite set of numbers.
LEMMA InStateFinite ==
  ASSUME NEW q, IsQueue(q), NEW st
  PROVE  /\ InState(q, st) \subseteq Nat /\ IsFiniteSet(InState(q, st))
         /\ Cardinality(InState(q, st)) \in Nat
<1>1. IsFiniteSet(Slots)
  BY ConstantsAssumption, FS_Interval DEF Slots
<1>2. InState(q, st) \in SUBSET Slots
  BY DEF InState, IsQueue
<1>3. IsFiniteSet(InState(q, st)) /\ Cardinality(InState(q, st)) \in Nat
  BY <1>1, <1>2, FS_Subset, FS_CardinalityType
<1>4. QED
  BY <1>2, <1>3 DEF Slots

\* A tick that starts a job leaves no more than `parallel` running.
LEMMA TickWithinLimit ==
  ASSUME IsQueue(jobs), parallel \in Nat, Tick,
         ~(InState(jobs', "Running") \subseteq InState(jobs, "Running"))
  PROVE  Cardinality(InState(jobs', "Running")) <= parallel
<1> DEFINE run == InState(jobs, "Running")
           waiting == InState(jobs, "Waiting")
           taken == Cardinality(run)
           slots == IF taken < parallel THEN parallel - taken ELSE 0
           P == {s \in waiting : Cardinality({t \in waiting : t < s}) < slots}
           started == Promoted(jobs)
           ids == {jobs[s].id : s \in started}
           F == {s \in DOMAIN jobs : jobs[s].id \in ids /\ IsFirst(jobs, s)}
           after == InState(jobs', "Running")
<1>1. after \subseteq run \cup F
  <2>1. jobs' = AutoRetry(Promote(jobs)) /\ DOMAIN jobs' = DOMAIN jobs
    BY TickQueueType DEF Tick
  <2>2. Promote(jobs) = SetState(jobs, F, "Running")
    BY DEF Promote
  <2> HIDE DEF F
  <2>3. \A s \in DOMAIN jobs : jobs'[s].state = "Running" => Promote(jobs)[s].state = "Running"
    <3> TAKE s \in DOMAIN jobs
    <3>1. IsQueue(Promote(jobs)) /\ DOMAIN Promote(jobs) = DOMAIN jobs
      BY <2>2, SetStateType DEF States
    <3>2. Promote(jobs)[s] \in Job
      BY <3>1 DEF IsQueue
    <3>3. CASE RetryDue(Promote(jobs), s)
      <4>1. jobs'[s].state = "Waiting"
        BY <2>1, <3>1, <3>2, <3>3 DEF AutoRetry, Job
      <4>2. QED
        BY <4>1
    <3>4. CASE ~RetryDue(Promote(jobs), s)
      BY <2>1, <3>1, <3>4 DEF AutoRetry
    <3>5. QED
      BY <3>3, <3>4
  <2>4. QED
    BY <2>1, <2>2, <2>3 DEF InState, SetState
<1>2. taken \in Nat /\ slots \in Nat /\ IsFiniteSet(run) /\ IsFiniteSet(waiting) /\ waiting \subseteq Nat
  BY InStateFinite
<1>3. IsFiniteSet(P) /\ Cardinality(P) <= slots
  <2> HIDE DEF waiting, slots
  <2>1. QED
    BY <1>2, FirstOnes
<1>4. started \subseteq P
  BY DEF Promoted
<1>5. IsFiniteSet(started) /\ Cardinality(started) <= slots
  <2>1. started \in SUBSET P
    BY <1>4
  <2> HIDE DEF P, slots, started
  <2>2. Cardinality(P) \in Nat /\ IsFiniteSet(started) /\ Cardinality(started) <= Cardinality(P)
    BY <1>3, <2>1, FS_Subset, FS_CardinalityType
  <2>3. Cardinality(started) \in Nat
    BY <2>2, FS_CardinalityType
  <2>4. QED
    BY <1>2, <1>3, <2>2, <2>3
<1>6. IsFiniteSet(F) /\ Cardinality(F) <= slots
  <2>1. IsFiniteSet(F) /\ Cardinality(F) <= Cardinality(started)
    <3> HIDE DEF started, slots
    <3>1. QED
      BY <1>5, FirstsOf
  <2> HIDE DEF F, started, slots
  <2>2. Cardinality(F) \in Nat /\ Cardinality(started) \in Nat
    BY <1>5, <2>1, FS_CardinalityType
  <2>3. QED
    BY <1>2, <1>5, <2>1, <2>2
<1>7. taken < parallel
  <2>1. F # {}
    BY <1>1
  <2> HIDE DEF F, slots, taken
  <2>2. Cardinality(F) \in Nat /\ Cardinality(F) # 0
    BY <1>6, <2>1, FS_CardinalityType, FS_EmptySet
  <2>3. slots # 0
    BY <1>2, <1>6, <2>2
  <2>4. QED
    BY <2>3 DEF slots
<1>8. Cardinality(F) <= parallel - taken
  BY <1>6, <1>7
<1> HIDE DEF F, run
<1>9. IsFiniteSet(run \cup F) /\ Cardinality(run \cup F) <= taken + Cardinality(F)
  <2>1. IsFiniteSet(run \cup F) /\ IsFiniteSet(run \cap F)
        /\ Cardinality(run \cup F) = taken + Cardinality(F) - Cardinality(run \cap F)
    BY <1>2, <1>6, FS_Union, FS_Intersection
  <2>2. Cardinality(run \cap F) \in Nat /\ Cardinality(F) \in Nat
    BY <1>6, <2>1, FS_CardinalityType
  <2>3. QED
    BY <1>2, <2>1, <2>2
<1>10. Cardinality(after) <= Cardinality(run \cup F) /\ IsFiniteSet(after)
  <2>1. after \in SUBSET (run \cup F)
    BY <1>1
  <2> HIDE DEF after
  <2>2. QED
    BY <1>9, <2>1, FS_Subset
<1>11. Cardinality(after) \in Nat /\ Cardinality(run \cup F) \in Nat /\ Cardinality(F) \in Nat
  BY <1>6, <1>9, <1>10, FS_CardinalityType
<1> HIDE DEF after, taken
<1>12. Cardinality(after) <= parallel
  BY <1>2, <1>8, <1>9, <1>10, <1>11
<1>13. QED
  BY <1>12 DEF after

\* No engine step starts a job beyond the limit, however many the user has
\* resumed.
THEOREM StartsWithinLimit == Spec => PromotesWithinLimit
<1> DEFINE A == EngineStep /\ ~(InState(jobs', "Running") \subseteq InState(jobs, "Running"))
                  => Cardinality(InState(jobs', "Running")) <= parallel
<1>1. TypeOK /\ [Next]_vars => [A]_vars
  <2> SUFFICES ASSUME TypeOK, Next, EngineStep,
                      ~(InState(jobs', "Running") \subseteq InState(jobs, "Running"))
               PROVE  Cardinality(InState(jobs', "Running")) <= parallel
    OBVIOUS
  <2>1. budget \in Nat /\ restarts \in Nat /\ budget' = budget /\ restarts' = restarts
    BY ConstantsAssumption DEF TypeOK, EngineStep
  <2>2. ~User
    <3>1. ~UserStep
      BY <2>1 DEF UserStep
    <3>2. QED
      BY <3>1 DEF User, Enqueue, PauseJob, ResumeJob, RetryJob, CancelJob, ClearDone,
         TogglePauseAll, SetOffline, SetParallel, ResumeOrphan, DiscardOrphans, OnlyJobs
  <2>3. ~Restart
    BY <2>1 DEF Restart
  <2>4. CASE Tick
    BY <2>4, TickWithinLimit, ConstantsAssumption DEF TypeOK
  <2>5. ASSUME NEW id \in Ids, NEW c \in Cells, NEW result \in {"ok", "allFailed", "err"},
               Finish(id, c, result)
        PROVE  InState(jobs', "Running") \subseteq InState(jobs, "Running")
    <3>1. \A s \in DOMAIN jobs : Apply(jobs[s], result).state # "Running"
      BY DEF Apply, TypeOK, IsQueue, Job
    <3>2. QED
      BY <2>5, <3>1 DEF Finish, InState
  <2>6. CASE jobs' = jobs
    BY <2>6
  <2>7. QED
    BY <2>2, <2>3, <2>4, <2>5, <2>6 DEF Next, Engine, Elapse, Persist, WorkerStep, SeeCancel
<1>2. PromotesWithinLimit <=> [][A]_vars
  BY DEF PromotesWithinLimit
<1>3. QED
  BY <1>1, <1>2, TypeCorrect, PTL DEF Spec
=============================================================================
