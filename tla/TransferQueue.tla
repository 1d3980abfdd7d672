---------------------------- MODULE TransferQueue ----------------------------
(***************************************************************************)
(* The transfer queue of the UI store and the engine that drives it        *)
(* (crates/mk-ui/src/store.rs, start_transfer_engine), for jobs of real    *)
(* hosts.                                                                  *)
(*                                                                         *)
(* The UI runs on one thread: a button handler, one engine tick, and the   *)
(* part of a worker task after its last await are each one atomic step.    *)
(* Between two steps of a worker the user and the engine interleave.       *)
(*                                                                         *)
(* Simplifications.                                                        *)
(*  - Bytes, rates, messages and timestamps are left out; a transfer is    *)
(*    its outcome.                                                         *)
(*  - The clock is abstract: a recorded failure is "recent" until Elapse   *)
(*    makes it "elapsed", which is when 5 * 2^attempt seconds are over.    *)
(*  - Jobs of the built-in fixture hosts (debug builds) and the dev        *)
(*    drawer's injected failure are out of scope.                          *)
(***************************************************************************)
EXTENDS Naturals, FiniteSets

CONSTANTS
  Names,         \* file names a job can be made for
  OrphanNames,   \* the names whose .mkpart file a launch may find
  TreeNames,     \* the names that are directories: Job::is_tree
  Stalling,      \* the ids whose transfer may hang until it is cancelled
  MaxJobs,       \* bound: positions of the queue
  MaxSeq,        \* bound: job ids drawn from JOB_SEQ in one launch
  MaxParallel,   \* largest `parallel transfers` setting
  MaxAttempts,   \* Job::max_attempts
  MaxUser,       \* bound: user actions
  MaxRestarts    \* bound: relaunches of the app

ASSUME ConstantsAssumption ==
  /\ TreeNames \subseteq Names
  /\ Stalling \subseteq Names \X Nat
  /\ OrphanNames \subseteq Names \ TreeNames
  /\ MaxJobs \in Nat
  /\ MaxSeq \in Nat \ {0}
  /\ MaxParallel \in Nat \ {0}
  /\ MaxAttempts \in Nat \ {0}
  /\ MaxUser \in Nat
  /\ MaxRestarts \in Nat

VARIABLES
  jobs,          \* Store::jobs, a partial function from positions to jobs
  parallel,      \* Settings::transfers.parallel
  offline,       \* Store::offline
  seq,           \* JOB_SEQ, a static that starts at 0 in every process
  failedSince,   \* failed_since: id -> when it last failed
  workers,       \* workers and cancel_flags: id -> the task they belong to
  tasks,         \* the spawned tasks of every id, with their cancel flag
  saved,         \* the queue and settings of the last save on disk
  orphans,       \* the paths the orphan dialog offers
  restarts,      \* bound counter
  budget         \* bound counter

vars == <<jobs, parallel, offline, seq, failedSince, workers, tasks, saved,
          orphans, restarts, budget>>

engineVars == <<failedSince, workers, tasks>>
diskVars   == <<saved, restarts>>
-----------------------------------------------------------------------------
(* The queue.  An id is format!("job-{name}-{seq}").                        *)

States == {"Running", "Waiting", "Paused", "Failed", "Done"}
Slots  == 1 .. MaxJobs
Ids    == Names \X (0 .. MaxSeq - 1)

\* `retries` is a history variable: automatic retries since the user last
\* restarted the job.  Both counters stop at MaxAttempts: the code only asks
\* whether attempt is below it.
Job == [id: Ids, state: States, attempt: 0 .. MaxAttempts,
        retries: 0 .. MaxAttempts]

Bump(n) == IF n < MaxAttempts THEN n + 1 ELSE n

NewJob(id) == [id |-> id, state |-> "Waiting", attempt |-> 0, retries |-> 0]

IsTree(id) == id[1] \in TreeNames

EmptyQueue == [s \in {} |-> 0]

InState(q, st) == {s \in DOMAIN q : q[s].state = st}

\* The entry that iter().find(|j| j.id == id) returns.
IsFirst(q, s) ==
  /\ s \in DOMAIN q
  /\ \A t \in DOMAIN q : q[t].id = q[s].id => s <= t

Keep(q, S) == [s \in S |-> q[s]]

\* Every job of S gets state st.
SetState(q, S, st) ==
  [s \in DOMAIN q |-> IF s \in S THEN [q[s] EXCEPT !.state = st] ELSE q[s]]

\* n is the position Vec::push writes to.
IsEnd(q, n) ==
  /\ n \in Slots
  /\ \A t \in DOMAIN q : t < n
  /\ n = 1 \/ (n - 1) \in DOMAIN q

Push(q, n, job) == [s \in DOMAIN q \cup {n} |-> IF s = n THEN job ELSE q[s]]

UniqueIds == \A s, t \in DOMAIN jobs : jobs[s].id = jobs[t].id => s = t
-----------------------------------------------------------------------------
(* Worker tasks.  An id has at most two tasks at a time in the model, so    *)
(* that a task the table has lost track of would show.                      *)

Cells  == {1, 2}
NoCell == 0
Phases == {"none", "run", "abort", "ended"}
Task    == [phase: Phases, cancel: BOOLEAN]
NoTask  == [phase |-> "none", cancel |-> FALSE]
NewTask == [phase |-> "run", cancel |-> FALSE]

\* The transfer is still going on.
Active(id, c) == tasks[id][c].phase \in {"run", "abort"}

\* The progress channel of the id's worker is disconnected.
Reaped(id) == workers[id] # NoCell /\ tasks[id][workers[id]].phase = "ended"

Age == {"none", "recent", "elapsed"}
-----------------------------------------------------------------------------
(* One engine tick, in the order of the code: the finished workers are      *)
(* drained, waiting jobs promoted, failed jobs retried, cancel flags set,   *)
(* and workers spawned.                                                     *)

\* Faulty variant: the running jobs are not taken off the limit.
PromotedIgnoringRunning(q) ==
  LET waiting == InState(q, "Waiting")
  IN  IF offline THEN {}
      ELSE {s \in waiting : Cardinality({t \in waiting : t < s}) < parallel}

\* Faulty variant: a paused job keeps its slot.
PromotedCountingPaused(q) ==
  LET taken   == Cardinality(InState(q, "Running") \cup InState(q, "Paused"))
      slots   == IF taken < parallel THEN parallel - taken ELSE 0
      waiting == InState(q, "Waiting")
  IN  IF offline THEN {}
      ELSE {s \in waiting : Cardinality({t \in waiting : t < s}) < slots}

\* waiting_ids: the first `slots` waiting jobs, none when offline.
Promoted(q) ==
  LET running == Cardinality(InState(q, "Running"))
      slots   == IF running < parallel THEN parallel - running ELSE 0
      waiting == InState(q, "Waiting")
  IN  IF offline THEN {}
      ELSE {s \in waiting : Cardinality({t \in waiting : t < s}) < slots}

\* Faulty variant: the entry that was waiting becomes Running.
PromoteInPlace(q) == SetState(q, Promoted(q), "Running")

\* Each promoted id is looked up again: its first entry becomes Running.
Promote(q) ==
  LET ids == {q[s].id : s \in Promoted(q)}
  IN  SetState(q, {s \in DOMAIN q : q[s].id \in ids /\ IsFirst(q, s)}, "Running")

\* Faulty variant: one retry too many.
RetryDueOffByOne(q, s) ==
  /\ q[s].state = "Failed"
  /\ q[s].attempt <= MaxAttempts
  /\ failedSince[q[s].id] = "elapsed"

RetryDue(q, s) ==
  /\ q[s].state = "Failed"
  /\ q[s].attempt < MaxAttempts
  /\ failedSince[q[s].id] = "elapsed"

AutoRetry(q) ==
  [s \in DOMAIN q |->
     IF RetryDue(q, s)
     THEN [q[s] EXCEPT !.state = "Waiting", !.retries = Bump(@)]
     ELSE q[s]]

HasRunning(q, id) == \E s \in DOMAIN q : q[s].id = id /\ q[s].state = "Running"

\* Faulty variant: a cancelled worker is dropped before it has ended.
DrainedEarly ==
  [id \in Ids |-> IF \/ Reaped(id)
                     \/ workers[id] # NoCell /\ tasks[id][workers[id]].cancel
                  THEN NoCell ELSE workers[id]]

\* The worker entries that stay after the drain.
Drained == [id \in Ids |-> IF Reaped(id) THEN NoCell ELSE workers[id]]

\* Faulty variant: nobody sets the flags.
FlaggedNever(q) ==
  [id \in Ids |-> [c \in Cells |->
     IF workers[id] = c /\ Reaped(id) THEN NoTask ELSE tasks[id][c]]]

\* The tasks after the drain and the update of the flags in cancel_flags.
Flagged(q) ==
  [id \in Ids |-> [c \in Cells |->
     CASE workers[id] = c /\ Reaped(id) -> NoTask
       [] Drained[id] = c -> [tasks[id][c] EXCEPT !.cancel = ~HasRunning(q, id)]
       [] OTHER -> tasks[id][c]]]

ToSpawn(q) == {id \in Ids : HasRunning(q, id) /\ Drained[id] = NoCell}

Spawn(q, ts, cell) ==
  [id \in Ids |-> [c \in Cells |->
     IF id \in ToSpawn(q) /\ c = cell[id] THEN NewTask
     ELSE ts[id][c]]]

\* The first cell that is free: which one makes no difference.
FirstFree(ts, id, c) ==
  ts[id][c].phase = "none" /\ \A d \in Cells : ts[id][d].phase = "none" => c <= d

Tick ==
  /\ jobs' = AutoRetry(Promote(jobs))
  /\ \E cell \in [ToSpawn(jobs') -> Cells] :
       /\ \A id \in ToSpawn(jobs') : FirstFree(Flagged(jobs'), id, cell[id])
       /\ workers' = [id \in Ids |-> IF id \in ToSpawn(jobs') THEN cell[id]
                                     ELSE Drained[id]]
       /\ tasks' = Spawn(jobs', Flagged(jobs'), cell)
  /\ UNCHANGED <<parallel, offline, seq, failedSince, saved, orphans,
                 restarts, budget>>

\* The backoff of a recorded failure runs out.
Elapse(id) ==
  /\ failedSince[id] = "recent"
  /\ failedSince' = [failedSince EXCEPT ![id] = "elapsed"]
  /\ UNCHANGED <<jobs, parallel, offline, seq, workers, tasks, saved, orphans,
                 restarts, budget>>
-----------------------------------------------------------------------------
(* A worker task.                                                           *)

\* The transfer loop reads its cancel flag and turns to cleaning up.
SeeCancel(id, c) ==
  /\ tasks[id][c].phase = "run"
  /\ tasks[id][c].cancel
  /\ tasks' = [tasks EXCEPT ![id][c].phase = "abort"]
  /\ UNCHANGED <<jobs, parallel, offline, seq, failedSince, workers, saved,
                 orphans, restarts, budget>>

\* What the transfer can return.  A tree counts a failing file (a cancelled
\* one too) and goes on: it returns Err only when its own check of the flag
\* finds it set.
Outcomes(id, phase) ==
  CASE phase = "run"   /\ ~IsTree(id) -> {"ok", "err"}
    [] phase = "run"   /\ IsTree(id)  -> {"ok", "allFailed"}
    [] phase = "abort" /\ ~IsTree(id) -> {"err"}
    [] phase = "abort" /\ IsTree(id)  -> {"ok", "allFailed", "err"}

Apply(job, result) ==
  CASE result = "ok"        -> [job EXCEPT !.state = "Done"]
    [] result = "allFailed" -> [job EXCEPT !.state = "Failed"]
    [] result = "err"       -> [job EXCEPT !.state = "Failed", !.attempt = Bump(@)]

\* Faulty variant: the job's state is not looked at.
FinishAnyState(id, c, result) ==
  /\ Active(id, c)
  /\ result \in Outcomes(id, tasks[id][c].phase)
  /\ failedSince' = IF result = "err"
                    THEN [failedSince EXCEPT ![id] = "recent"] ELSE failedSince
  /\ jobs' = [s \in DOMAIN jobs |->
                IF jobs[s].id = id /\ IsFirst(jobs, s)
                THEN Apply(jobs[s], result) ELSE jobs[s]]
  /\ tasks' = [tasks EXCEPT ![id][c].phase = "ended"]
  /\ UNCHANGED <<parallel, offline, seq, workers, saved, orphans, restarts,
                 budget>>

\* Faulty variant: the time of the failure is not recorded.
FinishUntimed(id, c, result) ==
  /\ Active(id, c)
  /\ result \in Outcomes(id, tasks[id][c].phase)
  /\ jobs' = [s \in DOMAIN jobs |->
                IF jobs[s].id = id /\ jobs[s].state = "Running"
                THEN Apply(jobs[s], result) ELSE jobs[s]]
  /\ tasks' = [tasks EXCEPT ![id][c].phase = "ended"]
  /\ UNCHANGED <<failedSince, parallel, offline, seq, workers, saved, orphans,
                 restarts, budget>>

\* The code after the transfer's await: it finds its job only while Running.
Finish(id, c, result) ==
  /\ Active(id, c)
  /\ result \in Outcomes(id, tasks[id][c].phase)
  /\ failedSince' = IF result = "err"
                    THEN [failedSince EXCEPT ![id] = "recent"] ELSE failedSince
  /\ jobs' = [s \in DOMAIN jobs |->
                IF /\ jobs[s].id = id /\ jobs[s].state = "Running"
                   /\ \A t \in InState(jobs, "Running") : jobs[t].id = id => s <= t
                THEN Apply(jobs[s], result) ELSE jobs[s]]
  /\ tasks' = [tasks EXCEPT ![id][c].phase = "ended"]
  /\ UNCHANGED <<parallel, offline, seq, workers, saved, orphans, restarts,
                 budget>>
-----------------------------------------------------------------------------
(* What the user does.  Every handler costs one unit of the budget.         *)

UserStep ==
  /\ budget > 0
  /\ budget' = budget - 1
  /\ UNCHANGED engineVars
  /\ UNCHANGED diskVars

OnlyJobs == UserStep /\ UNCHANGED <<parallel, offline, seq, orphans>>

PushJob(name) ==
  /\ seq < MaxSeq
  /\ \E n \in Slots : IsEnd(jobs, n) /\ jobs' = Push(jobs, n, NewJob(<<name, seq>>))
  /\ seq' = seq + 1

Enqueue(name) ==
  /\ PushJob(name)
  /\ UserStep
  /\ UNCHANGED <<parallel, offline, orphans>>

\* The handlers look a job up by the id on its card; on a duplicated id they
\* reach the first entry.
PauseJob(s) ==
  /\ IsFirst(jobs, s) /\ jobs[s].state = "Running"
  /\ jobs' = SetState(jobs, {s}, "Paused")
  /\ OnlyJobs

\* Back to Running at once, whatever the number of running jobs.
ResumeJob(s) ==
  /\ IsFirst(jobs, s) /\ jobs[s].state = "Paused"
  /\ jobs' = SetState(jobs, {s}, "Running")
  /\ OnlyJobs

\* The card of a failed job offers Retry; the handler restarts whatever job
\* it finds under that id.
RetryJob(s) ==
  /\ IsFirst(jobs, s)
  /\ \E t \in InState(jobs, "Failed") : jobs[t].id = jobs[s].id
  /\ jobs' = [jobs EXCEPT ![s] = [@ EXCEPT !.state = "Waiting", !.attempt = 0,
                                           !.retries = 0]]
  /\ OnlyJobs

\* cancel_job and skip_job.
CancelJob(s) ==
  /\ s \in DOMAIN jobs
  /\ jobs' = Keep(jobs, {t \in DOMAIN jobs : jobs[t].id # jobs[s].id})
  /\ OnlyJobs

ClearDone ==
  /\ InState(jobs, "Done") # {}
  /\ jobs' = Keep(jobs, DOMAIN jobs \ InState(jobs, "Done"))
  /\ OnlyJobs

TogglePauseAll ==
  /\ jobs' = IF InState(jobs, "Running") # {}
             THEN SetState(jobs, InState(jobs, "Running"), "Paused")
             ELSE SetState(jobs, InState(jobs, "Paused"), "Running")
  /\ OnlyJobs

SetOffline(off) ==
  /\ offline' = off
  /\ jobs' = IF off THEN SetState(jobs, InState(jobs, "Running"), "Paused")
             ELSE SetState(jobs, InState(jobs, "Paused"), "Running")
  /\ UserStep
  /\ UNCHANGED <<parallel, seq, orphans>>

\* Faulty variant: the step below 1 is not clamped.
SetParallelUnclamped(n) ==
  /\ n - 1 # parallel
  /\ parallel' = n - 1
  /\ UserStep
  /\ UNCHANGED <<jobs, offline, seq, orphans>>

SetParallel(n) ==
  /\ n \in 1 .. MaxParallel /\ n # parallel
  /\ parallel' = n
  /\ UserStep
  /\ UNCHANGED <<jobs, offline, seq, orphans>>

Resumable(q, name) ==
  {s \in DOMAIN q : q[s].id[1] = name /\ q[s].state \in {"Paused", "Failed", "Waiting"}}

\* RESUME in the orphan dialog: the first stopped job of that name waits
\* again (its attempt counter stays), or a new job is made.
ResumeOrphan(name) ==
  /\ orphans = {name}
  /\ orphans' = {}
  /\ \/ \E s \in Resumable(jobs, name) :
          /\ \A t \in Resumable(jobs, name) : s <= t
          /\ jobs' = SetState(jobs, {s}, "Waiting")
          /\ UNCHANGED seq
     \/ Resumable(jobs, name) = {} /\ PushJob(name)
  /\ UserStep
  /\ UNCHANGED <<parallel, offline>>

DiscardOrphans ==
  /\ orphans # {}
  /\ orphans' = {}
  /\ UserStep
  /\ UNCHANGED <<jobs, parallel, offline, seq>>
-----------------------------------------------------------------------------
(* The persister, and the end of the process at any moment.                 *)

\* The task that saves every 3 seconds.  A save no restart can read any more
\* is not recorded.
Persist ==
  /\ restarts < MaxRestarts
  /\ saved' = [jobs |-> jobs, parallel |-> parallel]
  /\ UNCHANGED <<jobs, parallel, offline, seq, failedSince, workers, tasks,
                 orphans, restarts, budget>>

SanitizeJobs(q) == SetState(q, InState(q, "Running"), "Waiting")

Restart ==
  /\ restarts < MaxRestarts
  /\ restarts' = restarts + 1
  /\ jobs' = SanitizeJobs(saved.jobs)
  /\ parallel' = saved.parallel
  /\ offline' = FALSE
  /\ seq' = 0
  /\ failedSince' = [id \in Ids |->
       IF \E s \in InState(saved.jobs, "Failed") : saved.jobs[s].id = id
       THEN "recent" ELSE "none"]
  /\ workers' = [id \in Ids |-> NoCell]
  /\ tasks' = [id \in Ids |-> [c \in Cells |-> NoTask]]
  /\ orphans' \in {{}} \cup {{name} : name \in OrphanNames}
  /\ UNCHANGED <<saved, budget>>
-----------------------------------------------------------------------------
Init ==
  /\ jobs = EmptyQueue
  /\ parallel \in 1 .. MaxParallel
  /\ offline = FALSE
  /\ seq = 0
  /\ failedSince = [id \in Ids |-> "none"]
  /\ workers = [id \in Ids |-> NoCell]
  /\ tasks = [id \in Ids |-> [c \in Cells |-> NoTask]]
  /\ saved = [jobs |-> jobs, parallel |-> parallel]
  /\ orphans = {}
  /\ restarts = 0
  /\ budget = MaxUser

User ==
  \/ \E name \in Names : Enqueue(name)
  \/ \E s \in Slots : PauseJob(s)
  \/ \E s \in Slots : ResumeJob(s)
  \/ \E s \in Slots : RetryJob(s)
  \/ \E s \in Slots : CancelJob(s)
  \/ ClearDone
  \/ TogglePauseAll
  \/ \E off \in BOOLEAN : SetOffline(off)
  \/ \E n \in 1 .. MaxParallel : SetParallel(n)
  \/ \E name \in OrphanNames : ResumeOrphan(name)
  \/ DiscardOrphans

WorkerStep(id, c) ==
  SeeCancel(id, c) \/ \E result \in {"ok", "allFailed", "err"} : Finish(id, c, result)

Engine ==
  \/ Tick
  \/ \E id \in Ids : Elapse(id)
  \/ \E id \in Ids, c \in Cells : WorkerStep(id, c)

Next == User \/ Engine \/ Persist \/ Restart

Spec == Init /\ [][Next]_vars

\* The interval timer ticks and time passes.  A transfer ends by itself unless
\* its id is Stalling; any transfer ends once it is cancelled, because the
\* loop reads the flag between chunks.  Nothing is assumed of the user, the
\* persister or the process.
MustStep(id, c) ==
  /\ id \notin Stalling \/ tasks[id][c].cancel \/ tasks[id][c].phase = "abort"
  /\ WorkerStep(id, c)

Fairness ==
  /\ WF_vars(Tick)
  /\ \A id \in Ids : WF_vars(Elapse(id))
  /\ \A id \in Ids : WF_vars(\E c \in Cells : MustStep(id, c))

FairSpec == Spec /\ Fairness
-----------------------------------------------------------------------------
(* Properties.                                                              *)

IsQueue(q) ==
  /\ DOMAIN q \subseteq Slots
  /\ q \in [DOMAIN q -> Job]

\* The variables have their types.
TypeOK ==
  /\ IsQueue(jobs)
  /\ parallel \in 1 .. MaxParallel
  /\ offline \in BOOLEAN
  /\ seq \in 0 .. MaxSeq
  /\ failedSince \in [Ids -> Age]
  /\ workers \in [Ids -> Cells \cup {NoCell}]
  /\ tasks \in [Ids -> [Cells -> Task]]
  /\ IsQueue(saved.jobs) /\ saved.parallel \in 1 .. MaxParallel
  /\ orphans \subseteq OrphanNames
  /\ restarts \in 0 .. MaxRestarts
  /\ budget \in 0 .. MaxUser

\* However a job is paused, resumed, dropped or retried, a transfer that is
\* still going on is the one the worker table knows of: no job has two
\* transfers at a time (they would write the same partial file), and none is
\* beyond the reach of its cancel flag (the table insert at 765-768 and the
\* drain at 628-632).
OneTaskPerJob == \A id \in Ids, c \in Cells : Active(id, c) => workers[id] = c

\* Even when a relaunch makes ids repeat, two running jobs never share an id,
\* hence never a worker entry (750-758 would spawn both and lose one of the
\* receivers and flags).
NoSharedId ==
  \A s, t \in InState(jobs, "Running") : jobs[s].id = jobs[t].id => s = t

\* A single-file job is restarted automatically at most MaxAttempts - 1 times
\* after its first run, over pauses, cancelled workers and relaunches
\* (attempt is counted at 852, the retry guard is at 721).
FileRetryBudget ==
  \A s \in DOMAIN jobs : ~IsTree(jobs[s].id) => jobs[s].retries < MaxAttempts

\* Neither a user step (they use up budget) nor a relaunch.
EngineStep == budget' = budget /\ restarts' = restarts

\* As long as ids are unique, no tick and no late result of a worker moves a
\* job that is paused or done: only the user does (the lookup at 818-821 asks
\* for Running, a paused job's worker may still answer).
StoppedStays ==
  [][EngineStep /\ UniqueIds =>
       \A s \in DOMAIN jobs :
         jobs[s].state \in {"Paused", "Done"} =>
           s \in DOMAIN jobs' /\ jobs'[s] = jobs[s]]_vars

\* An engine step that starts jobs leaves no more than `parallel` running,
\* however many the user has resumed before (699-717).
PromotesWithinLimit ==
  [][EngineStep /\ ~(InState(jobs', "Running") \subseteq InState(jobs, "Running"))
       => Cardinality(InState(jobs', "Running")) <= parallel]_vars

\* Running jobs whose transfer may hang.
Hung == {s \in InState(jobs, "Running") : jobs[s].id \in Stalling}

\* Directory jobs that may be tried again without end: no attempt is counted
\* when all their files fail (831), and the backoff of a failure that was
\* recorded before is over (720-734).
Endless ==
  {s \in DOMAIN jobs \ (InState(jobs, "Done") \cup InState(jobs, "Paused")) :
     /\ IsTree(jobs[s].id) /\ jobs[s].attempt < MaxAttempts
     /\ failedSince[jobs[s].id] = "elapsed"}

\* Waiting jobs behind another entry with their id, which is promoted in their
\* place (712).
Shadowed == {s \in InState(jobs, "Waiting") : ~IsFirst(jobs, s)}

\* What keeps a waiting job from its turn: the app is offline, transfers that
\* hang hold every slot, they and the directories before it that are tried
\* again without end are more than the slots, or an id is repeated.
Obstructed(s) ==
  \/ offline
  \/ Cardinality(Hung) >= parallel
  \/ Cardinality(Hung \cup {t \in Endless : t < s}) > parallel
  \/ \E t \in Shadowed : t <= s

\* A job does not wait for ever, unless from some time on one of these things
\* is always in its way: the order of promotion and retry (699-734) and the
\* slots it counts starve nobody else.
WaitingServed ==
  \A s \in Slots : []<>(s \notin InState(jobs, "Waiting")) \/ <>[]Obstructed(s)

\* Ids whose transfer goes on although no job of that id is running any more.
LeftOver == {id \in Ids : ~HasRunning(jobs, id) /\ \E c \in Cells : Active(id, c)}

\* The transfer of a paused or dropped job ends, even one that would hang,
\* unless the user resumes the job first (739-746: a flag per worker, set on
\* the next tick).
PausedStops == \A id \in Ids : []<>(id \notin LeftOver)

\* Failed jobs with attempts left whose failure has a time; that of a file
\* always has one (809-814).
Retriable ==
  {s \in InState(jobs, "Failed") :
     /\ jobs[s].attempt < MaxAttempts
     /\ ~IsTree(jobs[s].id) \/ failedSince[jobs[s].id] # "none"}

\* None of them stays failed for ever: the backoff ends and a tick sends it
\* back to the queue (720-734).
FailedRetried == \A s \in Slots : []<>(s \notin Retriable)
-----------------------------------------------------------------------------
(* What the documents say and the code does not do.                         *)

\* plan.md E7-S1: "Jobs run in a background task pool honouring `parallel
\* transfers`".
ParallelHonoured == Cardinality(InState(jobs, "Running")) <= parallel

\* plan.md E11-S2: going offline "pauses jobs with a queue banner rather than
\* failing them"; a job is never failed by its own cancelled worker.
CancelNeverFails ==
  [][\A s \in InState(jobs, "Running") :
       /\ s \in InState(jobs', "Failed")
       => \A c \in Cells : tasks[jobs[s].id][c].phase # "abort"]_vars

\* plan.md E7-S4: "Failed jobs auto-retry up to 3 attempts with backoff", for
\* directory jobs too.
RetryBudget == \A s \in DOMAIN jobs : jobs[s].retries < MaxAttempts

\* store.rs:699: "Promote waiting -> running"; the engine starts no job that
\* is paused or done.
PromotesOnlyWaiting ==
  [][EngineStep => InState(jobs', "Running") \subseteq
                     InState(jobs, "Running") \cup InState(jobs, "Waiting")]_vars

\* plan.md:406: "Failed jobs auto-retry up to 3 attempts with backoff", and then
\* leave their slots to the jobs that wait.  One more Endless directory than
\* there are slots takes turns with the others before every later job.
StarvesNobody ==
  \A s \in Slots :
    []<>(s \notin InState(jobs, "Waiting"))
      \/ <>[](offline \/ Cardinality(Hung) >= parallel \/ \E t \in Shadowed : t <= s)

\* store.rs:1404-1420: RESUME matches a partial file to a stopped job and makes a
\* new one "if !matched"; a job that runs again already is not matched, and
\* gets a second job for its file.
ResumesInPlace ==
  [][\A name \in OrphanNames :
       /\ ResumeOrphan(name)
       /\ \E s \in InState(jobs, "Running") : jobs[s].id[1] = name
       => DOMAIN jobs' = DOMAIN jobs]_vars
=============================================================================
