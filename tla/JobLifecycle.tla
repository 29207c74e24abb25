---------------------------- MODULE JobLifecycle ----------------------------
(***************************************************************************)
(* The life of a recording job in the ytlr service: the rows of the jobs   *)
(* table, the in-memory reservations (`active`), the tasks that hold them, *)
(* the single finalizer permit, the operation queue as far as it guards a  *)
(* job, and the process itself (shutdown, crash, restart).                 *)
(*                                                                         *)
(* Every handler runs under the `active` mutex or in one store             *)
(* transaction, so an action is one such critical section; an `.await`     *)
(* between two of them is a phase of the task.                             *)
(***************************************************************************)
EXTENDS Naturals, FiniteSets

CONSTANTS
  Job,            \* identifiers of recording jobs
  Task,           \* tokio tasks that can be alive at once (a bound)
  None,           \* no task
  Downloads,      \* the jobs of kind Download; the others record live
  MaxRecordings,  \* settings.max_recordings
  MaxRetries,     \* settings.max_retries
  MaxRestarts,    \* bound: how often the process goes down in a behaviour
  Requests        \* bound: the requests that the users make

ASSUME JobAssumption == Downloads \subseteq Job
ASSUME TaskAssumption == None \notin Task /\ IsFiniteSet(Task)
ASSUME NatAssumption ==
  MaxRecordings \in Nat \ {0} /\ MaxRetries \in Nat /\ MaxRestarts \in Nat

VARIABLES
  job,         \* the persisted row of each job
  op,          \* the job's unfinished background operations, persisted
  active,      \* the reservation of each job and its cancellation token
  task,        \* the tasks of the running process
  permit,      \* holder of Service.finalizer (a semaphore of one permit)
  installing,  \* an engine installation is running
  shutdown,    \* Service.shutdown, and who cancelled it
  up,          \* the process is alive
  restarts     \* how often it has been started again

memory == <<active, task, permit, installing, shutdown>>
process == <<installing, shutdown, up, restarts>>
vars == <<job, op, active, task, permit, process>>

----------------------------------------------------------------------------
\* model.rs JobState, with the two states of a row that is not in the table.
ActiveStates == {"preparing", "recording", "reconnecting", "finalizing"}
TerminalStates == {"completed", "partial", "stopped", "failed"}
JobStates ==
  {"absent", "deleted", "queued", "waiting"} \cup ActiveStates \cup TerminalStates

\* `attempt` counts 0, 1, many: the code asks no more of it. `deadline` is
\* stop_at, "due" once it has passed; `duration` is a duration_minutes that the
\* first attempt has still to turn into one.
Attempts == 0..2

JobRow ==
  [state : JobStates, stop : BOOLEAN, attempt : Attempts, retries : Nat,
   uncertain : BOOLEAN, protected : BOOLEAN,
   deadline : {"none", "set", "due"}, duration : BOOLEAN]

NewRow(state, deadline, duration) ==
  [state |-> state, stop |-> FALSE, attempt |-> 0, retries |-> 0,
   uncertain |-> FALSE, protected |-> FALSE, deadline |-> deadline, duration |-> duration]

\* The operations on a recorded job: "work" renders or cleans up, "recovery"
\* repairs. Bound: a job has one unfinished operation of each kind.
OpRoles == {"work", "recovery"}
OpStates == {"none", "queued", "running"}

Roles == {"record", "finish", "recover", "delete", "files"} \cup OpRoles
Finishers == {"record", "finish", "recover", "recovery"}
Phases ==
  {"prepare", "inspect", "capture", "captured", "ended", "reinspect", "retry",
   "finish", "queue", "verify", "commit", "publish", "error",
   "work", "claimed", "settle", "release"}

Recording == {"prepare", "inspect", "capture", "captured", "ended", "reinspect", "retry"}
Unreserved == {"idle", "claimed", "settle"}

TaskRow ==
  [at : {"idle"} \cup Phases, role : {"none"} \cup Roles, job : Job \cup {None},
   natural : BOOLEAN, verdict : {"none", "completed", "stopped", "partial"}]

Idle == [at |-> "idle", role |-> "none", job |-> None, natural |-> FALSE, verdict |-> "none"]
Running(role, phase, j) == [Idle EXCEPT !.at = phase, !.role = role, !.job = j]

----------------------------------------------------------------------------
Exists(j) == job[j].state \notin {"absent", "deleted"}
Terminal(j) == job[j].state \in TerminalStates
Free(j) == active[j] = "free"
Busy(t) == task[t].at # "idle"
HasOperations(j) == \E k \in OpRoles : op[j][k] # "none"
SetOp(j, k, value) == op' = [op EXCEPT ![j][k] = value]
OpActive == \E t \in Task : task[t].role \in OpRoles
\* A job's token is a child of the shutdown token. Two defects: a token that a
\* stop does not reach, and one that is no child.
CancelledByShutdown(j) == shutdown # "no"
CancelledByStop(j) == active[j] = "cancelled"
Cancelled(j) == active[j] = "cancelled" \/ shutdown # "no"
\* A defect: only jobs that are receiving media take a slot.
RecordingSlotsReceiving == {j \in Job : job[j].state = "recording"}
\* Slots that line 90 of the scheduler counts against max_recordings.
RecordingSlots == {j \in Job : ~Free(j) /\ ~Terminal(j)}

At(t, phase) == up /\ task[t].at = phase
Row(t) == job[task[t].job]
SetJob(j, row) == job' = [job EXCEPT ![j] = row]
Go(t, phase) == task' = [task EXCEPT ![t].at = phase]
Spawn(t, role, phase, j) == ~Busy(t) /\ task' = [task EXCEPT ![t] = Running(role, phase, j)]
Reserve(j) == active' = [active EXCEPT ![j] = "held"]
Cancel(j) == active' = [active EXCEPT ![j] = IF Free(j) THEN "free" ELSE "cancelled"]

Init ==
  /\ job = [j \in Job |-> NewRow("absent", "none", FALSE)]
  /\ op = [j \in Job |-> [k \in OpRoles |-> "none"]]
  /\ active = [j \in Job |-> "free"]
  /\ task = [t \in Task |-> Idle]
  /\ permit = None
  /\ installing = FALSE /\ shutdown = "no" /\ up = TRUE /\ restarts = 0

----------------------------------------------------------------------------
\* Requests of the user over the loopback API. A request admitted before the
\* shutdown signal may still run after it: only the handlers that test the
\* token refuse it.

\* POST /jobs of a video that has no job yet (also by a channel's monitor).
AddJob(j) ==
  /\ up /\ job[j].state = "absent"
  /\ \E d \in {"none", "set"}, b \in BOOLEAN :
       /\ "schedule" \notin Requests => d = "none" /\ ~b
       /\ SetJob(j, NewRow("queued", d, b))
  /\ UNCHANGED <<op, memory, up, restarts>>

\* The row a user stop leaves behind.
StoppedRow(j) ==
  [job[j] EXCEPT !.stop = TRUE,
     !.state = IF ~Free(j) \/ Terminal(j) THEN @
               ELSE IF job[j].attempt > 0 THEN "finalizing" ELSE "stopped"]

\* POST /jobs/:id/stop
Stop(j) ==
  /\ up /\ Exists(j)
  /\ SetJob(j, StoppedRow(j))
  /\ Cancel(j)
  /\ UNCHANGED <<op, task, permit, process>>

\* POST /jobs/:id/retry
\* A defect: a retry that does not look for queued operations.
MayRetryWithOperations(j) == Exists(j) /\ Free(j)
MayRetry(j) == Exists(j) /\ ~HasOperations(j) /\ Free(j)

Retry(j) ==
  /\ up /\ MayRetry(j)
  /\ SetJob(j, [job[j] EXCEPT !.state = "queued", !.deadline = "none", !.duration = FALSE,
                              !.stop = FALSE, !.retries = 0])
  /\ UNCHANGED <<op, memory, up, restarts>>

\* What both recovery handlers write before they call finish.
RecoveringRow(j) ==
  [job[j] EXCEPT !.stop = FALSE, !.deadline = "none", !.duration = FALSE,
                 !.state = "finalizing"]

\* POST /jobs/:id/recover
Recover(t, j) ==
  /\ up /\ shutdown = "no" /\ Exists(j) /\ ~HasOperations(j) /\ Free(j)
  /\ job[j].attempt > 0
  /\ SetJob(j, RecoveringRow(j))
  /\ Reserve(j) /\ Spawn(t, "recover", "finish", j)
  /\ UNCHANGED <<op, permit, process>>

\* PUT /jobs/:id/protect. A defect: it does not wait for file work.
MayProtectAnytime(j) == Exists(j)
MayProtect(j) == Exists(j) /\ ~(~Free(j) /\ Terminal(j))

Protect(j) ==
  /\ up /\ MayProtect(j)
  /\ \E b \in BOOLEAN : SetJob(j, [job[j] EXCEPT !.protected = b])
  /\ UNCHANGED <<op, memory, up, restarts>>

\* PUT /jobs/:id/schedule of a deadline alone, or in full before the start.
Schedule(j) ==
  /\ up /\ Exists(j) /\ ~job[j].stop
  /\ \E d \in {"none", "set"}, b \in BOOLEAN :
       /\ SetJob(j, [job[j] EXCEPT !.deadline = d, !.duration = b])
       /\ \/ b = job[j].duration /\ ~Terminal(j) /\ job[j].state # "finalizing"
          \/ Free(j) /\ job[j].attempt = 0 /\ job[j].state \in {"queued", "waiting"}
  /\ UNCHANGED <<op, memory, up, restarts>>

\* The reservation that deletion, cleanup and export take of a settled job. A
\* defect: it is taken over from whoever holds it.
MayMaintainReserved(j, role) ==
  /\ Terminal(j)
  /\ role = "delete" => ~HasOperations(j) /\ ~job[j].protected
MayMaintain(j, role) ==
  /\ Free(j) /\ Terminal(j)
  /\ role = "delete" => ~HasOperations(j) /\ ~job[j].protected

\* DELETE /jobs/:id (also by retention), cleanup, export and clip.
Maintain(t, j, role) ==
  /\ up /\ shutdown = "no" /\ MayMaintain(j, role)
  /\ Reserve(j) /\ Spawn(t, role, "queue", j)
  /\ UNCHANGED <<job, op, permit, process>>

\* POST /operations and /operations/:id/retry. A cleanup of a protected job is
\* refused, other work is not.
Enqueue(j, kind) ==
  /\ up /\ shutdown = "no" /\ Free(j) /\ Terminal(j) /\ op[j][kind] = "none"
  /\ SetOp(j, kind, "queued")
  /\ UNCHANGED <<job, memory, up, restarts>>

\* POST /operations/:id/cancel of an operation the worker has not claimed; a
\* running render only ends sooner.
CancelOperation(j, kind) ==
  /\ up /\ op[j][kind] = "queued"
  /\ SetOp(j, kind, "none")
  /\ UNCHANGED <<job, memory, up, restarts>>

----------------------------------------------------------------------------
\* The scheduler's tick, every two seconds, job by job.

\* A stopped job whose files nobody is finalizing. A defect: one whose deadline
\* is still ahead is left to the deadline.
MayFinalizeUnscheduled(j) ==
  job[j].state = "finalizing" /\ job[j].stop /\ Free(j) /\ job[j].deadline = "none"
MayFinalize(j) == job[j].state = "finalizing" /\ job[j].stop /\ Free(j)

FinalizeStopped(t, j) ==
  /\ up /\ MayFinalize(j)
  /\ Reserve(j) /\ Spawn(t, "finish", "finish", j)
  /\ UNCHANGED <<job, op, permit, process>>

\* A defect: a job with a stop request is left to the step above.
DeadlineDueUnstopped(j) ==
  Exists(j) /\ ~Terminal(j) /\ ~job[j].stop /\ job[j].deadline = "due"
DeadlineDue(j) == Exists(j) /\ ~Terminal(j) /\ job[j].deadline = "due"

\* The deadline of a job that some task holds.
ScheduledCancel(j) ==
  /\ up /\ DeadlineDue(j) /\ ~Free(j) /\ ~job[j].stop /\ job[j].state # "finalizing"
  /\ SetJob(j, [job[j] EXCEPT !.stop = TRUE])
  /\ Cancel(j)
  /\ UNCHANGED <<op, task, permit, process>>

\* The deadline of a job that no task holds: nothing captured yet.
ScheduledDrop(j) ==
  /\ up /\ DeadlineDue(j) /\ Free(j) /\ job[j].attempt = 0
  /\ SetJob(j, [job[j] EXCEPT !.stop = TRUE, !.state = "stopped"])
  /\ UNCHANGED <<op, memory, up, restarts>>

\* ... and with captured material.
ScheduledFinish(t, j) ==
  /\ up /\ DeadlineDue(j) /\ Free(j) /\ job[j].attempt > 0
  /\ SetJob(j, [job[j] EXCEPT !.stop = TRUE, !.state = "finalizing"])
  /\ Reserve(j) /\ Spawn(t, "finish", "finish", j)
  /\ UNCHANGED <<op, permit, process>>

SlotFree == Cardinality(RecordingSlots) < MaxRecordings

\* Time (start_at, next_checks), engine errors and a full disk only delay this.
StartRecording(t, j) ==
  /\ up /\ shutdown = "no" /\ ~installing
  /\ job[j].state \in {"queued", "waiting", "reconnecting"}
  /\ ~job[j].stop /\ job[j].deadline # "due"
  /\ Free(j) /\ SlotFree
  /\ Reserve(j) /\ Spawn(t, "record", "prepare", j)
  /\ UNCHANGED <<job, op, permit, process>>

----------------------------------------------------------------------------
\* run_job

Prepare(t) ==
  /\ At(t, "prepare")
  /\ SetJob(task[t].job, [Row(t) EXCEPT !.state = "preparing"])
  /\ Go(t, "inspect")
  /\ UNCHANGED <<op, active, permit, process>>

\* interrupted_state. A defect: the state is kept for the next start.
InterruptedRowKept(row) == [row EXCEPT !.uncertain = @ \/ row.attempt > 0]
InterruptedRow(row) ==
  [row EXCEPT !.state = IF ~row.stop THEN "queued"
                        ELSE IF row.attempt > 0 THEN "finalizing" ELSE "stopped",
              !.uncertain = @ \/ row.attempt > 0]

Interrupted(t) ==
  /\ Cancelled(task[t].job)
  /\ SetJob(task[t].job, InterruptedRow(Row(t)))
  /\ Go(t, "release")

\* The inspection that select! drops for the token; when both are ready either
\* branch may win, so the outcomes below do not ask whether it is cancelled.
InspectCancelled(t) ==
  /\ At(t, "inspect") /\ Interrupted(t)
  /\ UNCHANGED <<op, active, permit, process>>

InspectFailed(t) ==
  /\ At(t, "inspect")
  /\ Go(t, "retry")
  /\ UNCHANGED <<job, op, active, permit, process>>

\* Nothing to record, and nothing recorded before.
InspectRejected(t) ==
  /\ At(t, "inspect")
  /\ task[t].job \in Downloads \/ Row(t).attempt = 0
  /\ SetJob(task[t].job, [Row(t) EXCEPT !.state = "failed"])
  /\ Go(t, "release")
  /\ UNCHANGED <<op, active, permit, process>>

InspectUpcoming(t) ==
  /\ At(t, "inspect") /\ task[t].job \notin Downloads
  /\ SetJob(task[t].job, [Row(t) EXCEPT !.state = "waiting"])
  /\ Go(t, "release")
  /\ UNCHANGED <<op, active, permit, process>>

\* The broadcast ended between two attempts.
InspectEnded(t) ==
  /\ At(t, "inspect") /\ task[t].job \notin Downloads /\ Row(t).attempt > 0
  /\ Go(t, "finish")
  /\ UNCHANGED <<job, op, active, permit, process>>

Min2(n) == IF n > 2 THEN 2 ELSE n

AttemptRow(j, row) ==
  LET n == Min2(row.attempt + 1) IN
    [row EXCEPT !.attempt = n, !.state = "recording",
       !.uncertain = IF j \in Downloads THEN FALSE ELSE @ \/ n > 1,
       !.deadline = IF row.attempt = 0 /\ row.duration /\ @ = "none" THEN "set" ELSE @,
       !.duration = FALSE]
\* A defect: the attempt writes back the row its task was started with, losing
\* a stop request that arrived during the inspection.
AttemptRowStale(j, row) == [AttemptRow(j, row) EXCEPT !.stop = FALSE]
BeginRow(j, row) == AttemptRow(j, row)

BeginAttempt(t) ==
  /\ At(t, "inspect")
  /\ SetJob(task[t].job, BeginRow(task[t].job, Row(t)))
  /\ Go(t, "capture")
  /\ UNCHANGED <<op, active, permit, process>>

\* Lines of the capture process that change the row: a reported gap, and the
\* start of merging (not printed by a plain FFmpeg capture, the later attempts
\* of a live job). A progress line leaves the state at "recording".
CaptureReports(t) ==
  /\ At(t, "capture")
  /\ \/ SetJob(task[t].job, [Row(t) EXCEPT !.uncertain = TRUE])
     \/ /\ task[t].job \in Downloads \/ Row(t).attempt = 1
        /\ SetJob(task[t].job, [Row(t) EXCEPT !.state = "finalizing"])
  /\ UNCHANGED <<op, active, task, permit, process>>

CaptureEnds(t) ==
  /\ At(t, "capture")
  /\ Go(t, "captured")
  /\ UNCHANGED <<job, op, active, permit, process>>

CaptureFails(t) ==
  /\ At(t, "capture")
  /\ Go(t, "error")
  /\ UNCHANGED <<job, op, active, permit, process>>

\* `if state.store.job(&job.id)?.stop_requested`
AfterCapture(t) ==
  /\ At(t, "captured")
  /\ Go(t, IF Row(t).stop THEN "finish" ELSE "ended")
  /\ UNCHANGED <<job, op, active, permit, process>>

NaturalEnd(t) == task' = [task EXCEPT ![t].at = "finish", ![t].natural = TRUE]

\* The token first, then how the capture ended: downloads finish on success,
\* a live broadcast is inspected again, a failure is retried.
Ended(t) ==
  /\ At(t, "ended")
  /\ \/ Interrupted(t)
     \/ /\ ~Cancelled(task[t].job)
        /\ \/ task[t].job \in Downloads /\ NaturalEnd(t)
           \/ task[t].job \notin Downloads /\ Go(t, "reinspect")
           \/ Go(t, "retry")
        /\ UNCHANGED job
  /\ UNCHANGED <<op, active, permit, process>>

\* This inspection does not look at the token.
Reinspect(t) ==
  /\ At(t, "reinspect")
  /\ NaturalEnd(t) \/ Go(t, "retry")
  /\ UNCHANGED <<job, op, active, permit, process>>

\* A defect: the limit is compared for equality, and a job past it tries on.
RetryRowAtLimit(row) ==
  [row EXCEPT !.retries = @ + 1, !.uncertain = @ \/ row.attempt > 0,
              !.state = IF row.retries = MaxRetries THEN "failed" ELSE "reconnecting"]

RetryRow(row) ==
  [row EXCEPT !.retries = @ + 1, !.uncertain = @ \/ row.attempt > 0,
              !.state = IF row.retries + 1 > MaxRetries THEN "failed" ELSE "reconnecting"]

RetryLater(t) ==
  /\ At(t, "retry")
  /\ LET row == RetryRow(Row(t)) IN
       /\ SetJob(task[t].job, row)
       /\ Go(t, IF row.state = "failed" /\ row.attempt > 0 THEN "finish" ELSE "release")
  /\ UNCHANGED <<op, active, permit, process>>

----------------------------------------------------------------------------
\* finish, shared by the recorder, the scheduler and both recoveries, and the
\* file work that waits for the same permit.

FinishBegins(t) ==
  /\ At(t, "finish")
  /\ SetJob(task[t].job, [Row(t) EXCEPT !.state = "finalizing"])
  /\ Go(t, "queue")
  /\ UNCHANGED <<op, active, permit, process>>

Acquire(t) ==
  /\ At(t, "queue") /\ permit = None
  /\ permit' = t
  /\ Go(t, IF task[t].role \in Finishers THEN "verify" ELSE "work")
  /\ UNCHANGED <<job, op, active, process>>

\* A defect: a recording with unaccounted media counts as complete.
VerdictUncertain(row, natural, good, whole) ==
  IF natural /\ good /\ whole /\ ~row.stop THEN "completed"
  ELSE IF row.stop THEN "stopped" ELSE "partial"
Verdict(row, natural, good, whole) ==
  IF natural /\ good /\ whole /\ ~row.stop /\ ~row.uncertain THEN "completed"
  ELSE IF row.stop THEN "stopped" ELSE "partial"

\* The ledgers are hashed and the outputs probed; then the row is read once
\* more for the verdict, which the next step writes.
Verify(t) ==
  /\ At(t, "verify")
  /\ \E intact, playable \in BOOLEAN :
       LET j == task[t].job
           row == [job[j] EXCEPT !.uncertain = @ \/ ~intact]
           whole == j \in Downloads \/ row.attempt = 1
       IN /\ SetJob(j, row)
          /\ task' = [task EXCEPT ![t].at = "commit", ![t].verdict =
                        Verdict(row, task[t].natural, intact /\ playable, whole)]
  /\ UNCHANGED <<op, active, permit, process>>

Commit(t) ==
  /\ At(t, "commit")
  /\ SetJob(task[t].job, [Row(t) EXCEPT !.state =
       IF task[t].verdict = "partial" /\ Row(t).attempt = 0 THEN "failed" ELSE task[t].verdict])
  /\ Go(t, "publish")
  /\ UNCHANGED <<op, active, permit, process>>

\* The manifest and the event are on disk; the permit is dropped.
Published(t) ==
  /\ At(t, "publish")
  /\ permit' = None /\ Go(t, "release")
  /\ UNCHANGED <<job, op, active, process>>

\* Any `?` between acquiring the permit and the end.
FinishFails(t) ==
  /\ up /\ task[t].at \in {"verify", "commit", "publish"}
  /\ permit' = None /\ Go(t, "error")
  /\ UNCHANGED <<job, op, active, process>>

\* What the spawning task makes of an error.
TaskError(t) ==
  /\ At(t, "error")
  /\ SetJob(task[t].job, [Row(t) EXCEPT !.state =
       IF task[t].role # "record" \/ ((@ = "finalizing" \/ Row(t).stop) /\ Row(t).attempt > 0)
       THEN "partial" ELSE "failed"])
  /\ Go(t, "release")
  /\ UNCHANGED <<op, active, permit, process>>

\* The files are gone, then the row.
DeleteCommit(t) ==
  /\ At(t, "work") /\ task[t].role = "delete"
  /\ SetJob(task[t].job, NewRow("deleted", "none", FALSE))
  /\ permit' = None /\ Go(t, "release")
  /\ UNCHANGED <<op, active, process>>

\* Cleanup, export or render, done or failed; a deletion that failed.
WorkDone(t) ==
  /\ At(t, "work")
  /\ permit' = None /\ Go(t, "release")
  /\ UNCHANGED <<job, op, active, process>>

\* A queued cleanup reserves the job a second time after its preview.
Release(t) ==
  /\ At(t, "release")
  /\ active' = [active EXCEPT ![task[t].job] = "free"]
  /\ \/ task[t].role \notin OpRoles /\ task' = [task EXCEPT ![t] = Idle]
     \/ /\ task[t].role \in OpRoles
        /\ task' = [task EXCEPT ![t] = Running(task[t].role, "settle", task[t].job)]
     \/ /\ task[t].role = "work"
        /\ task' = [task EXCEPT ![t] = Running("work", "claimed", task[t].job)]
  /\ UNCHANGED <<job, op, permit, process>>

----------------------------------------------------------------------------
\* The operation worker: one operation at a time.

Claim(t, j, kind) ==
  /\ up /\ shutdown = "no" /\ ~installing /\ ~OpActive
  /\ op[j][kind] = "queued" /\ Free(j)
  /\ SetOp(j, kind, "running")
  /\ Spawn(t, kind, "claimed", j)
  /\ UNCHANGED <<job, active, permit, process>>

OpReserve(t) ==
  /\ At(t, "claimed")
  /\ LET j == task[t].job IN
       \/ /\ Free(j) /\ shutdown = "no" /\ task[t].role = "work"
          /\ Reserve(j) /\ Go(t, "queue")
          /\ UNCHANGED job
       \/ /\ Free(j) /\ shutdown = "no" /\ task[t].role = "recovery" /\ job[j].attempt > 0
          /\ SetJob(j, RecoveringRow(j))
          /\ Reserve(j) /\ Go(t, "finish")
  /\ UNCHANGED <<op, permit, process>>

OpRefused(t) ==
  /\ At(t, "claimed")
  /\ \/ ~Free(task[t].job) \/ shutdown # "no"
     \/ task[t].role = "recovery" /\ Row(t).attempt = 0
  /\ Go(t, "settle")
  /\ UNCHANGED <<job, op, active, permit, process>>

\* Completed, failed or cancelled; an error during the shutdown queues it again.
OpSettle(t) ==
  /\ At(t, "settle")
  /\ \E value \in {"none", "queued"} :
       /\ value = "queued" => shutdown # "no"
       /\ SetOp(task[t].job, task[t].role, value)
  /\ task' = [task EXCEPT ![t] = Idle]
  /\ UNCHANGED <<job, active, permit, process>>

----------------------------------------------------------------------------
\* The process.

NothingReserved == \A j \in Job : Free(j)

\* POST /tools/install and its background task. A defect: it only looks at the
\* reservations, not at an operation that is about to reserve.
MayInstallReservations == NothingReserved
MayInstall == NothingReserved /\ ~OpActive

Install ==
  /\ up /\ shutdown = "no" /\ MayInstall /\ ~installing
  /\ installing' = TRUE
  /\ UNCHANGED <<job, op, active, task, permit, shutdown, up, restarts>>

InstallEnds ==
  /\ up /\ installing
  /\ installing' = FALSE
  /\ UNCHANGED <<job, op, active, task, permit, shutdown, up, restarts>>

\* POST /shutdown or a termination signal.
RequestShutdown ==
  /\ up /\ shutdown = "no" /\ restarts < MaxRestarts
  /\ shutdown' = "forced"
  /\ UNCHANGED <<job, op, active, task, permit, installing, up, restarts>>

\* A defect as in Install.
MayShutdownReservations ==
  NothingReserved /\ ~installing /\ \A j \in Job : job[j].state \notin ActiveStates
MayShutdownIdle ==
  /\ NothingReserved /\ ~OpActive /\ ~installing
  /\ \A j \in Job : job[j].state \notin ActiveStates

\* POST /shutdown/idle, sent before an update is installed.
IdleShutdown ==
  /\ up /\ shutdown = "no" /\ restarts < MaxRestarts
  /\ MayShutdownIdle
  /\ shutdown' = "idle"
  /\ UNCHANGED <<job, op, active, task, permit, installing, up, restarts>>

\* The process is gone. What it remembered is of no use to any step until the
\* next start resets it; the properties can tell what was interrupted.
Down ==
  /\ up' = FALSE
  /\ UNCHANGED <<job, op, memory, restarts>>

\* Service.run joins the scheduler's tasks and the operation worker; a task
\* that a request spawned is not waited for.
Exit ==
  /\ up /\ shutdown # "no"
  /\ \A t \in Task : task[t].role \notin {"record", "finish"} \cup OpRoles
  /\ Down

Crash == up /\ restarts < MaxRestarts /\ Down

\* recover_operations, of a running recovery.
OperationRecovered(running, row) ==
  IF running /\ row.state = "finalizing"
  THEN [row EXCEPT !.state = "partial", !.stop = TRUE] ELSE row

\* recover_interrupted
JobRecovered(row) ==
  IF row.state \in ActiveStates /\ ~(row.state = "finalizing" /\ row.stop)
  THEN [row EXCEPT !.uncertain = TRUE,
          !.state = IF ~row.stop THEN "queued"
                    ELSE IF row.attempt > 0 THEN "finalizing" ELSE "stopped"]
  ELSE row

\* A defect: the jobs are recovered before the operations.
StartRowSwapped(running, row) == OperationRecovered(running, JobRecovered(row))
StartRow(running, row) == JobRecovered(OperationRecovered(running, row))

\* Service.run up to its tasks. A running operation is queued again, or dropped
\* when it was a render whose cancellation had been requested.
Start ==
  /\ ~up
  /\ job' = [j \in Job |-> StartRow(op[j]["recovery"] = "running", job[j])]
  /\ \E dropped \in SUBSET {j \in Job : op[j]["work"] = "running"} :
       op' = [j \in Job |-> [k \in OpRoles |->
                IF op[j][k] # "running" THEN op[j][k]
                ELSE IF k = "work" /\ j \in dropped THEN "none" ELSE "queued"]]
  /\ active' = [j \in Job |-> "free"] /\ task' = [t \in Task |-> Idle]
  /\ permit' = None /\ installing' = FALSE /\ shutdown' = "no"
  /\ up' = TRUE /\ restarts' = restarts + 1

\* A deadline passes.
Expire(j) ==
  /\ Exists(j) /\ job[j].deadline = "set"
  /\ SetJob(j, [job[j] EXCEPT !.deadline = "due"])
  /\ UNCHANGED <<op, memory, up, restarts>>

----------------------------------------------------------------------------
Request(j) ==
  \/ AddJob(j)
  \/ "stop" \in Requests /\ Stop(j)
  \/ "retry" \in Requests /\ Retry(j)
  \/ "protect" \in Requests /\ Protect(j)
  \/ "schedule" \in Requests /\ Schedule(j)
  \/ "recover" \in Requests /\ \E t \in Task : Recover(t, j)
  \/ \E t \in Task, role \in {"delete", "files"} \cap Requests : Maintain(t, j, role)
  \/ \E kind \in OpRoles \cap Requests : Enqueue(j, kind) \/ CancelOperation(j, kind)

Scheduler(j) ==
  \/ ScheduledCancel(j) \/ ScheduledDrop(j)
  \/ \E t \in Task : FinalizeStopped(t, j) \/ ScheduledFinish(t, j)

Worker == \E t \in Task, j \in Job, kind \in OpRoles : Claim(t, j, kind)

RunJob(t) ==
  \/ Prepare(t) \/ InspectCancelled(t) \/ InspectFailed(t) \/ InspectRejected(t)
  \/ InspectUpcoming(t) \/ InspectEnded(t) \/ BeginAttempt(t)
  \/ AfterCapture(t) \/ Ended(t) \/ Reinspect(t) \/ RetryLater(t)

Finish(t) ==
  \/ FinishBegins(t) \/ Verify(t) \/ Commit(t) \/ Published(t)
  \/ FinishFails(t) \/ TaskError(t)

Maintenance(t) ==
  \/ DeleteCommit(t) \/ WorkDone(t) \/ Release(t)
  \/ OpReserve(t) \/ OpRefused(t) \/ OpSettle(t)

Capture(t) == CaptureReports(t) \/ CaptureEnds(t) \/ CaptureFails(t)

Process == ("install" \in Requests /\ Install) \/ InstallEnds \/ RequestShutdown \/ IdleShutdown \/ Exit \/ Crash \/ Start

Next ==
  \/ \E j \in Job : Request(j) \/ Scheduler(j) \/ Expire(j)
  \/ \E t \in Task, j \in Job : StartRecording(t, j)
  \/ \E t \in Task : RunJob(t) \/ Capture(t) \/ Acquire(t) \/ Finish(t) \/ Maintenance(t)
  \/ Worker
  \/ Process

Spec == Init /\ [][Next]_vars

\* A capture ends by itself only while it merges; a cancelled one is given 30
\* seconds before its worker is killed.
CaptureStopped(t) ==
  /\ CaptureEnds(t)
  /\ Cancelled(task[t].job) \/ Row(t).state = "finalizing"

\* What the program does by itself: its tasks run (an inspection has a timeout),
\* the permit is handed out in the order of the waiters, the scheduler ticks
\* until the shutdown, which admits no new request or tick and so reaches its
\* end. The service is started again when it is down.
Fairness ==
  /\ \A t \in Task : WF_vars(RunJob(t) \/ CaptureStopped(t) \/ Finish(t) \/ Maintenance(t))
  /\ \A t \in Task : SF_vars(Acquire(t))
  /\ \A j \in Job : WF_vars(shutdown = "no" /\ Scheduler(j))
  /\ SF_vars(Exit)
  /\ WF_vars(Start)

FairSpec == Spec /\ Fairness

----------------------------------------------------------------------------
VariablesTyped ==
  /\ job \in [Job -> JobRow]
  /\ op \in [Job -> [OpRoles -> OpStates]]
  /\ active \in [Job -> {"free", "held", "cancelled"}]
  /\ task \in [Task -> TaskRow]
  /\ permit \in Task \cup {None}
  /\ installing \in BOOLEAN /\ shutdown \in {"no", "forced", "idle"} /\ up \in BOOLEAN
  /\ restarts \in 0..MaxRestarts

\* The counter of the retries passes the limit by one, and by one more for each
\* restart: a job whose finalizing after the last retry was cut short is queued
\* again with its counter, and gets a single try.
RetriesBounded == \A j \in Job : job[j].retries <= MaxRetries + 1 + restarts

TypeOK == VariablesTyped /\ RetriesBounded

Reserved(t) == task[t].at \notin Unreserved

\* The reservations are exactly the running tasks' and nobody shares one: no
\* two tasks touch a job's files at once, and no reservation is left behind.
ReservationOwned ==
  /\ \A t \in Task : Reserved(t) => ~Free(task[t].job)
  /\ \A t, u \in Task : Reserved(t) /\ Reserved(u) /\ task[t].job = task[u].job => t = u
  /\ \A j \in Job : ~Free(j) => \E t \in Task : Reserved(t) /\ task[t].job = j

\* max_recordings bounds the jobs that inspect, capture or wait for the outcome
\* of a capture, although the scheduler counts other things (line 90).
RecordingLimit == Cardinality({t \in Task : task[t].at \in Recording}) <= MaxRecordings

\* A job with an unfinished operation is settled, or being recovered by that
\* operation: neither a retry nor a restart records over files an operation uses.
OperationsOnSettledJobs ==
  \A j \in Job : HasOperations(j) =>
    Terminal(j) \/ (job[j].state = "finalizing" /\ op[j]["recovery"] = "running")

\* A job that is in progress is in some task's hands, or is a stopped one that
\* the scheduler will finalize: nothing is left in progress for ever.
NoAbandonedJob ==
  \A j \in Job : up /\ Free(j) =>
    /\ job[j].state \notin {"preparing", "recording"}
    /\ job[j].state = "finalizing" => job[j].stop

\* A completed recording lost nothing that the service noticed: neither a second
\* attempt of a live broadcast nor a gap, a broken ledger or a crash.
CompletedIsContinuous ==
  \A j \in Job : job[j].state = "completed" =>
    ~job[j].uncertain /\ (j \in Downloads \/ job[j].attempt = 1)

\* The engine is not replaced under a recording or a queued operation.
InstallIsolated ==
  installing => \A t \in Task : task[t].role \notin {"record"} \cup OpRoles

\* A shutdown for an update, accepted when nothing ran, interrupts nothing:
\* only the finalizing of a stop that was under way starts after it.
IdleShutdownInterruptsNothing ==
  shutdown = "idle" => \A t \in Task : task[t].role \in {"none", "finish"}

\* Protection decided before or during a deletion's wait for the permit holds.
ProtectedNeverDeleted ==
  [][\A j \in Job : job[j].protected /\ Exists(j) => Exists(j)']_vars

\* A stop request is not lost while a task runs the job: it is withdrawn by a
\* retry or a recovery of an unreserved job alone (db.rs: "a progress update
\* must not erase a stop request").
StopSurvivesRunningTask ==
  [][\A j \in Job : job[j].stop /\ ~job'[j].stop => Free(j) \/ job'[j].state = "deleted"]_vars

\* A recovery operation that a crash interrupts is not turned into a recording.
RecoveryOperationNeverRecords ==
  [][\A j \in Job : op[j]["recovery"] = "running" => job'[j].state # "queued"]_vars

\* A deadline ends the job: it settles, unless the deadline is changed.
DeadlineHonored ==
  \A j \in Job : (Exists(j) /\ ~Terminal(j) /\ job[j].deadline = "due")
                   ~> (Terminal(j) \/ job[j].deadline # "due")

\* Whoever holds a job gives it back once it has been told to stop.
CancelledReleases ==
  \A j \in Job : (active[j] = "cancelled") ~> Free(j)

\* A shutdown ends the process, whatever runs.
ShutdownCompletes == (shutdown # "no") ~> ~up

\* A stopped job's material is finalized, across restarts.
StoppedMaterialSettles ==
  \A j \in Job : (job[j].state = "finalizing" /\ job[j].stop /\ Free(j))
                   ~> (Terminal(j) \/ ~job[j].stop)

\* README: "A user-stopped recording is shown as Saved when its captured files
\* are retained": a stop of a recording that has captured something settles it.
StopSettles ==
  \A j \in Job : (job[j].stop /\ job[j].attempt > 0 /\ ~Terminal(j))
                   ~> (Terminal(j) \/ ~job[j].stop)

\* README: "Jobs that were not explicitly stopped can resume on the next service
\* start": a restart in the middle of repairing the files of a recorded job does
\* not start to record it again.
RecoveryNeverRecords ==
  [][\A j \in Job : \A t \in Task :
       task[t].role = "recover" /\ task[t].job = j => job'[j].state # "queued"]_vars

=============================================================================
