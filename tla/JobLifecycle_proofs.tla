------------------------ MODULE JobLifecycle_proofs ------------------------
(***************************************************************************)
(* What TLAPS proves of the job lifecycle for any number of jobs, tasks,   *)
(* retries and restarts.                                                   *)
(***************************************************************************)
EXTENDS JobLifecycle, FiniteSetTheorems, TLAPS

----------------------------------------------------------------------------
\* The strengthening of VariablesTyped: what a task's phase says of its role, its job
\* and its verdict, and that the process goes down a bounded number of times.
Finishing == {"finish", "verify", "commit", "publish", "error"}

Fits(role, phase) ==
  /\ role \in Roles
  /\ phase \in Recording => role = "record"
  /\ phase \in Finishing => role \in Finishers
  /\ phase = "work" => role \notin Finishers
  /\ phase \in {"claimed", "settle"} => role \in OpRoles

TaskOK ==
  \A t \in Task :
    \/ task[t].at = "idle" /\ task[t].role = "none"
    \/ /\ task[t].at # "idle" /\ Fits(task[t].role, task[t].at) /\ task[t].job \in Job
       /\ task[t].at = "commit" => task[t].verdict # "none"

BoundOK == (~up \/ shutdown # "no") => restarts < MaxRestarts

TypeInv == VariablesTyped /\ TaskOK /\ BoundOK

----------------------------------------------------------------------------
\* Lemmas about the helpers that update the tables.

LEMMA Counts ==
  /\ 0 \in Attempts
  /\ \A n \in Attempts : Min2(n + 1) \in Attempts
BY DEF Attempts, Min2

LEMMA SetJobTyped ==
  ASSUME job \in [Job -> JobRow], NEW j \in Job, NEW row \in JobRow, SetJob(j, row)
  PROVE  job' \in [Job -> JobRow]
BY DEF SetJob

\* Any state of the machine may be written into a row.
LEMMA StateTyped ==
  ASSUME NEW row \in JobRow, NEW state \in JobStates
  PROVE  [row EXCEPT !.state = state] \in JobRow
BY DEF JobRow

LEMMA IdleTyped == Idle \in TaskRow
BY DEF Idle, TaskRow

LEMMA GoTyped ==
  ASSUME VariablesTyped, TaskOK, NEW t \in Task, NEW phase \in Phases \ {"commit"},
         Busy(t), Fits(task[t].role, phase), Go(t, phase)
  PROVE  task' \in [Task -> TaskRow] /\ TaskOK'
<1>1. task \in [Task -> TaskRow]
  BY DEF VariablesTyped
<1>2. task' \in [Task -> TaskRow]
  BY <1>1 DEF Go, TaskRow
<1>3. phase # "idle"
  BY DEF Phases
<1>4. task[t].job \in Job
  BY DEF TaskOK, Busy
<1>5. \A u \in Task : u # t => task'[u] = task[u]
  BY <1>1 DEF Go
<1>6. task'[t].at = phase /\ task'[t].role = task[t].role /\ task'[t].job = task[t].job
  BY <1>1 DEF Go, TaskRow
<1> QED
  BY <1>2, <1>3, <1>4, <1>5, <1>6 DEF TaskOK

LEMMA SpawnTyped ==
  ASSUME VariablesTyped, TaskOK, NEW t \in Task, NEW j \in Job, NEW role \in Roles,
         NEW phase \in Phases \ {"commit"}, Fits(role, phase), Spawn(t, role, phase, j)
  PROVE  task' \in [Task -> TaskRow] /\ TaskOK'
<1>1. task \in [Task -> TaskRow]
  BY DEF VariablesTyped
<1>2. Running(role, phase, j) \in TaskRow
  BY DEF Running, TaskRow, Idle
<1>3. task' \in [Task -> TaskRow] /\ task'[t] = Running(role, phase, j)
  BY <1>1, <1>2 DEF Spawn
<1>4. \A u \in Task : u # t => task'[u] = task[u]
  BY <1>1 DEF Spawn
<1>5. phase # "idle"
  BY DEF Phases
<1>6. task'[t].at = phase /\ task'[t].role = role /\ task'[t].job = j
  BY <1>3 DEF Running, Idle
<1> QED
  BY <1>3, <1>4, <1>5, <1>6 DEF TaskOK

LEMMA IdleOK ==
  ASSUME VariablesTyped, TaskOK, NEW t \in Task, task' = [task EXCEPT ![t] = Idle]
  PROVE  task' \in [Task -> TaskRow] /\ TaskOK'
<1>1. task \in [Task -> TaskRow]
  BY DEF VariablesTyped
<1>2. task'[t].at = "idle" /\ task'[t].role = "none"
  BY <1>1 DEF Idle
<1> QED BY <1>1, <1>2, IdleTyped DEF TaskOK

----------------------------------------------------------------------------
\* The jobs' rows.

LEMMA RequestKeepsRows ==
  ASSUME TypeInv, NEW j \in Job, Request(j) \/ Scheduler(j) \/ Expire(j)
  PROVE  job' \in [Job -> JobRow]
<1> USE DEF JobRow, JobStates, ActiveStates, TerminalStates, Free, Terminal
<1>0. job \in [Job -> JobRow] /\ job[j] \in JobRow
  BY DEF TypeInv, VariablesTyped
<1>1. CASE AddJob(j)
  BY <1>1, <1>0, Counts DEF AddJob, NewRow, SetJob
<1>2. CASE Stop(j)
  <2>1. StoppedRow(j) \in JobRow
    BY <1>0 DEF StoppedRow
  <2> QED BY <1>2, <1>0, <2>1, SetJobTyped DEF Stop
<1>3. CASE Retry(j)
  BY <1>3, <1>0, Counts DEF Retry, SetJob
<1>4. CASE Protect(j)
  BY <1>4, <1>0 DEF Protect, SetJob
<1>5. CASE Schedule(j)
  <2> PICK d \in {"none", "set"}, b \in BOOLEAN :
         SetJob(j, [job[j] EXCEPT !.deadline = d, !.duration = b])
    BY <1>5 DEF Schedule
  <2>1. [job[j] EXCEPT !.deadline = d, !.duration = b] \in JobRow
    BY <1>0
  <2> QED BY <1>0, <2>1, SetJobTyped
<1>6. CASE \E t \in Task : Recover(t, j)
  <2>1. RecoveringRow(j) \in JobRow
    BY <1>0 DEF RecoveringRow
  <2> QED BY <1>6, <1>0, <2>1, SetJobTyped DEF Recover
<1>7. CASE \E t \in Task, role \in {"delete", "files"} : Maintain(t, j, role)
  BY <1>7, <1>0 DEF Maintain
<1>8. CASE \E kind \in OpRoles : Enqueue(j, kind) \/ CancelOperation(j, kind)
  BY <1>8, <1>0 DEF Enqueue, CancelOperation
<1>9. CASE ScheduledCancel(j)
  BY <1>9, <1>0 DEF ScheduledCancel, SetJob
<1>10. CASE ScheduledDrop(j)
  BY <1>10, <1>0 DEF ScheduledDrop, SetJob
<1>11. CASE \E t \in Task : FinalizeStopped(t, j)
  BY <1>11, <1>0 DEF FinalizeStopped
<1>12. CASE \E t \in Task : ScheduledFinish(t, j)
  BY <1>12, <1>0 DEF ScheduledFinish, SetJob
<1>13. CASE Expire(j)
  BY <1>13, <1>0 DEF Expire, SetJob
<1> QED
  BY <1>1, <1>2, <1>3, <1>4, <1>5, <1>6, <1>7, <1>8, <1>9, <1>10, <1>11, <1>12, <1>13
  DEF Request, Scheduler

LEMMA TaskKeepsRows ==
  ASSUME TypeInv, NEW t \in Task, RunJob(t) \/ Capture(t) \/ Finish(t) \/ Maintenance(t)
  PROVE  job' \in [Job -> JobRow]
<1> DEFINE j == task[t].job
<1> USE DEF JobRow, JobStates, ActiveStates, TerminalStates, Row
<1>0. up /\ Busy(t)
  BY DEF RunJob, Capture, Finish, Maintenance, At, Busy, Prepare, InspectCancelled,
    InspectFailed, InspectRejected, InspectUpcoming, InspectEnded, BeginAttempt,
    CaptureReports, CaptureEnds, CaptureFails, AfterCapture, Ended, Reinspect, RetryLater,
    FinishBegins, Verify, Commit, Published, FinishFails, TaskError, DeleteCommit,
    WorkDone, Release, OpReserve, OpRefused, OpSettle
<1>1. j \in Job /\ job \in [Job -> JobRow] /\ job[j] \in JobRow
  BY <1>0 DEF TypeInv, VariablesTyped, TaskOK, Busy
<1>2. CASE Prepare(t)
  BY <1>1, <1>2 DEF Prepare, SetJob
<1>3. ASSUME Interrupted(t) PROVE job' \in [Job -> JobRow]
  <2>1. InterruptedRow(job[j]) \in JobRow
    BY <1>1 DEF InterruptedRow
  <2> QED BY <1>1, <1>3, <2>1, SetJobTyped DEF Interrupted
<1>4. CASE InspectCancelled(t)
  BY <1>3, <1>4 DEF InspectCancelled
<1>5. CASE InspectRejected(t) \/ InspectUpcoming(t)
  BY <1>1, <1>5 DEF InspectRejected, InspectUpcoming, SetJob
<1>6. CASE BeginAttempt(t)
  <2>1. Min2(job[j].attempt + 1) \in Attempts
    BY <1>1, Counts
  <2>2. BeginRow(j, job[j]) \in JobRow
    BY <1>1, <2>1 DEF BeginRow, AttemptRow
  <2> QED BY <1>1, <1>6, <2>2, SetJobTyped DEF BeginAttempt
<1>7. CASE CaptureReports(t)
  <2>1. [job[j] EXCEPT !.uncertain = TRUE] \in JobRow
    BY <1>1
  <2>2. [job[j] EXCEPT !.state = "finalizing"] \in JobRow
    BY <1>1
  <2> QED BY <1>1, <1>7, <2>1, <2>2, SetJobTyped DEF CaptureReports
<1>8. CASE Ended(t)
  BY <1>1, <1>3, <1>8 DEF Ended
<1>9. CASE RetryLater(t)
  <2>1. RetryRow(job[j]) \in JobRow
    <3>1. job[j].retries \in Nat /\ job[j].retries + 1 \in Nat
      BY <1>1
    <3>2. \A state \in {"failed", "reconnecting"}, b \in BOOLEAN :
            [job[j] EXCEPT !.retries = @ + 1, !.uncertain = b, !.state = state] \in JobRow
      BY <1>1, <3>1
    <3> QED BY <1>1, <3>2 DEF RetryRow
  <2> QED BY <1>1, <1>9, <2>1, SetJobTyped DEF RetryLater
<1>10. CASE FinishBegins(t)
  BY <1>1, <1>10 DEF FinishBegins, SetJob
<1>11. CASE Verify(t)
  <2> PICK intact \in BOOLEAN : SetJob(j, [job[j] EXCEPT !.uncertain = @ \/ ~intact])
    BY <1>11 DEF Verify
  <2>1. [job[j] EXCEPT !.uncertain = @ \/ ~intact] \in JobRow
    BY <1>1
  <2> QED BY <1>1, <2>1, SetJobTyped
<1>12. CASE Commit(t)
  <2>1. task[t].verdict \in {"completed", "stopped", "partial"}
    BY <1>12 DEF Commit, At, TypeInv, VariablesTyped, TaskOK, TaskRow
  <2> QED BY <1>1, <1>12, <2>1 DEF Commit, SetJob
<1>13. CASE TaskError(t)
  BY <1>1, <1>13 DEF TaskError, SetJob
<1>14. CASE DeleteCommit(t)
  BY <1>1, <1>14, Counts DEF DeleteCommit, SetJob, NewRow
<1>15. CASE OpReserve(t)
  <2>1. RecoveringRow(j) \in JobRow
    BY <1>1 DEF RecoveringRow
  <2> QED BY <1>1, <1>15, <2>1, SetJobTyped DEF OpReserve
<1>16. CASE UNCHANGED job
  BY <1>1, <1>16
<1> QED
  BY <1>2, <1>4, <1>5, <1>6, <1>7, <1>8, <1>9, <1>10, <1>11, <1>12, <1>13, <1>14, <1>15, <1>16
  DEF RunJob, Capture, Finish, Maintenance, InspectFailed, InspectEnded, CaptureEnds,
    CaptureFails, AfterCapture, Reinspect, Published, FinishFails, WorkDone, Release,
    OpRefused, OpSettle

LEMMA StartKeepsRows ==
  ASSUME TypeInv, Start
  PROVE  job' \in [Job -> JobRow]
<1> SUFFICES ASSUME NEW j \in Job PROVE job'[j] \in JobRow
  BY DEF Start
<1> DEFINE row == OperationRecovered(op[j]["recovery"] = "running", job[j])
<1>1. row \in JobRow
  BY DEF TypeInv, VariablesTyped, OperationRecovered, JobRow, JobStates, TerminalStates
<1>2. JobRecovered(row) \in JobRow
  BY <1>1 DEF JobRecovered, JobRow, JobStates, TerminalStates, ActiveStates
<1> QED
  BY <1>2 DEF Start, StartRow

----------------------------------------------------------------------------
\* The tasks.

LEMMA RequestKeepsTasks ==
  ASSUME TypeInv, NEW j \in Job, Request(j) \/ Scheduler(j) \/ Expire(j)
  PROVE  task' \in [Task -> TaskRow] /\ TaskOK'
<1> USE DEF Fits, Phases, Roles, Recording, Finishing, Finishers, OpRoles
<1>0. VariablesTyped /\ TaskOK
  BY DEF TypeInv
<1>1. CASE \E t \in Task : Recover(t, j)
  BY <1>0, <1>1, SpawnTyped DEF Recover
<1>2. CASE \E t \in Task, role \in {"delete", "files"} : Maintain(t, j, role)
  BY <1>0, <1>2, SpawnTyped DEF Maintain
<1>3. CASE \E t \in Task : FinalizeStopped(t, j)
  BY <1>0, <1>3, SpawnTyped DEF FinalizeStopped
<1>4. CASE \E t \in Task : ScheduledFinish(t, j)
  BY <1>0, <1>4, SpawnTyped DEF ScheduledFinish
<1>5. CASE UNCHANGED task
  BY <1>0, <1>5 DEF VariablesTyped, TaskOK
<1> QED
  BY <1>1, <1>2, <1>3, <1>4, <1>5 DEF Request, Scheduler, AddJob, Stop, Retry, Protect,
    Schedule, Enqueue, CancelOperation, ScheduledCancel, ScheduledDrop, Expire, memory

LEMMA RunKeepsTasks ==
  ASSUME TypeInv, NEW t \in Task, RunJob(t) \/ Capture(t)
  PROVE  task' \in [Task -> TaskRow] /\ TaskOK'
<1> USE DEF Fits, Phases, Roles, Recording, Finishing, Finishers, OpRoles, At
<1>0. VariablesTyped /\ TaskOK
  BY DEF TypeInv
<1>1. task[t].at \in Recording /\ up
  BY DEF RunJob, Capture, Prepare, InspectCancelled, InspectFailed, InspectRejected,
    InspectUpcoming, InspectEnded, BeginAttempt, CaptureReports, CaptureEnds, CaptureFails,
    AfterCapture, Ended, Reinspect, RetryLater
<1>2. Busy(t) /\ task[t].role = "record"
  BY <1>0, <1>1 DEF Busy, TaskOK
<1>3. ASSUME NEW phase \in Recording \cup {"finish", "error", "release"}, Go(t, phase)
      PROVE  task' \in [Task -> TaskRow] /\ TaskOK'
  BY <1>0, <1>2, <1>3, GoTyped
<1>4. ASSUME NaturalEnd(t)
      PROVE  task' \in [Task -> TaskRow] /\ TaskOK'
  <2>1. task \in [Task -> TaskRow] /\ task[t].job \in Job
    BY <1>0, <1>2 DEF VariablesTyped, TaskOK, Busy
  <2>2. task' \in [Task -> TaskRow]
    <3>1. task[t] \in TaskRow
      BY <2>1
    <3>2. [task[t] EXCEPT !.at = "finish", !.natural = TRUE] \in TaskRow
      BY <3>1 DEF TaskRow
    <3> QED BY <1>4, <2>1, <3>2 DEF NaturalEnd
  <2>3. /\ task'[t].at = "finish" /\ task'[t].role = "record" /\ task'[t].job \in Job
        /\ \A u \in Task : u # t => task'[u] = task[u]
    BY <1>2, <1>4, <2>1 DEF NaturalEnd, TaskRow
  <2> QED BY <1>0, <2>2, <2>3 DEF TaskOK
<1>5. CASE Ended(t)
  BY <1>3, <1>4, <1>5 DEF Ended, Interrupted
<1>6. CASE Reinspect(t)
  BY <1>3, <1>4, <1>6 DEF Reinspect
<1>7. CASE RetryLater(t)
  BY <1>3, <1>7 DEF RetryLater
<1>8. CASE AfterCapture(t)
  BY <1>3, <1>8 DEF AfterCapture
<1>9. CASE CaptureReports(t)
  BY <1>0, <1>9 DEF CaptureReports, VariablesTyped, TaskOK
<1> QED
  BY <1>3, <1>5, <1>6, <1>7, <1>8, <1>9 DEF RunJob, Capture, Prepare, InspectCancelled,
    Interrupted, InspectFailed, InspectRejected, InspectUpcoming, InspectEnded,
    BeginAttempt, CaptureEnds, CaptureFails

LEMMA FinishKeepsTasks ==
  ASSUME TypeInv, NEW t \in Task, Acquire(t) \/ Finish(t) \/ Maintenance(t)
  PROVE  task' \in [Task -> TaskRow] /\ TaskOK'
<1> USE DEF Fits, Phases, Roles, Recording, Finishing, Finishers, OpRoles, At
<1>0. VariablesTyped /\ TaskOK
  BY DEF TypeInv
<1>1. Busy(t) /\ up
  BY DEF Acquire, Finish, Maintenance, Busy, FinishBegins, Verify, Commit, Published,
    FinishFails, TaskError, DeleteCommit, WorkDone, Release, OpReserve, OpRefused, OpSettle
<1>2. /\ task \in [Task -> TaskRow] /\ task[t].job \in Job
      /\ task[t].role \in Roles /\ Fits(task[t].role, task[t].at)
  BY <1>0, <1>1 DEF VariablesTyped, TaskOK, Busy
<1>3. ASSUME NEW phase \in {"queue", "publish", "error", "release", "settle"}, Go(t, phase),
             phase \in {"publish", "error"} => task[t].at \in Finishing,
             phase = "settle" => task[t].at = "claimed"
      PROVE  task' \in [Task -> TaskRow] /\ TaskOK'
  <2>1. Fits(task[t].role, phase)
    BY <1>2, <1>3
  <2> QED BY <1>0, <1>1, <1>3, <2>1, GoTyped
<1>4. CASE Acquire(t)
  <2>1. PICK phase \in {"verify", "work"} : Go(t, phase) /\ Fits(task[t].role, phase)
    BY <1>2, <1>4 DEF Acquire
  <2> QED BY <1>0, <1>1, <2>1, GoTyped
<1>5. CASE Verify(t)
  <2>1. PICK verdict \in {"completed", "stopped", "partial"} :
          task' = [task EXCEPT ![t].at = "commit", ![t].verdict = verdict]
    BY <1>5 DEF Verify, Verdict
  <2>2. task' \in [Task -> TaskRow]
    <3>1. task[t] \in TaskRow
      BY <1>2
    <3>2. [task[t] EXCEPT !.at = "commit", !.verdict = verdict] \in TaskRow
      BY <3>1 DEF TaskRow
    <3> QED BY <1>2, <2>1, <3>2
  <2>3. /\ task'[t].at = "commit" /\ task'[t].verdict # "none"
        /\ task'[t].role = task[t].role /\ task'[t].job = task[t].job
        /\ \A u \in Task : u # t => task'[u] = task[u]
    BY <1>2, <2>1 DEF TaskRow
  <2>4. task[t].role \in Finishers
    BY <1>2, <1>5 DEF Verify
  <2> QED BY <1>0, <1>2, <2>2, <2>3, <2>4 DEF TaskOK
<1>6. CASE FinishBegins(t) \/ Commit(t) \/ Published(t) \/ FinishFails(t) \/ TaskError(t)
  BY <1>3, <1>6 DEF FinishBegins, Commit, Published, FinishFails, TaskError
<1>7. CASE DeleteCommit(t) \/ WorkDone(t) \/ OpRefused(t)
  BY <1>3, <1>7 DEF DeleteCommit, WorkDone, OpRefused
<1>8. CASE OpSettle(t)
  BY <1>0, <1>8, IdleOK DEF OpSettle
<1>9. CASE OpReserve(t)
  <2>1. CASE Go(t, "queue")
    BY <1>3, <2>1
  <2>2. CASE Go(t, "finish") /\ task[t].role = "recovery"
    BY <1>0, <1>1, <2>2, GoTyped
  <2> QED BY <1>9, <2>1, <2>2 DEF OpReserve
<1>10. CASE Release(t)
  <2>1. CASE task' = [task EXCEPT ![t] = Idle]
    BY <1>0, <2>1, IdleOK
  <2>2. ASSUME NEW phase \in {"settle", "claimed"}, task[t].role \in OpRoles,
               task' = [task EXCEPT ![t] = Running(task[t].role, phase, task[t].job)]
        PROVE  task' \in [Task -> TaskRow] /\ TaskOK'
    <3>1. Running(task[t].role, phase, task[t].job) \in TaskRow
      BY <1>2, <2>2 DEF Running, Idle, TaskRow
    <3>2. /\ task' \in [Task -> TaskRow] /\ \A u \in Task : u # t => task'[u] = task[u]
          /\ task'[t] = Running(task[t].role, phase, task[t].job)
      BY <1>2, <2>2, <3>1
    <3>3. task'[t].at = phase /\ task'[t].role = task[t].role /\ task'[t].job = task[t].job
      BY <3>2 DEF Running, Idle
    <3> QED BY <1>0, <1>2, <2>2, <3>2, <3>3 DEF TaskOK
  <2> QED BY <1>10, <2>1, <2>2 DEF Release
<1> QED
  BY <1>4, <1>5, <1>6, <1>7, <1>8, <1>9, <1>10 DEF Finish, Maintenance

----------------------------------------------------------------------------
\* The other variables.
RestOK ==
  /\ op \in [Job -> [OpRoles -> OpStates]]
  /\ active \in [Job -> {"free", "held", "cancelled"}]
  /\ permit \in Task \cup {None}
  /\ installing \in BOOLEAN /\ shutdown \in {"no", "forced", "idle"} /\ up \in BOOLEAN
  /\ restarts \in 0..MaxRestarts
  /\ BoundOK

LEMMA RequestKeepsRest ==
  ASSUME TypeInv, NEW j \in Job, Request(j) \/ Scheduler(j) \/ Expire(j)
  PROVE  RestOK'
<1>0. RestOK
  BY DEF TypeInv, VariablesTyped, RestOK
<1>1. UNCHANGED <<permit, installing, shutdown, up, restarts>>
  BY DEF Request, Scheduler, Expire, AddJob, Stop, Retry, Protect, Schedule, Recover,
    Maintain, Enqueue, CancelOperation, ScheduledCancel, ScheduledDrop, FinalizeStopped,
    ScheduledFinish, memory, process
<1>2. active' \in [Job -> {"free", "held", "cancelled"}]
  BY <1>0 DEF RestOK, Request, Scheduler, Expire, AddJob, Stop, Retry, Protect, Schedule,
    Recover, Maintain, Enqueue, CancelOperation, ScheduledCancel, ScheduledDrop,
    FinalizeStopped, ScheduledFinish, memory, Reserve, Cancel
<1>3. op' \in [Job -> [OpRoles -> OpStates]]
  <2>1. CASE \E kind \in OpRoles : Enqueue(j, kind) \/ CancelOperation(j, kind)
    BY <1>0, <2>1 DEF RestOK, Enqueue, CancelOperation, SetOp, OpStates
  <2>2. CASE UNCHANGED op
    BY <1>0, <2>2 DEF RestOK
  <2> QED
    BY <2>1, <2>2 DEF Request, Scheduler, Expire, AddJob, Stop, Retry, Protect, Schedule,
      Recover, Maintain, ScheduledCancel, ScheduledDrop, FinalizeStopped, ScheduledFinish
<1> QED BY <1>0, <1>1, <1>2, <1>3 DEF RestOK, BoundOK

LEMMA TaskKeepsRest ==
  ASSUME TypeInv, NEW t \in Task,
         RunJob(t) \/ Capture(t) \/ Acquire(t) \/ Finish(t) \/ Maintenance(t)
  PROVE  RestOK'
<1>0. RestOK
  BY DEF TypeInv, VariablesTyped, RestOK
<1>1. UNCHANGED <<installing, shutdown, up, restarts>>
  BY DEF RunJob, Capture, Acquire, Finish, Maintenance, process, Prepare, InspectCancelled,
    InspectFailed, InspectRejected, InspectUpcoming, InspectEnded, BeginAttempt,
    CaptureReports, CaptureEnds, CaptureFails, AfterCapture, Ended, Reinspect, RetryLater,
    FinishBegins, Verify, Commit, Published, FinishFails, TaskError, DeleteCommit,
    WorkDone, Release, OpReserve, OpRefused, OpSettle
<1>2. CASE UNCHANGED <<op, active, permit>>
  BY <1>0, <1>1, <1>2 DEF RestOK, BoundOK
<1>3. CASE Acquire(t) \/ Published(t) \/ FinishFails(t) \/ DeleteCommit(t) \/ WorkDone(t)
  <2>1. permit' \in {t, None} /\ UNCHANGED <<op, active>>
    BY <1>3 DEF Acquire, Published, FinishFails, DeleteCommit, WorkDone
  <2> QED BY <1>0, <1>1, <2>1 DEF RestOK, BoundOK
<1>4. CASE Release(t) \/ OpReserve(t)
  <2>1. active' \in [Job -> {"free", "held", "cancelled"}] /\ UNCHANGED <<op, permit>>
    BY <1>0, <1>4 DEF RestOK, Release, OpReserve, Reserve
  <2> QED BY <1>0, <1>1, <2>1 DEF RestOK, BoundOK
<1>5. CASE OpSettle(t)
  <2>1. PICK value \in {"none", "queued"} : SetOp(task[t].job, task[t].role, value)
    BY <1>5 DEF OpSettle
  <2>2. op' \in [Job -> [OpRoles -> OpStates]] /\ UNCHANGED <<active, permit>>
    BY <1>0, <1>5, <2>1 DEF RestOK, OpSettle, SetOp, OpStates
  <2> QED BY <1>0, <1>1, <2>2 DEF RestOK, BoundOK
<1> QED
  BY <1>2, <1>3, <1>4, <1>5 DEF RunJob, Capture, Finish, Maintenance, Prepare,
    InspectCancelled, InspectFailed, InspectRejected, InspectUpcoming, InspectEnded,
    BeginAttempt, CaptureReports, CaptureEnds, CaptureFails, AfterCapture, Ended, Reinspect,
    RetryLater, FinishBegins, Verify, Commit, TaskError, OpRefused

LEMMA ProcessKeepsRest ==
  ASSUME TypeInv, Process
  PROVE  RestOK'
<1>0. RestOK
  BY DEF TypeInv, VariablesTyped, RestOK
<1>1. CASE Install \/ InstallEnds
  BY <1>0, <1>1 DEF RestOK, BoundOK, Install, InstallEnds
<1>2. CASE RequestShutdown \/ IdleShutdown
  BY <1>0, <1>2 DEF RestOK, BoundOK, RequestShutdown, IdleShutdown
<1>3. CASE Exit \/ Crash
  BY <1>0, <1>3 DEF RestOK, BoundOK, Exit, Crash, Down, memory
<1>4. CASE Start
  <2>1. op' \in [Job -> [OpRoles -> OpStates]]
    BY <1>0, <1>4 DEF RestOK, Start, OpStates
  <2>2. restarts' \in 0..MaxRestarts
    BY <1>0, <1>4, NatAssumption DEF RestOK, Start, BoundOK
  <2> QED BY <1>0, <1>4, <2>1, <2>2 DEF RestOK, Start, BoundOK
<1> QED BY <1>1, <1>2, <1>3, <1>4 DEF Process

----------------------------------------------------------------------------
LEMMA InitTyped == Init => TypeInv
<1> SUFFICES ASSUME Init PROVE TypeInv
  OBVIOUS
<1>1. job \in [Job -> JobRow]
  BY Counts DEF Init, JobRow, NewRow, JobStates
<1>2. task \in [Task -> TaskRow] /\ TaskOK
  BY IdleTyped DEF Init, TaskOK, Idle
<1>3. op \in [Job -> [OpRoles -> OpStates]]
  BY DEF Init, OpStates
<1>4. restarts \in 0..MaxRestarts
  BY NatAssumption DEF Init
<1> QED BY <1>1, <1>2, <1>3, <1>4 DEF Init, TypeInv, VariablesTyped, BoundOK

LEMMA NextTyped == TypeInv /\ [Next]_vars => TypeInv'
<1> SUFFICES ASSUME TypeInv, [Next]_vars PROVE TypeInv'
  OBVIOUS
<1>0. VariablesTyped /\ TaskOK /\ RestOK
  BY DEF TypeInv, VariablesTyped, RestOK
<1>1. ASSUME job' \in [Job -> JobRow], task' \in [Task -> TaskRow], TaskOK', RestOK'
      PROVE  TypeInv'
  BY <1>1 DEF TypeInv, VariablesTyped, RestOK
<1>2. CASE \E j \in Job : Request(j) \/ Scheduler(j) \/ Expire(j)
  BY <1>1, <1>2, RequestKeepsRows, RequestKeepsTasks, RequestKeepsRest
<1>3. CASE \E t \in Task : RunJob(t) \/ Capture(t)
  BY <1>1, <1>3, TaskKeepsRows, RunKeepsTasks, TaskKeepsRest
<1>4. CASE \E t \in Task : Acquire(t) \/ Finish(t) \/ Maintenance(t)
  <2>1. ASSUME NEW t \in Task, Acquire(t) PROVE job' \in [Job -> JobRow]
    BY <1>0, <2>1 DEF Acquire, VariablesTyped
  <2> QED BY <1>1, <1>4, <2>1, TaskKeepsRows, FinishKeepsTasks, TaskKeepsRest
<1>5. CASE \E t \in Task, j \in Job : StartRecording(t, j)
  <2> PICK t \in Task, j \in Job : StartRecording(t, j)
    BY <1>5
  <2>1. task' \in [Task -> TaskRow] /\ TaskOK'
    BY <1>0, SpawnTyped DEF StartRecording, Fits, Phases, Roles, Recording, Finishing
  <2>2. RestOK'
    BY <1>0 DEF StartRecording, RestOK, BoundOK, Reserve, process
  <2> QED BY <1>0, <1>1, <2>1, <2>2 DEF StartRecording, VariablesTyped
<1>6. CASE Worker
  <2> PICK t \in Task, j \in Job, kind \in OpRoles : Claim(t, j, kind)
    BY <1>6 DEF Worker
  <2>1. task' \in [Task -> TaskRow] /\ TaskOK'
    BY <1>0, SpawnTyped DEF Claim, Fits, Phases, Roles, Recording, Finishing
  <2>2. RestOK'
    BY <1>0 DEF Claim, RestOK, BoundOK, SetOp, OpStates, process
  <2> QED BY <1>0, <1>1, <2>1, <2>2 DEF Claim, VariablesTyped
<1>7. CASE Process
  <2>1. job' \in [Job -> JobRow]
    BY <1>0, <1>7, StartKeepsRows DEF Process, VariablesTyped, Install, InstallEnds,
      RequestShutdown, IdleShutdown, Exit, Crash, Down
  <2>2. CASE Start
    <3>1. task' = [t \in Task |-> Idle]
      BY <2>2 DEF Start
    <3>2. task' \in [Task -> TaskRow] /\ TaskOK'
      BY <3>1, IdleTyped DEF TaskOK, Idle
    <3> QED BY <1>1, <1>7, <2>1, <3>2, ProcessKeepsRest
  <2>3. CASE ~Start
    <3>1. UNCHANGED task
      BY <1>7, <2>3 DEF Process, Install, InstallEnds, RequestShutdown, IdleShutdown, Exit,
        Crash, Down, memory
    <3>2. task' \in [Task -> TaskRow] /\ TaskOK'
      BY <1>0, <3>1 DEF VariablesTyped, TaskOK
    <3> QED BY <1>1, <1>7, <2>1, <3>2, ProcessKeepsRest
  <2> QED BY <2>2, <2>3
<1>8. CASE UNCHANGED vars
  BY <1>8 DEF vars, process, TypeInv, VariablesTyped, TaskOK, BoundOK
<1> QED
  BY <1>2, <1>3, <1>4, <1>5, <1>6, <1>7, <1>8 DEF Next

LEMMA AlwaysTyped == Spec => []TypeInv
BY InitTyped, NextTyped, PTL DEF Spec

----------------------------------------------------------------------------
\* The reservations. Three kinds of step: the reservations and their holders
\* stay, an unreserved task takes a free job, or a holder gives its job back.

LEMMA HolderTyped ==
  ASSUME TypeInv
  PROVE  /\ active \in [Job -> {"free", "held", "cancelled"}]
         /\ \A t \in Task : Reserved(t) => task[t].job \in Job
BY DEF TypeInv, VariablesTyped, TaskOK, Reserved, Unreserved

LEMMA KeepHolders ==
  ASSUME TypeInv, ReservationOwned,
         \A j \in Job : Free(j)' <=> Free(j),
         \A t \in Task : Reserved(t)' <=> Reserved(t),
         \A t \in Task : Reserved(t) => task'[t].job = task[t].job
  PROVE  ReservationOwned'
BY HolderTyped DEF ReservationOwned, Free

LEMMA TakeJob ==
  ASSUME TypeInv, ReservationOwned, NEW t \in Task, NEW j \in Job,
         Free(j), Reserve(j), ~Reserved(t), Reserved(t)', task'[t].job = j,
         \A u \in Task : u # t => task'[u] = task[u]
  PROVE  ReservationOwned'
<1>1. \A i \in Job : active'[i] = "free" <=> i # j /\ active[i] = "free"
  BY HolderTyped DEF Free, Reserve
<1>2. \A u \in Task : u # t => /\ Reserved(u)' <=> Reserved(u)
                               /\ Reserved(u) => task[u].job # j
  BY DEF ReservationOwned, Reserved, Free
<1>3. \A u \in Task : Reserved(u)' => active'[task'[u].job] # "free"
  BY <1>1, <1>2, HolderTyped DEF ReservationOwned, Free, Reserved
<1>4. \A u, v \in Task :
        Reserved(u)' /\ Reserved(v)' /\ task'[u].job = task'[v].job => u = v
  BY <1>2, HolderTyped DEF ReservationOwned, Reserved
<1>5. ASSUME NEW i \in Job, active'[i] # "free"
      PROVE  \E u \in Task : Reserved(u)' /\ task'[u].job = i
  BY <1>1, <1>2, <1>5 DEF ReservationOwned, Free, Reserved
<1> QED BY <1>3, <1>4, <1>5 DEF ReservationOwned, Free, Reserved

LEMMA GiveBackJob ==
  ASSUME TypeInv, ReservationOwned, NEW t \in Task, Reserved(t), ~Reserved(t)',
         active' = [active EXCEPT ![task[t].job] = "free"],
         \A u \in Task : u # t => task'[u] = task[u]
  PROVE  ReservationOwned'
<1>1. \A i \in Job : active'[i] = "free" <=> i = task[t].job \/ active[i] = "free"
  BY HolderTyped
<1>2. \A u \in Task : u # t => /\ Reserved(u)' <=> Reserved(u)
                               /\ Reserved(u) => task[u].job # task[t].job
  BY DEF ReservationOwned, Reserved
<1>3. \A u \in Task : Reserved(u)' => active'[task'[u].job] # "free"
  BY <1>1, <1>2, HolderTyped DEF ReservationOwned, Free, Reserved
<1>4. \A u, v \in Task :
        Reserved(u)' /\ Reserved(v)' /\ task'[u].job = task'[v].job => u = v
  BY <1>2, HolderTyped DEF ReservationOwned, Reserved
<1>5. ASSUME NEW i \in Job, active'[i] # "free"
      PROVE  \E u \in Task : Reserved(u)' /\ task'[u].job = i
  BY <1>1, <1>2, <1>5 DEF ReservationOwned, Free, Reserved
<1> QED BY <1>3, <1>4, <1>5 DEF ReservationOwned, Free, Reserved

\* A spawned task holds the job that was free.
LEMMA SpawnTakes ==
  ASSUME TypeInv, ReservationOwned, NEW t \in Task, NEW j \in Job, NEW role \in Roles,
         NEW phase \in Phases \ Unreserved, Spawn(t, role, phase, j), Free(j), Reserve(j)
  PROVE  ReservationOwned'
<1>1. task \in [Task -> TaskRow]
  BY DEF TypeInv, VariablesTyped
<1>2. ~Reserved(t)
  BY DEF Spawn, Busy, Reserved, Unreserved
<1>3. task'[t].at = phase /\ task'[t].job = j
  BY <1>1 DEF Spawn, Running, Idle
<1>4. \A u \in Task : u # t => task'[u] = task[u]
  BY <1>1 DEF Spawn
<1>5. Reserved(t)'
  BY <1>3 DEF Reserved
<1> QED BY <1>2, <1>3, <1>4, <1>5, TakeJob

\* A task that only moves on keeps what it holds.
LEMMA GoKeeps ==
  ASSUME TypeInv, ReservationOwned, NEW t \in Task, UNCHANGED active,
         task[t].at \notin Unreserved, task'[t].at \notin Unreserved,
         task'[t].job = task[t].job, \A u \in Task : u # t => task'[u] = task[u]
  PROVE  ReservationOwned'
BY KeepHolders DEF Reserved, Free

LEMMA RequestKeepsHolders ==
  ASSUME TypeInv, ReservationOwned, NEW j \in Job, Request(j) \/ Scheduler(j) \/ Expire(j)
  PROVE  ReservationOwned'
<1> USE DEF Phases, Unreserved, Roles
<1>1. CASE \E t \in Task : Recover(t, j)
  BY <1>1, SpawnTakes DEF Recover
<1>2. CASE \E t \in Task, role \in {"delete", "files"} : Maintain(t, j, role)
  BY <1>2, SpawnTakes DEF Maintain, MayMaintain
<1>3. CASE \E t \in Task : FinalizeStopped(t, j)
  BY <1>3, SpawnTakes DEF FinalizeStopped, MayFinalize
<1>4. CASE \E t \in Task : ScheduledFinish(t, j)
  BY <1>4, SpawnTakes DEF ScheduledFinish
<1>5. CASE Stop(j) \/ ScheduledCancel(j)
  <2>1. UNCHANGED task /\ \A i \in Job : active'[i] = "free" <=> active[i] = "free"
    BY <1>5, HolderTyped DEF Stop, ScheduledCancel, Cancel, Free
  <2> QED BY <2>1, KeepHolders DEF Reserved, Free
<1>6. CASE UNCHANGED <<active, task>>
  BY <1>6, KeepHolders DEF Reserved, Free
<1> QED
  BY <1>1, <1>2, <1>3, <1>4, <1>5, <1>6 DEF Request, Scheduler, AddJob, Retry, Protect,
    Schedule, Enqueue, CancelOperation, ScheduledDrop, Expire, memory

LEMMA RunKeepsHolders ==
  ASSUME TypeInv, ReservationOwned, NEW t \in Task, RunJob(t) \/ Capture(t)
  PROVE  ReservationOwned'
<1> USE DEF Unreserved, Recording
<1>0. task \in [Task -> TaskRow]
  BY DEF TypeInv, VariablesTyped
<1>1. task[t].at \notin Unreserved
  BY DEF RunJob, Capture, At, Prepare, InspectCancelled, InspectFailed, InspectRejected,
    InspectUpcoming, InspectEnded, BeginAttempt, CaptureReports, CaptureEnds, CaptureFails,
    AfterCapture, Ended, Reinspect, RetryLater
<1>2. ASSUME NEW phase \in Phases \ Unreserved, Go(t, phase), UNCHANGED active
      PROVE  ReservationOwned'
  BY <1>0, <1>1, <1>2, GoKeeps DEF Go, TaskRow
<1>3. ASSUME NaturalEnd(t), UNCHANGED active
      PROVE  ReservationOwned'
  BY <1>0, <1>1, <1>3, GoKeeps DEF NaturalEnd, TaskRow
<1>4. CASE CaptureReports(t)
  BY <1>4, KeepHolders DEF CaptureReports, Reserved, Free
<1>5. CASE Ended(t)
  BY <1>2, <1>3, <1>5 DEF Ended, Interrupted, Phases
<1>6. CASE Reinspect(t)
  BY <1>2, <1>3, <1>6 DEF Reinspect, Phases
<1>7. CASE RetryLater(t)
  BY <1>2, <1>7 DEF RetryLater, Phases
<1>8. CASE AfterCapture(t)
  BY <1>2, <1>8 DEF AfterCapture, Phases
<1> QED
  BY <1>2, <1>4, <1>5, <1>6, <1>7, <1>8 DEF RunJob, Capture, Prepare, InspectCancelled,
    Interrupted, InspectFailed, InspectRejected, InspectUpcoming, InspectEnded,
    BeginAttempt, CaptureEnds, CaptureFails, Phases

LEMMA FinishKeepsHolders ==
  ASSUME TypeInv, ReservationOwned, NEW t \in Task,
         Acquire(t) \/ Finish(t) \/ Maintenance(t)
  PROVE  ReservationOwned'
<1> USE DEF Unreserved, At
<1>0. task \in [Task -> TaskRow]
  BY DEF TypeInv, VariablesTyped
<1>1. ASSUME NEW phase \in Phases \ Unreserved, Go(t, phase), UNCHANGED active,
             task[t].at \notin Unreserved
      PROVE  ReservationOwned'
  BY <1>0, <1>1, GoKeeps DEF Go, TaskRow
<1>2. CASE Verify(t)
  <2>1. PICK verdict : task' = [task EXCEPT ![t].at = "commit", ![t].verdict = verdict]
    BY <1>2 DEF Verify
  <2> QED BY <1>0, <1>2, <2>1, GoKeeps DEF Verify, TaskRow
<1>3. CASE Acquire(t)
  BY <1>1, <1>3 DEF Acquire, Phases
<1>4. CASE FinishBegins(t) \/ Commit(t) \/ Published(t) \/ FinishFails(t) \/ TaskError(t)
  BY <1>1, <1>4 DEF FinishBegins, Commit, Published, FinishFails, TaskError, Phases
<1>5. CASE DeleteCommit(t) \/ WorkDone(t)
  BY <1>1, <1>5 DEF DeleteCommit, WorkDone, Phases
<1>6. CASE OpReserve(t)
  <2>1. PICK phase \in {"queue", "finish"} : Go(t, phase)
    BY <1>6 DEF OpReserve
  <2>2. task'[t].job = task[t].job /\ Reserved(t)' /\ ~Reserved(t)
    BY <1>0, <1>6, <2>1 DEF OpReserve, Go, TaskRow, Reserved
  <2>3. \A u \in Task : u # t => task'[u] = task[u]
    BY <1>0, <2>1 DEF Go
  <2>4. task[t].job \in Job
    BY <1>6 DEF OpReserve, TypeInv, TaskOK
  <2> QED BY <1>6, <2>2, <2>3, <2>4, TakeJob DEF OpReserve
<1>7. CASE OpRefused(t) \/ OpSettle(t)
  <2>1. ~Reserved(t) /\ ~Reserved(t)' /\ UNCHANGED active
    BY <1>0, <1>7 DEF OpRefused, OpSettle, Go, Idle, Reserved, TaskRow
  <2>2. \A u \in Task : u # t => task'[u] = task[u]
    BY <1>0, <1>7 DEF OpRefused, OpSettle, Go
  <2> QED BY <2>1, <2>2, KeepHolders DEF Reserved, Free
<1>8. CASE Release(t)
  <2>1. Reserved(t)
    BY <1>8 DEF Release, Reserved
  <2>2. ~Reserved(t)'
    <3>1. CASE task' = [task EXCEPT ![t] = Idle]
      BY <1>0, <3>1 DEF Reserved, Idle
    <3>2. ASSUME NEW role, NEW phase \in {"settle", "claimed"},
                 task' = [task EXCEPT ![t] = Running(role, phase, task[t].job)]
          PROVE  ~Reserved(t)'
      BY <1>0, <3>2 DEF Reserved, Running, Idle
    <3> QED BY <1>8, <3>1, <3>2 DEF Release
  <2>3. \A u \in Task : u # t => task'[u] = task[u]
    BY <1>0, <1>8 DEF Release
  <2> QED BY <1>8, <2>1, <2>2, <2>3, GiveBackJob DEF Release
<1> QED
  BY <1>2, <1>3, <1>4, <1>5, <1>6, <1>7, <1>8 DEF Finish, Maintenance

LEMMA NextKeepsHolders ==
  ASSUME TypeInv, ReservationOwned, [Next]_vars
  PROVE  ReservationOwned'
<1>1. CASE \E j \in Job : Request(j) \/ Scheduler(j) \/ Expire(j)
  BY <1>1, RequestKeepsHolders
<1>2. CASE \E t \in Task : RunJob(t) \/ Capture(t)
  BY <1>2, RunKeepsHolders
<1>3. CASE \E t \in Task : Acquire(t) \/ Finish(t) \/ Maintenance(t)
  BY <1>3, FinishKeepsHolders
<1>4. CASE \E t \in Task, j \in Job : StartRecording(t, j)
  BY <1>4, SpawnTakes DEF StartRecording, Roles, Phases, Unreserved
<1>5. CASE Worker
  <2> PICK t \in Task, j \in Job, kind \in OpRoles : Claim(t, j, kind)
    BY <1>5 DEF Worker
  <2>1. task \in [Task -> TaskRow]
    BY DEF TypeInv, VariablesTyped
  <2>2. ~Reserved(t) /\ ~Reserved(t)' /\ \A u \in Task : u # t => task'[u] = task[u]
    BY <2>1 DEF Claim, Spawn, Busy, Running, Idle, Reserved, Unreserved
  <2> QED BY <2>2, KeepHolders DEF Claim, Reserved, Free
<1>6. CASE Process /\ ~Start
  <2>1. UNCHANGED <<active, task>>
    BY <1>6 DEF Process, Install, InstallEnds, RequestShutdown, IdleShutdown, Exit, Crash,
      Down, memory
  <2> QED BY <2>1, KeepHolders DEF Reserved, Free
<1>7. CASE Start
  BY <1>7 DEF Start, ReservationOwned, Reserved, Unreserved, Free, Idle
<1>8. CASE UNCHANGED vars
  BY <1>8, KeepHolders DEF vars, Reserved, Free
<1> QED
  BY <1>1, <1>2, <1>3, <1>4, <1>5, <1>6, <1>7, <1>8 DEF Next, Process

\* No two tasks ever hold one job, every task that works on a job's files holds
\* it, and no reservation outlives its task.
THEOREM ReservationsOwned == Spec => []ReservationOwned
<1>1. Init => ReservationOwned
  BY DEF Init, ReservationOwned, Reserved, Unreserved, Free, Idle
<1>2. TypeInv /\ ReservationOwned /\ [Next]_vars => ReservationOwned'
  BY NextKeepsHolders
<1> QED BY <1>1, <1>2, AlwaysTyped, PTL DEF Spec

----------------------------------------------------------------------------
\* The roles. A task gets a role when it is spawned and keeps it; the guards of
\* the spawning steps keep installations and idle shutdowns apart from them.
RoleStep(t) ==
  \/ task'[t].role \in {task[t].role, "none", "finish"}
  \/ shutdown = "no" /\ task'[t].role \in {"recover", "delete", "files"}
  \/ shutdown = "no" /\ ~installing /\ task'[t].role \in {"record"} \cup OpRoles

LEMMA SpawnRole ==
  ASSUME TypeInv, NEW t \in Task, NEW j \in Job, NEW role, NEW phase, Spawn(t, role, phase, j)
  PROVE  task'[t].role = role /\ \A u \in Task : u # t => task'[u] = task[u]
BY DEF TypeInv, VariablesTyped, Spawn, Running, Idle

LEMMA RequestRoles ==
  ASSUME TypeInv, NEW j \in Job, Request(j) \/ Scheduler(j) \/ Expire(j), NEW u \in Task
  PROVE  RoleStep(u) /\ UNCHANGED <<installing, shutdown>>
<1>1. UNCHANGED <<installing, shutdown>>
  BY DEF Request, Scheduler, Expire, AddJob, Stop, Retry, Protect, Schedule, Recover,
    Maintain, Enqueue, CancelOperation, ScheduledCancel, ScheduledDrop, FinalizeStopped,
    ScheduledFinish, memory, process
<1> SUFFICES RoleStep(u)
  BY <1>1
<1>2. ASSUME NEW t \in Task, Recover(t, j) PROVE RoleStep(u)
  <2>1. Spawn(t, "recover", "finish", j) /\ shutdown = "no"
    BY <1>2 DEF Recover
  <2> QED BY <2>1, SpawnRole DEF RoleStep
<1>3. ASSUME NEW t \in Task, NEW role \in {"delete", "files"}, Maintain(t, j, role)
      PROVE  RoleStep(u)
  <2>1. Spawn(t, role, "queue", j) /\ shutdown = "no"
    BY <1>3 DEF Maintain
  <2> QED BY <2>1, SpawnRole DEF RoleStep
<1>4. ASSUME NEW t \in Task, FinalizeStopped(t, j) \/ ScheduledFinish(t, j)
      PROVE  RoleStep(u)
  <2>1. Spawn(t, "finish", "finish", j)
    BY <1>4 DEF FinalizeStopped, ScheduledFinish
  <2> QED BY <2>1, SpawnRole DEF RoleStep
<1>5. CASE UNCHANGED task
  BY <1>5 DEF RoleStep
<1> QED
  BY <1>1, <1>2, <1>3, <1>4, <1>5 DEF Request, Scheduler, AddJob, Stop, Retry, Protect,
    Schedule, Enqueue, CancelOperation, ScheduledCancel, ScheduledDrop, Expire, memory

LEMMA TaskRoles ==
  ASSUME TypeInv, NEW t \in Task,
         RunJob(t) \/ Capture(t) \/ Acquire(t) \/ Finish(t) \/ Maintenance(t), NEW u \in Task
  PROVE  RoleStep(u) /\ UNCHANGED <<installing, shutdown>>
<1>0. task \in [Task -> TaskRow]
  BY DEF TypeInv, VariablesTyped
<1>1. UNCHANGED <<installing, shutdown>>
  BY DEF RunJob, Capture, Acquire, Finish, Maintenance, process, Prepare, InspectCancelled,
    InspectFailed, InspectRejected, InspectUpcoming, InspectEnded, BeginAttempt,
    CaptureReports, CaptureEnds, CaptureFails, AfterCapture, Ended, Reinspect, RetryLater,
    FinishBegins, Verify, Commit, Published, FinishFails, TaskError, DeleteCommit,
    WorkDone, Release, OpReserve, OpRefused, OpSettle
<1> SUFFICES RoleStep(u)
  BY <1>1
<1>2. ASSUME NEW phase, Go(t, phase) PROVE RoleStep(u)
  BY <1>0, <1>2 DEF Go, RoleStep, TaskRow
<1>3. ASSUME NaturalEnd(t) PROVE RoleStep(u)
  BY <1>0, <1>3 DEF NaturalEnd, RoleStep, TaskRow
<1>4. CASE Ended(t) \/ Reinspect(t)
  BY <1>2, <1>3, <1>4 DEF Ended, Interrupted, Reinspect
<1>5. CASE Verify(t)
  <2>1. PICK verdict : task' = [task EXCEPT ![t].at = "commit", ![t].verdict = verdict]
    BY <1>5 DEF Verify
  <2> QED BY <1>0, <2>1 DEF RoleStep, TaskRow
<1>6. CASE Release(t) \/ OpSettle(t)
  <2>1. CASE task' = [task EXCEPT ![t] = Idle]
    BY <1>0, <2>1 DEF RoleStep, Idle
  <2>2. ASSUME NEW role, NEW phase, role = task[t].role,
               task' = [task EXCEPT ![t] = Running(role, phase, task[t].job)]
        PROVE  RoleStep(u)
    BY <1>0, <2>2 DEF RoleStep, Running, Idle
  <2> QED BY <1>6, <2>1, <2>2 DEF Release, OpSettle
<1>7. CASE CaptureReports(t)
  BY <1>7 DEF CaptureReports, RoleStep
<1>8. CASE OpReserve(t)
  <2>1. PICK phase \in {"queue", "finish"} : Go(t, phase)
    BY <1>8 DEF OpReserve
  <2> QED BY <1>2, <2>1
<1> QED
  BY <1>1, <1>2, <1>4, <1>5, <1>6, <1>7, <1>8 DEF RunJob, Capture, Acquire, Finish,
    Maintenance, Prepare, InspectCancelled, Interrupted, InspectFailed, InspectRejected,
    InspectUpcoming, InspectEnded, BeginAttempt, CaptureEnds, CaptureFails, AfterCapture,
    RetryLater, FinishBegins, Commit, Published, FinishFails, TaskError, DeleteCommit,
    WorkDone, OpRefused

LEMMA NextRoles ==
  ASSUME TypeInv, [Next]_vars, ~Start, NEW u \in Task
  PROVE  /\ RoleStep(u)
         /\ installing' => installing \/ Install
         /\ shutdown' = "idle" => shutdown = "idle" \/ IdleShutdown
<1>1. CASE \E j \in Job : Request(j) \/ Scheduler(j) \/ Expire(j)
  BY <1>1, RequestRoles
<1>2. CASE \E t \in Task : RunJob(t) \/ Capture(t) \/ Acquire(t) \/ Finish(t) \/ Maintenance(t)
  BY <1>2, TaskRoles
<1>3. CASE \E t \in Task, j \in Job : StartRecording(t, j)
  BY <1>3, SpawnRole DEF StartRecording, RoleStep, process
<1>4. CASE Worker
  BY <1>4, SpawnRole DEF Worker, Claim, RoleStep, process
<1>5. CASE Process
  BY <1>5 DEF Process, Install, InstallEnds, RequestShutdown, IdleShutdown, Exit, Crash,
    Down, memory, RoleStep
<1>6. CASE UNCHANGED vars
  BY <1>6 DEF vars, process, RoleStep
<1> QED
  BY <1>1, <1>2, <1>3, <1>4, <1>5, <1>6 DEF Next

\* When nothing is reserved, only an operation's task may be at work.
LEMMA NothingReservedRoles ==
  ASSUME TypeInv, ReservationOwned, NothingReserved, ~OpActive, NEW t \in Task
  PROVE  task[t].role = "none"
<1>1. ~Reserved(t)
  BY HolderTyped DEF ReservationOwned, NothingReserved
<1>2. task[t].role \notin OpRoles
  BY DEF OpActive
<1> QED BY <1>1, <1>2 DEF TypeInv, TaskOK, Fits, Reserved, Unreserved

LEMMA NextKeepsIsolation ==
  ASSUME TypeInv, ReservationOwned, InstallIsolated, IdleShutdownInterruptsNothing,
         [Next]_vars
  PROVE  InstallIsolated' /\ IdleShutdownInterruptsNothing'
<1>1. CASE Start
  BY <1>1 DEF Start, InstallIsolated, IdleShutdownInterruptsNothing, Idle, OpRoles
<1>2. CASE ~Start
  <2>1. ASSUME NEW t \in Task, installing'
        PROVE  task'[t].role \notin {"record"} \cup OpRoles
    <3>1. CASE installing
      BY <1>2, <2>1, <3>1, NextRoles DEF InstallIsolated, RoleStep, OpRoles
    <3>2. CASE Install
      BY <3>2, NothingReservedRoles DEF Install, MayInstall, OpRoles
    <3> QED BY <1>2, <2>1, <3>1, <3>2, NextRoles
  <2>2. ASSUME NEW t \in Task, shutdown' = "idle"
        PROVE  task'[t].role \in {"none", "finish"}
    <3>1. CASE shutdown = "idle"
      BY <1>2, <3>1, NextRoles DEF IdleShutdownInterruptsNothing, RoleStep
    <3>2. CASE IdleShutdown
      BY <3>2, NothingReservedRoles DEF IdleShutdown, MayShutdownIdle
    <3> QED BY <1>2, <2>2, <3>1, <3>2, NextRoles
  <2> QED BY <2>1, <2>2 DEF InstallIsolated, IdleShutdownInterruptsNothing
<1> QED BY <1>1, <1>2

LEMMA AlwaysIsolated == Spec => [](InstallIsolated /\ IdleShutdownInterruptsNothing)
<1>1. Init => InstallIsolated /\ IdleShutdownInterruptsNothing
  BY DEF Init, InstallIsolated, IdleShutdownInterruptsNothing
<1>2. /\ TypeInv /\ ReservationOwned /\ InstallIsolated /\ IdleShutdownInterruptsNothing
      /\ [Next]_vars
      => (InstallIsolated /\ IdleShutdownInterruptsNothing)'
  BY NextKeepsIsolation
<1> QED BY <1>1, <1>2, AlwaysTyped, ReservationsOwned, PTL DEF Spec

\* While the engine is being replaced no recording runs and no operation has
\* been claimed, although both look at the flag and the map at different times.
THEOREM InstallationIsolated == Spec => []InstallIsolated
BY AlwaysIsolated, PTL

\* A shutdown accepted as idle finds nothing at work, and nothing but the
\* finalizing of a stopped job begins before the process has ended.
THEOREM IdleShutdownSafe == Spec => []IdleShutdownInterruptsNothing
BY AlwaysIsolated, PTL

----------------------------------------------------------------------------
\* The holder's invariant, inductive for the rest of the safety properties: what
\* a task's phase says of the row of the job it holds, what nobody's holding a
\* job says of it, and which operations are some task's.
\* A row is `row`, a job's operations are `ops` and its holder's task is `w`, so
\* that a step's effect can be stated on the new values.
NoOperations(ops) == \A k \in OpRoles : ops[k] = "none"
Continuous(j, row) == ~row.uncertain /\ (j \in Downloads \/ row.attempt = 1)

\* The states in which a task of a role finds the row of its job in a phase.
Expected(role, phase, row) ==
  /\ phase = "prepare" => row.state \in {"queued", "waiting", "reconnecting"}
  /\ phase = "inspect" => row.state = "preparing"
  /\ phase \in {"capture", "captured", "ended", "reinspect"}
       => row.state \in {"recording", "finalizing"}
  /\ phase = "retry" => row.state \in {"preparing", "recording", "finalizing"}
  /\ phase = "finish" =>
       \/ row.state = "finalizing"
       \/ role = "record" /\ row.state \in {"preparing", "recording", "failed"}
  /\ phase \in {"queue", "verify", "commit"} /\ role \in Finishers => row.state = "finalizing"
  /\ phase \in {"queue", "work"} /\ role \notin Finishers => row.state \in TerminalStates
  /\ phase = "publish" => row.state \in TerminalStates
  /\ phase = "error" =>
       \/ row.state \in {"finalizing"} \cup TerminalStates
       \/ role = "record" /\ row.state = "recording"
  /\ phase = "release" =>
       \/ row.state \in TerminalStates
       \/ role = "delete" /\ row.state = "deleted"
       \/ /\ role = "record" /\ row.state \in {"queued", "waiting", "reconnecting", "finalizing"}
          /\ row.state = "finalizing" => row.stop

\* What a holder may rely on: its row's state, that no operation was queued under
\* it, that its deletion is of an unprotected job, that its verdict still fits.
HeldOK(j, w, row, ops) ==
  /\ Expected(w.role, w.at, row)
  /\ w.role \in {"record", "finish", "recover", "delete"} => NoOperations(ops)
  /\ w.role = "delete" /\ w.at \in {"queue", "work"} => ~row.protected
  /\ w.at = "commit" /\ w.verdict = "completed" => Continuous(j, row)

\* A job that nobody holds is settled, waits for the scheduler or was stopped;
\* operations wait for settled ones alone.
FreeOK(row, ops) ==
  /\ row.state \notin {"preparing", "recording"}
  /\ row.state = "finalizing" => row.stop
  /\ row.state \notin TerminalStates => NoOperations(ops)

Holds(t, j) == Reserved(t) /\ task[t].job = j

JobOK(j) ==
  /\ job[j].state = "completed" => Continuous(j, job[j])
  /\ Free(j) => FreeOK(job[j], op[j])
  /\ \A t \in Task : Holds(t, j) => HeldOK(j, task[t], job[j], op[j])

\* One operation runs at a time, and its row says so until its task settles it.
ClaimsOK ==
  /\ \A t \in Task : task[t].role \in OpRoles => op[task[t].job][task[t].role] = "running"
  /\ \A t, u \in Task : task[t].role \in OpRoles /\ task[u].role \in OpRoles => t = u

HolderInv == ClaimsOK /\ \A j \in Job : JobOK(j)

----------------------------------------------------------------------------
\* How a step disturbs the invariant: everything about the other jobs stays.

LEMMA SameJob ==
  ASSUME NEW i \in Job, JobOK(i), job'[i] = job[i], op'[i] = op[i], Free(i)' => Free(i),
         \A u \in Task : Holds(u, i)' => Holds(u, i) /\ task'[u] = task[u]
  PROVE  JobOK(i)'
BY DEF JobOK, Free

\* One row or its operations change while the tasks stay where they are.
LEMMA RowStep ==
  ASSUME TypeInv, HolderInv, NEW j \in Job, UNCHANGED task, JobOK(j)', ClaimsOK',
         \A i \in Job : Free(i)' => Free(i),
         \A i \in Job \ {j} : job'[i] = job[i] /\ op'[i] = op[i]
  PROVE  HolderInv'
<1>1. ASSUME NEW i \in Job \ {j} PROVE JobOK(i)'
  BY SameJob DEF HolderInv, Holds, Reserved
<1> QED BY <1>1 DEF HolderInv

\* A holder moves on.
LEMMA HeldStep ==
  ASSUME TypeInv, ReservationOwned, HolderInv, NEW t \in Task, Reserved(t),
         UNCHANGED <<op, active>>, \A u \in Task \ {t} : task'[u] = task[u],
         task'[t].role = task[t].role, task'[t].job = task[t].job,
         \A i \in Job \ {task[t].job} : job'[i] = job[i],
         HeldOK(task[t].job, task[t], job[task[t].job], op[task[t].job])
           => HeldOK(task[t].job, task'[t], job'[task[t].job], op[task[t].job]),
         job'[task[t].job].state = "completed"
           => Continuous(task[t].job, job'[task[t].job])
  PROVE  HolderInv'
<1> PICK j \in Job : j = task[t].job
  BY HolderTyped
<1>1. ~Free(j)
  BY HolderTyped DEF ReservationOwned
<1>2. HeldOK(j, task'[t], job'[j], op[j])
  BY <1>1 DEF HolderInv, JobOK, Holds
<1>3. \A u \in Task : Reserved(u)' /\ task'[u].job = j => u = t
  BY DEF ReservationOwned, Reserved
<1>4. JobOK(j)'
  BY <1>1, <1>2, <1>3 DEF JobOK, Free, Holds
<1>5. ASSUME NEW i \in Job \ {j} PROVE JobOK(i)'
  BY SameJob DEF HolderInv, Holds, Reserved, Free
<1>6. ClaimsOK'
  BY DEF HolderInv, ClaimsOK
<1> QED BY <1>4, <1>5, <1>6 DEF HolderInv

\* A task takes a free job.
LEMMA TakeStep ==
  ASSUME TypeInv, ReservationOwned, HolderInv, NEW t \in Task, NEW j \in Job,
         Free(j), Reserve(j), UNCHANGED op, task'[t].job = j, ~Reserved(t),
         \A u \in Task \ {t} : task'[u] = task[u],
         task'[t].role \in OpRoles => task'[t].role = task[t].role /\ task[t].job = j,
         \A i \in Job \ {j} : job'[i] = job[i],
         HeldOK(j, task'[t], job'[j], op[j]),
         job'[j].state = "completed" => Continuous(j, job'[j])
  PROVE  HolderInv'
<1>1. \A i \in Job : active'[i] = "free" <=> i # j /\ active[i] = "free"
  BY HolderTyped DEF Free, Reserve
<1>2. \A u \in Task : Reserved(u)' /\ task'[u].job = j => u = t
  BY DEF ReservationOwned, Reserved, Free
<1>3. JobOK(j)'
  BY <1>1, <1>2 DEF JobOK, Free, Holds
<1>4. ASSUME NEW i \in Job \ {j} PROVE JobOK(i)'
  BY <1>1, SameJob DEF HolderInv, Holds, Reserved, Free
<1>5. ClaimsOK'
  BY DEF HolderInv, ClaimsOK
<1> QED BY <1>3, <1>4, <1>5 DEF HolderInv

\* A holder gives its job back.
LEMMA ReleaseStep ==
  ASSUME TypeInv, ReservationOwned, HolderInv, NEW t \in Task, Reserved(t), ~Reserved(t)',
         UNCHANGED <<job, op>>, active' = [active EXCEPT ![task[t].job] = "free"],
         \A u \in Task \ {t} : task'[u] = task[u],
         task'[t].role \in OpRoles => task'[t].role = task[t].role /\ task'[t].job = task[t].job,
         FreeOK(job[task[t].job], op[task[t].job])
  PROVE  HolderInv'
<1> PICK j \in Job : j = task[t].job
  BY HolderTyped
<1>1. \A i \in Job : active'[i] = "free" <=> i = j \/ active[i] = "free"
  BY HolderTyped
<1>2. \A u \in Task : Reserved(u)' => task'[u].job # j
  BY DEF ReservationOwned, Reserved
<1>3. JobOK(j)'
  BY <1>2, HolderTyped DEF JobOK, Holds, HolderInv
<1>4. ASSUME NEW i \in Job \ {j} PROVE JobOK(i)'
  BY <1>1, SameJob DEF HolderInv, Holds, Reserved, Free
<1>5. ClaimsOK'
  BY DEF HolderInv, ClaimsOK
<1> QED BY <1>3, <1>4, <1>5 DEF HolderInv

\* ... to another phase, writing its job's row.
LEMMA GoStep ==
  ASSUME TypeInv, ReservationOwned, HolderInv, NEW t \in Task, Reserved(t),
         NEW j \in Job, j = task[t].job, NEW phase \in Phases \ {"commit"}, NEW row,
         Go(t, phase), SetJob(j, row), UNCHANGED <<op, active>>,
         Expected(task[t].role, phase, row),
         task[t].role = "delete" /\ phase \in {"queue", "work"} => ~row.protected,
         row.state = "completed" => Continuous(j, row)
  PROVE  HolderInv'
<1>0. task \in [Task -> TaskRow] /\ job \in [Job -> JobRow]
  BY DEF TypeInv, VariablesTyped
<1>1. task'[t] = [task[t] EXCEPT !.at = phase] /\ \A u \in Task \ {t} : task'[u] = task[u]
  BY <1>0 DEF Go
<1>2. /\ task'[t].at = phase /\ task'[t].role = task[t].role /\ task'[t].job = j
  BY <1>0, <1>1 DEF TaskRow
<1>3. job'[j] = row /\ \A i \in Job \ {j} : job'[i] = job[i]
  BY <1>0 DEF SetJob
<1>4. HeldOK(j, task[t], job[j], op[j]) => HeldOK(j, task'[t], job'[j], op[j])
  BY <1>2, <1>3 DEF HeldOK
<1> QED BY <1>1, <1>2, <1>3, <1>4, HeldStep

\* ... without writing the row.
LEMMA GoOn ==
  ASSUME TypeInv, ReservationOwned, HolderInv, NEW t \in Task, Reserved(t),
         NEW phase \in Phases \ {"commit"}, Go(t, phase), UNCHANGED <<job, op, active>>,
         Expected(task[t].role, phase, job[task[t].job]),
         task[t].role = "delete" /\ phase = "work" => task[t].at = "queue",
         task[t].role = "delete" => phase # "queue"
  PROVE  HolderInv'
<1> PICK j \in Job : j = task[t].job
  BY HolderTyped
<1>1. SetJob(j, job[j])
  BY DEF SetJob, TypeInv, VariablesTyped
<1>2. task[t].role = "delete" /\ phase \in {"queue", "work"} => ~job[j].protected
  BY DEF HolderInv, JobOK, Holds, HeldOK
<1>3. job[j].state = "completed" => Continuous(j, job[j])
  BY DEF HolderInv, JobOK
<1> QED BY <1>1, <1>2, <1>3, GoStep

\* What a holder knows of its job.
LEMMA Holder ==
  ASSUME TypeInv, HolderInv, NEW t \in Task, Reserved(t)
  PROVE  /\ task[t].job \in Job /\ job[task[t].job] \in JobRow
         /\ HeldOK(task[t].job, task[t], job[task[t].job], op[task[t].job])
         /\ Fits(task[t].role, task[t].at)
<1>1. task[t].at # "idle"
  BY DEF Reserved, Unreserved
<1> QED BY <1>1, HolderTyped DEF TypeInv, VariablesTyped, TaskOK, HolderInv, JobOK, Holds

----------------------------------------------------------------------------
\* The steps of a recorder.

LEMMA NaturalStep ==
  ASSUME TypeInv, ReservationOwned, HolderInv, NEW t \in Task, Reserved(t), NaturalEnd(t),
         task[t].at \in {"ended", "reinspect"}, UNCHANGED <<job, op, active>>
  PROVE  HolderInv'
<1> PICK j \in Job : j = task[t].job
  BY HolderTyped
<1>0. task \in [Task -> TaskRow]
  BY DEF TypeInv, VariablesTyped
<1>1. /\ task'[t].at = "finish" /\ task'[t].role = task[t].role /\ task'[t].job = j
      /\ \A u \in Task \ {t} : task'[u] = task[u]
  BY <1>0 DEF NaturalEnd, TaskRow
<1>2. task[t].role = "record"
  BY Holder DEF Fits, Recording
<1>3. HeldOK(j, task[t], job[j], op[j]) => HeldOK(j, task'[t], job'[j], op[j])
  BY <1>1, <1>2 DEF HeldOK, Expected
<1>4. job[j].state = "completed" => Continuous(j, job[j])
  BY DEF HolderInv, JobOK
<1> QED BY <1>1, <1>3, <1>4, HeldStep

LEMMA RunKeepsHeld ==
  ASSUME TypeInv, ReservationOwned, HolderInv, NEW t \in Task, RunJob(t) \/ Capture(t)
  PROVE  HolderInv'
<1> USE DEF At, Row
<1>1. task[t].at \in Recording
  BY DEF RunJob, Capture, Recording, Prepare, InspectCancelled, InspectFailed, InspectRejected,
    InspectUpcoming, InspectEnded, BeginAttempt, CaptureReports, CaptureEnds, CaptureFails,
    AfterCapture, Ended, Reinspect, RetryLater
<1>2. Reserved(t)
  BY <1>1 DEF Reserved, Unreserved, Recording
<1> PICK j \in Job : j = task[t].job
  BY <1>2, HolderTyped
<1>3. /\ job[j] \in JobRow /\ task[t].role = "record"
      /\ Expected("record", task[t].at, job[j])
  BY <1>1, <1>2, Holder DEF Fits, HeldOK
<1>4. ASSUME NEW phase \in Phases \ {"commit"}, NEW row, Go(t, phase), SetJob(j, row),
             UNCHANGED <<op, active>>, Expected("record", phase, row), row.state # "completed"
      PROVE  HolderInv'
  BY <1>2, <1>3, <1>4, GoStep
<1>5. ASSUME NEW phase \in Phases \ {"commit"}, Go(t, phase), UNCHANGED <<job, op, active>>,
             Expected("record", phase, job[j])
      PROVE  HolderInv'
  BY <1>2, <1>3, <1>5, GoOn
<1> USE DEF Expected, Phases
<1>6. CASE Prepare(t)
  <2>1. [job[j] EXCEPT !.state = "preparing"].state = "preparing"
    BY <1>3 DEF JobRow
  <2> QED BY <1>4, <1>6, <2>1 DEF Prepare
<1>7. ASSUME Interrupted(t), UNCHANGED <<op, active>> PROVE HolderInv'
  <2> DEFINE row == InterruptedRow(job[j])
  <2>1. /\ row.state \in {"queued", "finalizing", "stopped"}
        /\ row.state = "finalizing" => row.stop
    BY <1>3 DEF InterruptedRow, JobRow
  <2>2. Expected("record", "release", row)
    BY <2>1 DEF TerminalStates
  <2>3. SetJob(j, row) /\ Go(t, "release")
    BY <1>7 DEF Interrupted
  <2> HIDE DEF Expected, row
  <2> QED BY <1>4, <1>7, <2>1, <2>2, <2>3
<1>8. CASE InspectCancelled(t)
  BY <1>7, <1>8 DEF InspectCancelled
<1>9. CASE InspectFailed(t)
  BY <1>3, <1>5, <1>9 DEF InspectFailed
<1>10. CASE InspectRejected(t)
  <2>1. [job[j] EXCEPT !.state = "failed"].state = "failed"
    BY <1>3 DEF JobRow
  <2> QED BY <1>4, <1>10, <2>1 DEF InspectRejected, TerminalStates
<1>11. CASE InspectUpcoming(t)
  <2>1. [job[j] EXCEPT !.state = "waiting"].state = "waiting"
    BY <1>3 DEF JobRow
  <2> QED BY <1>4, <1>11, <2>1 DEF InspectUpcoming
<1>12. CASE InspectEnded(t)
  BY <1>3, <1>5, <1>12 DEF InspectEnded
<1>13. CASE BeginAttempt(t)
  <2>1. BeginRow(j, job[j]).state = "recording"
    BY <1>3 DEF BeginRow, AttemptRow, JobRow
  <2> QED BY <1>4, <1>13, <2>1 DEF BeginAttempt
<1>14. CASE CaptureReports(t)
  <2>1. PICK row : /\ SetJob(j, row) /\ row.state \in {job[j].state, "finalizing"}
    <3>1. /\ [job[j] EXCEPT !.uncertain = TRUE].state = job[j].state
          /\ [job[j] EXCEPT !.state = "finalizing"].state = "finalizing"
      BY <1>3 DEF JobRow
    <3> QED BY <1>14, <3>1 DEF CaptureReports
  <2>2. task[t].at = "capture" /\ UNCHANGED <<task, op, active>>
    BY <1>14 DEF CaptureReports
  <2>3. job'[j] = row /\ \A i \in Job \ {j} : job'[i] = job[i]
    BY <2>1 DEF SetJob, TypeInv, VariablesTyped
  <2>4. HeldOK(j, task[t], job[j], op[j]) => HeldOK(j, task'[t], job'[j], op[j])
    BY <1>3, <2>1, <2>2, <2>3 DEF HeldOK
  <2>5. job'[j].state # "completed"
    BY <1>3, <2>1, <2>2, <2>3
  <2> QED BY <1>2, <2>2, <2>3, <2>4, <2>5, HeldStep
<1>15. CASE CaptureEnds(t) \/ CaptureFails(t) \/ AfterCapture(t)
  BY <1>3, <1>5, <1>15 DEF CaptureEnds, CaptureFails, AfterCapture
<1>16. CASE Ended(t)
  BY <1>2, <1>3, <1>5, <1>7, <1>16, NaturalStep DEF Ended
<1>17. CASE Reinspect(t)
  BY <1>2, <1>3, <1>5, <1>17, NaturalStep DEF Reinspect
<1>18. CASE RetryLater(t)
  <2> DEFINE row == RetryRow(job[j])
  <2>1. row.state \in {"failed", "reconnecting"}
    BY <1>3 DEF RetryRow, JobRow
  <2>2. PICK phase \in {"finish", "release"} :
          /\ Go(t, phase) /\ SetJob(j, row) /\ UNCHANGED <<op, active>>
          /\ phase = "finish" => row.state = "failed"
    BY <1>18 DEF RetryLater
  <2>3. Expected("record", phase, row)
    BY <2>1, <2>2 DEF TerminalStates
  <2> HIDE DEF Expected, row
  <2> QED BY <1>4, <2>1, <2>2, <2>3
<1> QED
  BY <1>6, <1>8, <1>9, <1>10, <1>11, <1>12, <1>13, <1>14, <1>15, <1>16, <1>17, <1>18
  DEF RunJob, Capture

----------------------------------------------------------------------------
\* The steps of finish, of the file work and of an operation's task.

LEMMA FinishKeepsHeld ==
  ASSUME TypeInv, ReservationOwned, HolderInv, NEW t \in Task, Acquire(t) \/ Finish(t)
  PROVE  HolderInv'
<1> USE DEF At, Row
<1>1. Reserved(t)
  BY DEF Reserved, Unreserved, Acquire, Finish, FinishBegins, Verify, Commit, Published,
    FinishFails, TaskError
<1> PICK j \in Job : j = task[t].job
  BY <1>1, HolderTyped
<1>2. /\ job[j] \in JobRow /\ Fits(task[t].role, task[t].at)
      /\ HeldOK(j, task[t], job[j], op[j]) /\ Expected(task[t].role, task[t].at, job[j])
  BY <1>1, Holder DEF HeldOK
<1>3. ASSUME task[t].at \in Finishing PROVE task[t].role \in Finishers /\ task[t].role # "delete"
  BY <1>2, <1>3 DEF Fits, Finishers
<1> USE DEF Expected, Phases
<1>4. CASE FinishBegins(t)
  <2>1. [job[j] EXCEPT !.state = "finalizing"].state = "finalizing"
    BY <1>2 DEF JobRow
  <2> QED BY <1>1, <1>3, <1>4, <2>1, GoStep DEF FinishBegins, Finishing
<1>5. CASE Acquire(t)
  <2>1. CASE task[t].role \in Finishers /\ Go(t, "verify")
    BY <1>1, <1>2, <1>5, <2>1, GoOn DEF Acquire
  <2>2. CASE task[t].role \notin Finishers /\ Go(t, "work")
    BY <1>1, <1>2, <1>5, <2>2, GoOn DEF Acquire
  <2> QED BY <1>5, <2>1, <2>2 DEF Acquire
<1>6. CASE Verify(t)
  <2>1. PICK intact \in BOOLEAN, playable \in BOOLEAN :
          LET row == [job[j] EXCEPT !.uncertain = @ \/ ~intact]
              whole == j \in Downloads \/ row.attempt = 1
          IN /\ SetJob(j, row)
             /\ task' = [task EXCEPT ![t].at = "commit", ![t].verdict =
                           Verdict(row, task[t].natural, intact /\ playable, whole)]
    BY <1>6 DEF Verify
  <2> DEFINE row == [job[j] EXCEPT !.uncertain = @ \/ ~intact]
             whole == j \in Downloads \/ row.attempt = 1
             verdict == Verdict(row, task[t].natural, intact /\ playable, whole)
  <2>2. row.state = job[j].state /\ row.protected = job[j].protected
    BY <1>2 DEF JobRow
  <2>3. verdict = "completed" => Continuous(j, row)
    BY DEF Verdict, Continuous
  <2>4. job'[j] = row /\ \A i \in Job \ {j} : job'[i] = job[i]
    BY <2>1 DEF SetJob, TypeInv, VariablesTyped
  <2>5. /\ task'[t].at = "commit" /\ task'[t].verdict = verdict
        /\ task'[t].role = task[t].role /\ task'[t].job = j
        /\ \A u \in Task \ {t} : task'[u] = task[u]
    BY <2>1 DEF TypeInv, VariablesTyped, TaskRow
  <2>6. job[j].state = "finalizing" /\ task[t].role \in Finishers
    BY <1>2, <1>3, <1>6 DEF Verify, Finishing
  <2> HIDE DEF row, verdict
  <2>7. HeldOK(j, task'[t], job'[j], op[j])
    BY <1>2, <2>2, <2>3, <2>4, <2>5, <2>6 DEF HeldOK
  <2> QED BY <1>1, <1>6, <2>2, <2>4, <2>5, <2>6, <2>7, HeldStep DEF Verify
<1>7. CASE Commit(t)
  <2> DEFINE state == IF task[t].verdict = "partial" /\ job[j].attempt = 0 THEN "failed"
                      ELSE task[t].verdict
             row == [job[j] EXCEPT !.state = state]
  <2>1. task[t].verdict \in {"completed", "stopped", "partial"}
    BY <1>7 DEF Commit, TypeInv, VariablesTyped, TaskOK, TaskRow
  <2>2. /\ row.state = state /\ state \in TerminalStates
        /\ row.uncertain = job[j].uncertain /\ row.attempt = job[j].attempt
    BY <1>2, <2>1 DEF JobRow, TerminalStates
  <2>3. row.state = "completed" => Continuous(j, row)
    BY <1>2, <1>7, <2>2 DEF Commit, HeldOK, Continuous
  <2>4. SetJob(j, row) /\ Go(t, "publish") /\ UNCHANGED <<op, active>>
    BY <1>7 DEF Commit
  <2>5. Expected(task[t].role, "publish", row)
    BY <2>2
  <2> HIDE DEF row, state, Expected
  <2> QED BY <1>1, <2>3, <2>4, <2>5, GoStep
<1>8. CASE Published(t)
  BY <1>1, <1>2, <1>8, GoOn DEF Published
<1>9. CASE FinishFails(t)
  BY <1>1, <1>2, <1>3, <1>9, GoOn DEF FinishFails, Finishing
<1>10. CASE TaskError(t)
  <2>1. PICK state \in {"partial", "failed"} : SetJob(j, [job[j] EXCEPT !.state = state])
    BY <1>10 DEF TaskError
  <2>2. [job[j] EXCEPT !.state = state].state = state
    BY <1>2 DEF JobRow
  <2>3. Expected(task[t].role, "release", [job[j] EXCEPT !.state = state])
    BY <2>2 DEF TerminalStates
  <2> QED BY <1>1, <1>10, <2>1, <2>2, <2>3, GoStep DEF TaskError
<1> QED BY <1>4, <1>5, <1>6, <1>7, <1>8, <1>9, <1>10 DEF Finish

\* A job with an unfinished operation is settled, or its recovery is running.
LEMMA SettledWithOperations ==
  ASSUME TypeInv, ReservationOwned, HolderInv
  PROVE  OperationsOnSettledJobs
<1> SUFFICES ASSUME NEW j \in Job, HasOperations(j)
             PROVE  Terminal(j) \/ (job[j].state = "finalizing" /\ op[j]["recovery"] = "running")
  BY DEF OperationsOnSettledJobs
<1>1. ~NoOperations(op[j])
  BY DEF HasOperations, NoOperations
<1>2. CASE Free(j)
  BY <1>1, <1>2 DEF HolderInv, JobOK, FreeOK, Terminal
<1>3. CASE ~Free(j)
  <2>1. PICK t \in Task : Reserved(t) /\ task[t].job = j
    BY <1>3 DEF ReservationOwned
  <2>2. /\ task[t].role \in {"files", "work", "recovery"}
        /\ Expected(task[t].role, task[t].at, job[j]) /\ Fits(task[t].role, task[t].at)
        /\ task[t].at \in Phases \ Unreserved
    BY <1>1, <2>1, Holder DEF HeldOK, Fits, Roles, OpRoles, TypeInv, VariablesTyped, TaskRow, Reserved,
      Unreserved
  <2>3. CASE task[t].role = "recovery"
    <3>1. op[j]["recovery"] = "running"
      BY <2>1, <2>3 DEF HolderInv, ClaimsOK, OpRoles
    <3> QED BY <2>2, <2>3, <3>1 DEF Expected, Fits, Finishers, Finishing, Recording, Phases,
          Unreserved, Terminal
  <2>4. CASE task[t].role \in {"files", "work"}
    BY <2>2, <2>4 DEF Expected, Fits, Finishers, Finishing, Recording, Phases, Unreserved,
      Terminal, OpRoles
  <2> QED BY <2>2, <2>3, <2>4
<1> QED BY <1>2, <1>3

LEMMA MaintenanceKeepsHeld ==
  ASSUME TypeInv, ReservationOwned, HolderInv, NEW t \in Task, Maintenance(t)
  PROVE  HolderInv'
<1> USE DEF At, Row
<1>0. task \in [Task -> TaskRow] /\ job \in [Job -> JobRow]
  BY DEF TypeInv, VariablesTyped
<1>1. ASSUME DeleteCommit(t) \/ WorkDone(t) PROVE HolderInv'
  <2>1. Reserved(t) /\ task[t].at = "work"
    BY <1>1 DEF DeleteCommit, WorkDone, Reserved, Unreserved
  <2> PICK j \in Job : j = task[t].job
    BY <2>1, HolderTyped
  <2>2. /\ job[j] \in JobRow /\ Fits(task[t].role, "work") /\ Expected(task[t].role, "work", job[j])
    BY <2>1, Holder DEF HeldOK
  <2>3. CASE DeleteCommit(t)
    <3> DEFINE row == NewRow("deleted", "none", FALSE)
    <3>1. row.state = "deleted"
      BY DEF NewRow
    <3>2. Expected("delete", "release", row)
      BY <3>1 DEF Expected
    <3> HIDE DEF row
    <3>3. SetJob(j, row) /\ Go(t, "release") /\ UNCHANGED <<op, active>> /\ task[t].role = "delete"
      BY <2>3 DEF DeleteCommit, row
    <3> QED BY <2>1, <3>1, <3>2, <3>3, GoStep DEF Phases
  <2>4. CASE WorkDone(t)
    BY <2>1, <2>2, <2>4, GoOn DEF WorkDone, Expected, Fits, Phases
  <2> QED BY <1>1, <2>3, <2>4
<1>2. ASSUME Release(t) PROVE HolderInv'
  <2>1. Reserved(t) /\ task[t].at = "release"
    BY <1>2 DEF Release, Reserved, Unreserved
  <2>2. /\ \A u \in Task \ {t} : task'[u] = task[u]
        /\ task'[t].at \in {"idle", "settle", "claimed"}
        /\ task'[t].role \in OpRoles => task'[t].role = task[t].role /\ task'[t].job = task[t].job
    <3>1. PICK w \in {Idle, Running(task[t].role, "settle", task[t].job),
                      Running(task[t].role, "claimed", task[t].job)} :
            task' = [task EXCEPT ![t] = w]
      BY <1>2 DEF Release
    <3>2. /\ w.at \in {"idle", "settle", "claimed"}
          /\ w.role \in OpRoles => w.role = task[t].role /\ w.job = task[t].job
      <4>1. CASE w = Idle
        BY <4>1 DEF Idle, OpRoles
      <4>2. ASSUME NEW phase \in {"settle", "claimed"},
                   w = Running(task[t].role, phase, task[t].job)
            PROVE  w.at = phase /\ w.role = task[t].role /\ w.job = task[t].job
        BY <4>2 DEF Running, Idle
      <4> QED BY <3>1, <4>1, <4>2
    <3> QED BY <1>0, <3>1, <3>2
  <2> PICK j \in Job : j = task[t].job
    BY <2>1, HolderTyped
  <2>3. FreeOK(job[j], op[j])
    BY <2>1, Holder DEF HeldOK, Expected, FreeOK, TerminalStates
  <2> QED BY <1>2, <2>1, <2>2, <2>3, ReleaseStep DEF Release, Reserved, Unreserved
<1>3. ASSUME OpReserve(t) PROVE HolderInv'
  <2> PICK j \in Job : j = task[t].job
    BY <1>3 DEF OpReserve, TypeInv, TaskOK
  <2>1. /\ ~Reserved(t) /\ Free(j) /\ Reserve(j) /\ UNCHANGED op
    BY <1>3 DEF OpReserve, Reserved, Unreserved
  <2>2. PICK phase \in {"queue", "finish"} :
          /\ Go(t, phase)
          /\ phase = "queue" => task[t].role = "work" /\ UNCHANGED job
          /\ phase = "finish" => task[t].role = "recovery" /\ SetJob(j, RecoveringRow(j))
    BY <1>3 DEF OpReserve
  <2>3. /\ task'[t].at = phase /\ task'[t].role = task[t].role /\ task'[t].job = j
        /\ \A u \in Task \ {t} : task'[u] = task[u]
    BY <1>0, <2>2 DEF Go, TaskRow
  <2>4. CASE phase = "queue"
    <3>1. op[j]["work"] = "running"
      BY <2>2, <2>4 DEF HolderInv, ClaimsOK, OpRoles
    <3>2. job[j].state \in TerminalStates
      BY <2>1, <3>1 DEF HolderInv, JobOK, FreeOK, NoOperations, OpRoles
    <3>3. HeldOK(j, task'[t], job'[j], op[j])
      BY <2>2, <2>3, <2>4, <3>2 DEF HeldOK, Expected, Finishers
    <3>4. job'[j].state = "completed" => Continuous(j, job'[j])
      BY <2>2, <2>4 DEF HolderInv, JobOK
    <3> QED BY <2>1, <2>2, <2>3, <2>4, <3>3, <3>4, TakeStep
  <2>5. CASE phase = "finish"
    <3>1. job'[j] = RecoveringRow(j) /\ \A i \in Job \ {j} : job'[i] = job[i]
      BY <1>0, <2>2, <2>5 DEF SetJob
    <3>2. job'[j].state = "finalizing"
      BY <1>0, <3>1 DEF RecoveringRow, JobRow
    <3>3. HeldOK(j, task'[t], job'[j], op[j])
      BY <2>2, <2>3, <2>5, <3>2 DEF HeldOK, Expected
    <3> QED BY <2>1, <2>3, <3>1, <3>2, <3>3, TakeStep
  <2> QED BY <2>2, <2>4, <2>5
<1>4. ASSUME OpRefused(t) PROVE HolderInv'
  <2>1. /\ ~Reserved(t) /\ ~Reserved(t)' /\ task'[t].role = task[t].role
        /\ task'[t].job = task[t].job /\ \A u \in Task \ {t} : task'[u] = task[u]
    BY <1>0, <1>4 DEF OpRefused, Reserved, Unreserved, Go, TaskRow
  <2>2. ASSUME NEW i \in Job PROVE JobOK(i)'
    BY <1>4, <2>1, SameJob DEF OpRefused, HolderInv, Holds, Reserved, Free
  <2>3. ClaimsOK'
    BY <1>4, <2>1 DEF OpRefused, HolderInv, ClaimsOK
  <2> QED BY <2>2, <2>3 DEF HolderInv
<1>5. ASSUME OpSettle(t) PROVE HolderInv'
  <2> PICK j \in Job : j = task[t].job
    BY <1>5 DEF OpSettle, TypeInv, TaskOK
  <2>1. /\ ~Reserved(t) /\ ~Reserved(t)' /\ task'[t].role = "none"
        /\ \A u \in Task \ {t} : task'[u] = task[u]
    BY <1>0, <1>5 DEF OpSettle, Reserved, Unreserved, Idle
  <2>2. task[t].role \in OpRoles
    BY <1>5 DEF OpSettle, TypeInv, TaskOK, Fits
  <2>3. ~NoOperations(op[j]) /\ \A i \in Job \ {j} : op'[i] = op[i]
    <3>1. op[j][task[t].role] = "running"
      BY <2>2 DEF HolderInv, ClaimsOK
    <3> QED BY <1>5, <2>2, <3>1 DEF OpSettle, SetOp, NoOperations, TypeInv, VariablesTyped
  <2>4. JobOK(j)'
    BY <1>5, <2>1, <2>3 DEF OpSettle, HolderInv, JobOK, FreeOK, HeldOK, Holds, Reserved, Free
  <2>5. ASSUME NEW i \in Job \ {j} PROVE JobOK(i)'
    BY <1>5, <2>1, <2>3, SameJob DEF OpSettle, HolderInv, Holds, Reserved, Free
  <2>6. ClaimsOK'
    BY <2>1, <2>2 DEF HolderInv, ClaimsOK, OpRoles
  <2> QED BY <2>4, <2>5, <2>6 DEF HolderInv
<1> QED BY <1>1, <1>2, <1>3, <1>4, <1>5 DEF Maintenance

----------------------------------------------------------------------------
\* The requests and the scheduler.

LEMMA SpawnStep ==
  ASSUME TypeInv, ReservationOwned, HolderInv, NEW t \in Task, NEW j \in Job,
         NEW role \in Roles \ OpRoles, NEW phase \in Phases \ {"commit"},
         Spawn(t, role, phase, j), Free(j), Reserve(j), UNCHANGED op, NEW row, SetJob(j, row),
         Expected(role, phase, row), row.state = "completed" => Continuous(j, row),
         role \in {"record", "finish", "recover", "delete"} => NoOperations(op[j]),
         role = "delete" => ~row.protected
  PROVE  HolderInv'
<1>0. task \in [Task -> TaskRow] /\ job \in [Job -> JobRow]
  BY DEF TypeInv, VariablesTyped
<1>1. /\ task'[t].at = phase /\ task'[t].role = role /\ task'[t].job = j
      /\ \A u \in Task \ {t} : task'[u] = task[u]
  BY <1>0 DEF Spawn, Running, Idle
<1>2. job'[j] = row /\ \A i \in Job \ {j} : job'[i] = job[i]
  BY <1>0 DEF SetJob
<1>3. ~Reserved(t)
  BY DEF Spawn, Busy, Reserved, Unreserved
<1>4. HeldOK(j, task'[t], job'[j], op[j])
  BY <1>1, <1>2 DEF HeldOK
<1> QED BY <1>1, <1>2, <1>3, <1>4, TakeStep

\* A request that changes the row of a job and neither its state nor what the
\* job's holder or its completion depends on.
LEMMA RowKept ==
  ASSUME TypeInv, ReservationOwned, HolderInv, NEW j \in Job, NEW row \in JobRow,
         SetJob(j, row), UNCHANGED <<op, task>>, \A i \in Job : Free(i)' => Free(i),
         row.state = job[j].state, row.attempt = job[j].attempt,
         row.uncertain = job[j].uncertain, job[j].stop => row.stop,
         row.protected = job[j].protected \/ Free(j) \/ ~Terminal(j)
  PROVE  HolderInv'
<1>1. job'[j] = row /\ \A i \in Job \ {j} : job'[i] = job[i]
  BY DEF SetJob, TypeInv, VariablesTyped
<1>2. JobOK(j)
  BY DEF HolderInv
<1>3. job'[j].state = "completed" => Continuous(j, job'[j])
  BY <1>1, <1>2 DEF JobOK, Continuous
<1>4. Free(j)' => FreeOK(job'[j], op'[j])
  BY <1>1, <1>2 DEF JobOK, FreeOK
<1>5. ASSUME NEW t \in Task, Holds(t, j) PROVE HeldOK(j, task[t], job'[j], op[j])
  <2>1. HeldOK(j, task[t], job[j], op[j])
    BY <1>2, <1>5 DEF JobOK
  <2>2. Expected(task[t].role, task[t].at, job'[j])
    BY <1>1, <2>1 DEF HeldOK, Expected
  <2>3. ASSUME task[t].role = "delete", task[t].at \in {"queue", "work"}
        PROVE  ~job'[j].protected
    <3>1. job[j].state \in TerminalStates /\ ~job[j].protected
      BY <2>1, <2>3 DEF HeldOK, Expected, Finishers
    <3>2. ~Free(j)
      BY <1>5 DEF ReservationOwned, Holds
    <3> QED BY <1>1, <3>1, <3>2 DEF Terminal
  <2>4. Continuous(j, job[j]) => Continuous(j, job'[j])
    BY <1>1 DEF Continuous
  <2> QED BY <2>1, <2>2, <2>3, <2>4 DEF HeldOK
<1>6. JobOK(j)'
  BY <1>3, <1>4, <1>5 DEF JobOK, Holds, Reserved
<1>7. ClaimsOK'
  BY DEF HolderInv, ClaimsOK
<1> QED BY <1>1, <1>6, <1>7, RowStep

\* A request that rewrites the row of a job nobody holds.
LEMMA FreeRow ==
  ASSUME TypeInv, ReservationOwned, HolderInv, NEW j \in Job, Free(j), NEW row,
         SetJob(j, row), UNCHANGED <<op, task, active>>,
         row.state = "completed" => Continuous(j, row), FreeOK(row, op[j])
  PROVE  HolderInv'
<1>1. job'[j] = row /\ \A i \in Job \ {j} : job'[i] = job[i]
  BY DEF SetJob, TypeInv, VariablesTyped
<1>2. JobOK(j)'
  BY <1>1 DEF JobOK, Holds, Reserved, ReservationOwned
<1>3. ClaimsOK'
  BY DEF HolderInv, ClaimsOK
<1> QED BY <1>1, <1>2, <1>3, RowStep DEF Free

\* Nobody holds a job that was never added.
LEMMA HeldPresent ==
  ASSUME TypeInv, HolderInv, NEW t \in Task, Reserved(t)
  PROVE  job[task[t].job].state # "absent"
<1>1. /\ Expected(task[t].role, task[t].at, job[task[t].job])
      /\ Fits(task[t].role, task[t].at) /\ task[t].at \in Phases \ Unreserved
  BY Holder DEF HeldOK, TypeInv, VariablesTyped, TaskRow, Reserved, Unreserved
<1> QED BY <1>1 DEF Expected, Fits, Finishing, Phases, Unreserved, TerminalStates

\* The operations of a settled job nobody holds, or that stay as they are
\* wherever one is running.
LEMMA QueueStep ==
  ASSUME TypeInv, ReservationOwned, HolderInv, NEW j \in Job, NEW kind \in OpRoles,
         Enqueue(j, kind) \/ CancelOperation(j, kind)
  PROVE  HolderInv'
<1> DEFINE value == IF op[j][kind] = "none" THEN "queued" ELSE "none"
<1>0. op \in [Job -> [OpRoles -> OpStates]]
  BY DEF TypeInv, VariablesTyped
<1>1. /\ op' = [op EXCEPT ![j][kind] = value] /\ op[j][kind] # "running"
      /\ UNCHANGED <<job, active, task>>
  BY DEF Enqueue, CancelOperation, SetOp, memory
<1>2. /\ \A i \in Job \ {j} : op'[i] = op[i]
      /\ \A k \in OpRoles : op'[j][k] = IF k = kind THEN value ELSE op[j][k]
  BY <1>0, <1>1
<1>3. ClaimsOK'
  <2> SUFFICES ASSUME NEW t \in Task, task[t].role \in OpRoles
               PROVE  op'[task[t].job][task[t].role] = "running"
    BY <1>1 DEF HolderInv, ClaimsOK
  <2>1. op[task[t].job][task[t].role] = "running" /\ task[t].job \in Job
    BY DEF HolderInv, ClaimsOK, TypeInv, TaskOK, OpRoles
  <2> QED BY <1>1, <1>2, <2>1
<1>4. JobOK(j)'
  <2>1. CASE Free(j) /\ Terminal(j)
    BY <1>1, <2>1 DEF HolderInv, JobOK, FreeOK, Terminal, Free, Holds, Reserved,
      ReservationOwned, TerminalStates
  <2>2. CASE CancelOperation(j, kind)
    <3>1. NoOperations(op[j]) => NoOperations(op'[j])
      BY <1>2, <2>2 DEF NoOperations, CancelOperation
    <3> QED BY <1>1, <3>1 DEF HolderInv, JobOK, FreeOK, HeldOK, Free, Holds, Reserved
  <2> QED BY <2>1, <2>2 DEF Enqueue
<1> QED BY <1>1, <1>2, <1>3, <1>4, RowStep DEF Free

LEMMA RequestKeepsHeld ==
  ASSUME TypeInv, ReservationOwned, HolderInv, NEW j \in Job,
         Request(j) \/ Scheduler(j) \/ Expire(j)
  PROVE  HolderInv'
<1> USE DEF JobRow
<1>1. job[j] \in JobRow /\ job \in [Job -> JobRow] /\ JobOK(j)
  BY DEF TypeInv, VariablesTyped, HolderInv
<1>2. \A i \in Job : (Cancel(j) \/ UNCHANGED active) /\ Free(i)' => Free(i)
  BY HolderTyped DEF Cancel, Free
<1>3. ~HasOperations(j) => NoOperations(op[j])
  BY DEF HasOperations, NoOperations
<1>4. Free(j) /\ ~Terminal(j) => NoOperations(op[j])
  BY <1>1 DEF JobOK, FreeOK, Terminal
<1>5. job[j].state = "absent" => Free(j)
  BY HeldPresent DEF ReservationOwned
<1>6. CASE AddJob(j)
  <2>1. PICK d, b : SetJob(j, NewRow("queued", d, b)) /\ UNCHANGED <<op, task, active>>
    BY <1>6 DEF AddJob, memory
  <2>2. NewRow("queued", d, b).state = "queued"
    BY DEF NewRow
  <2>3. Free(j) /\ NoOperations(op[j])
    BY <1>4, <1>5, <1>6 DEF AddJob, Terminal, TerminalStates
  <2> QED BY <2>1, <2>2, <2>3, FreeRow DEF FreeOK
<1>7. CASE Stop(j)
  <2> DEFINE row == StoppedRow(j)
  <2>1. /\ row \in JobRow /\ row.stop
        /\ row.attempt = job[j].attempt /\ row.uncertain = job[j].uncertain
        /\ row.protected = job[j].protected
        /\ (~Free(j) \/ Terminal(j)) => row.state = job[j].state
        /\ ~(~Free(j) \/ Terminal(j)) => row.state \in {"finalizing", "stopped"}
    BY <1>1 DEF StoppedRow, JobStates, ActiveStates, TerminalStates
  <2>2. SetJob(j, row) /\ Cancel(j) /\ UNCHANGED <<op, task>>
    BY <1>7 DEF Stop
  <2> HIDE DEF row
  <2>3. CASE ~Free(j) \/ Terminal(j)
    BY <1>2, <2>1, <2>2, <2>3, RowKept
  <2>4. CASE Free(j) /\ ~Terminal(j)
    <3>1. UNCHANGED active
      BY <2>2, <2>4, HolderTyped DEF Cancel, Free
    <3> QED BY <1>4, <2>1, <2>2, <2>4, <3>1, FreeRow DEF FreeOK, JobRow
  <2> QED BY <2>3, <2>4
<1>8. CASE Retry(j)
  <2> DEFINE row == [job[j] EXCEPT !.state = "queued", !.deadline = "none",
                                   !.duration = FALSE, !.stop = FALSE, !.retries = 0]
  <2>1. row.state = "queued"
    BY <1>1
  <2>2. SetJob(j, row) /\ UNCHANGED <<op, task, active>> /\ Free(j) /\ ~HasOperations(j)
    BY <1>8 DEF Retry, MayRetry, memory
  <2> HIDE DEF row
  <2> QED BY <1>3, <2>1, <2>2, FreeRow DEF FreeOK
<1>9. CASE Protect(j)
  <2>1. PICK b \in BOOLEAN : SetJob(j, [job[j] EXCEPT !.protected = b])
    BY <1>9 DEF Protect
  <2> DEFINE row == [job[j] EXCEPT !.protected = b]
  <2>2. /\ row \in JobRow /\ row.state = job[j].state /\ row.attempt = job[j].attempt
        /\ row.uncertain = job[j].uncertain /\ row.stop = job[j].stop
    BY <1>1
  <2>3. SetJob(j, row) /\ UNCHANGED <<op, task, active>> /\ (Free(j) \/ ~Terminal(j))
    BY <1>9, <2>1 DEF Protect, MayProtect, memory
  <2> HIDE DEF row
  <2> QED BY <2>2, <2>3, RowKept DEF Free
<1>10. CASE Schedule(j)
  <2>1. PICK d \in {"none", "set"}, b \in BOOLEAN :
          SetJob(j, [job[j] EXCEPT !.deadline = d, !.duration = b])
    BY <1>10 DEF Schedule
  <2> DEFINE row == [job[j] EXCEPT !.deadline = d, !.duration = b]
  <2>2. /\ row \in JobRow /\ row.state = job[j].state /\ row.attempt = job[j].attempt
        /\ row.uncertain = job[j].uncertain /\ row.stop = job[j].stop
        /\ row.protected = job[j].protected
    BY <1>1
  <2>3. SetJob(j, row) /\ UNCHANGED <<op, task, active>>
    BY <1>10, <2>1 DEF Schedule, memory
  <2> HIDE DEF row
  <2> QED BY <2>2, <2>3, RowKept DEF Free
<1>11. CASE \E t \in Task : Recover(t, j)
  <2>1. PICK t \in Task : Recover(t, j)
    BY <1>11
  <2>2. RecoveringRow(j).state = "finalizing"
    BY <1>1 DEF RecoveringRow
  <2> QED BY <1>3, <2>1, <2>2, SpawnStep DEF Recover, Expected, Roles, Phases, OpRoles
<1>12. CASE \E t \in Task, role \in {"delete", "files"} : Maintain(t, j, role)
  <2>1. PICK t \in Task, role \in {"delete", "files"} : Maintain(t, j, role)
    BY <1>12
  <2>2. SetJob(j, job[j])
    BY <1>1, <2>1 DEF SetJob, Maintain
  <2>3. Expected(role, "queue", job[j])
    BY <2>1 DEF Maintain, MayMaintain, Terminal, Expected, Finishers
  <2> QED BY <1>1, <1>3, <2>1, <2>2, <2>3, SpawnStep DEF Maintain, MayMaintain, JobOK,
        Roles, Phases, OpRoles
<1>13. CASE \E kind \in OpRoles : Enqueue(j, kind) \/ CancelOperation(j, kind)
  BY <1>13, QueueStep
<1>14. CASE ScheduledCancel(j)
  <2> DEFINE row == [job[j] EXCEPT !.stop = TRUE]
  <2>1. /\ row \in JobRow /\ row.state = job[j].state /\ row.attempt = job[j].attempt
        /\ row.uncertain = job[j].uncertain /\ row.stop /\ row.protected = job[j].protected
    BY <1>1
  <2>2. SetJob(j, row) /\ Cancel(j) /\ UNCHANGED <<op, task>>
    BY <1>14 DEF ScheduledCancel
  <2> HIDE DEF row
  <2> QED BY <1>2, <2>1, <2>2, RowKept
<1>15. CASE ScheduledDrop(j)
  <2> DEFINE row == [job[j] EXCEPT !.stop = TRUE, !.state = "stopped"]
  <2>1. row.state = "stopped"
    BY <1>1
  <2>2. SetJob(j, row) /\ UNCHANGED <<op, task, active>> /\ Free(j)
    BY <1>15 DEF ScheduledDrop, memory
  <2> HIDE DEF row
  <2> QED BY <2>1, <2>2, FreeRow DEF FreeOK, TerminalStates
<1>16. CASE \E t \in Task : FinalizeStopped(t, j)
  <2>1. PICK t \in Task : FinalizeStopped(t, j)
    BY <1>16
  <2>2. SetJob(j, job[j])
    BY <1>1, <2>1 DEF SetJob, FinalizeStopped
  <2>3. job[j].state = "finalizing" /\ Free(j) /\ NoOperations(op[j])
    BY <1>4, <2>1 DEF FinalizeStopped, MayFinalize, Terminal, TerminalStates
  <2> QED BY <2>1, <2>2, <2>3, SpawnStep DEF FinalizeStopped, Expected, Roles, Phases, OpRoles
<1>17. CASE \E t \in Task : ScheduledFinish(t, j)
  <2>1. PICK t \in Task : ScheduledFinish(t, j)
    BY <1>17
  <2> DEFINE row == [job[j] EXCEPT !.stop = TRUE, !.state = "finalizing"]
  <2>2. row.state = "finalizing"
    BY <1>1
  <2>3. SetJob(j, row) /\ Free(j) /\ NoOperations(op[j])
    BY <1>4, <2>1 DEF ScheduledFinish, DeadlineDue
  <2> HIDE DEF row
  <2> QED BY <2>1, <2>2, <2>3, SpawnStep DEF ScheduledFinish, Expected, Roles, Phases, OpRoles
<1>18. CASE Expire(j)
  <2> DEFINE row == [job[j] EXCEPT !.deadline = "due"]
  <2>1. /\ row \in JobRow /\ row.state = job[j].state /\ row.attempt = job[j].attempt
        /\ row.uncertain = job[j].uncertain /\ row.stop = job[j].stop
        /\ row.protected = job[j].protected
    BY <1>1
  <2>2. SetJob(j, row) /\ UNCHANGED <<op, task, active>>
    BY <1>18 DEF Expire, memory
  <2> HIDE DEF row
  <2> QED BY <2>1, <2>2, RowKept DEF Free
<1> QED
  BY <1>6, <1>7, <1>8, <1>9, <1>10, <1>11, <1>12, <1>13, <1>14, <1>15, <1>16, <1>17, <1>18
  DEF Request, Scheduler

----------------------------------------------------------------------------
\* The worker's claim and the start of the process.

LEMMA ClaimKeepsHeld ==
  ASSUME TypeInv, ReservationOwned, HolderInv, NEW t \in Task, NEW j \in Job,
         NEW kind \in OpRoles, Claim(t, j, kind)
  PROVE  HolderInv'
<1>0. task \in [Task -> TaskRow] /\ op \in [Job -> [OpRoles -> OpStates]]
  BY DEF TypeInv, VariablesTyped
<1>1. /\ task'[t].at = "claimed" /\ task'[t].role = kind /\ task'[t].job = j
      /\ \A u \in Task \ {t} : task'[u] = task[u]
  BY <1>0 DEF Claim, Spawn, Running, Idle
<1>2. /\ op'[j][kind] = "running" /\ \A i \in Job \ {j} : op'[i] = op[i]
      /\ UNCHANGED <<job, active>> /\ Free(j)
  BY <1>0 DEF Claim, SetOp
<1>3. ~Reserved(t) /\ ~Reserved(t)'
  BY <1>1 DEF Claim, Spawn, Busy, Reserved, Unreserved
<1>4. job[j].state \in TerminalStates
  BY <1>2 DEF Claim, HolderInv, JobOK, FreeOK, NoOperations
<1>5. JobOK(j)'
  <2>1. \A u \in Task : ~Holds(u, j)'
    BY <1>1, <1>2, <1>3 DEF Holds, Reserved, ReservationOwned, Free
  <2> QED BY <1>2, <1>4, <2>1 DEF HolderInv, JobOK, FreeOK, TerminalStates
<1>6. ASSUME NEW i \in Job \ {j} PROVE JobOK(i)'
  BY <1>1, <1>2, <1>3, SameJob DEF HolderInv, Holds, Reserved, Free
<1>7. ClaimsOK'
  <2>1. \A u \in Task \ {t} : task'[u].role \notin OpRoles
    BY <1>1 DEF Claim, OpActive
  <2> QED BY <1>1, <1>2, <2>1 DEF ClaimsOK
<1> QED BY <1>5, <1>6, <1>7 DEF HolderInv

\* What a start makes of a row, after OperationsOnSettledJobs.
LEMMA StartedRow ==
  ASSUME TypeInv, ReservationOwned, HolderInv, NEW j \in Job
  PROVE  LET row == StartRow(op[j]["recovery"] = "running", job[j]) IN
           /\ row.state \notin {"preparing", "recording"}
           /\ row.state = "finalizing" => row.stop
           /\ row.state = "completed" => row = job[j]
           /\ row.state \in TerminalStates \/ NoOperations(op[j])
<1> DEFINE running == op[j]["recovery"] = "running"
           done == OperationRecovered(running, job[j])
           row == JobRecovered(done)
<1>1. job[j] \in JobRow
  BY DEF TypeInv, VariablesTyped
<1>2. HasOperations(j) => Terminal(j) \/ (job[j].state = "finalizing" /\ running)
  BY SettledWithOperations DEF OperationsOnSettledJobs
<1>3. done \in JobRow
  BY <1>1 DEF OperationRecovered, JobRow, JobStates, TerminalStates
<1>4. /\ done = job[j] \/ done.state = "partial"
      /\ job[j].state = "finalizing" /\ running => done.state = "partial"
  BY <1>1 DEF OperationRecovered, JobRow
<1> HIDE DEF done
<1>5. /\ row = done \/ row.state \in {"queued", "finalizing", "stopped"}
      /\ done.state \in TerminalStates => row = done
      /\ row.state \notin {"preparing", "recording"}
      /\ row.state = "finalizing" => row.stop
  BY <1>3 DEF JobRecovered, JobRow, ActiveStates, TerminalStates
<1>6. HasOperations(j) => row.state \in TerminalStates
  <2>1. HasOperations(j) => done.state \in TerminalStates
    BY <1>2, <1>4 DEF Terminal, TerminalStates
  <2> QED BY <1>5, <2>1
<1>7. row.state = "completed" => row = job[j]
  BY <1>4, <1>5
<1>8. row = StartRow(running, job[j])
  BY DEF StartRow, done
<1> QED BY <1>5, <1>6, <1>7, <1>8 DEF HasOperations, NoOperations

LEMMA StartKeepsHeld ==
  ASSUME TypeInv, ReservationOwned, HolderInv, Start
  PROVE  HolderInv'
<1>1. \A t \in Task : task'[t].role = "none" /\ ~Reserved(t)'
  BY DEF Start, Idle, Reserved, Unreserved
<1>2. ClaimsOK'
  BY <1>1 DEF ClaimsOK, OpRoles
<1>3. ASSUME NEW j \in Job PROVE JobOK(j)'
  <2>1. job'[j] = StartRow(op[j]["recovery"] = "running", job[j])
    BY DEF Start
  <2>2. NoOperations(op[j]) => NoOperations(op'[j])
    BY DEF Start, NoOperations
  <2>3. FreeOK(job'[j], op'[j])
    BY <2>1, <2>2, StartedRow DEF FreeOK
  <2>4. job'[j].state = "completed" => Continuous(j, job'[j])
    BY <2>1, StartedRow DEF HolderInv, JobOK
  <2> QED BY <1>1, <2>3, <2>4 DEF JobOK, Holds
<1> QED BY <1>2, <1>3 DEF HolderInv

LEMMA NextKeepsHeld ==
  ASSUME TypeInv, ReservationOwned, HolderInv, [Next]_vars
  PROVE  HolderInv'
<1>1. CASE \E j \in Job : Request(j) \/ Scheduler(j) \/ Expire(j)
  BY <1>1, RequestKeepsHeld
<1>2. CASE \E t \in Task : RunJob(t) \/ Capture(t)
  BY <1>2, RunKeepsHeld
<1>3. CASE \E t \in Task : Acquire(t) \/ Finish(t) \/ Maintenance(t)
  BY <1>3, FinishKeepsHeld, MaintenanceKeepsHeld
<1>4. CASE \E t \in Task, j \in Job : StartRecording(t, j)
  <2> PICK t \in Task, j \in Job : StartRecording(t, j)
    BY <1>4
  <2>1. SetJob(j, job[j])
    BY DEF StartRecording, SetJob, TypeInv, VariablesTyped
  <2>2. NoOperations(op[j])
    BY DEF StartRecording, HolderInv, JobOK, FreeOK, TerminalStates
  <2>3. Expected("record", "prepare", job[j]) /\ job[j].state # "completed"
    BY DEF StartRecording, Expected
  <2> QED BY <2>1, <2>2, <2>3, SpawnStep DEF StartRecording, Roles, Phases, OpRoles
<1>5. CASE Worker
  BY <1>5, ClaimKeepsHeld DEF Worker
<1>6. CASE (Process /\ ~Start) \/ UNCHANGED vars
  <2>1. UNCHANGED <<job, op, active, task>>
    BY <1>6 DEF Process, Install, InstallEnds, RequestShutdown, IdleShutdown, Exit, Crash,
      Down, memory, vars
  <2>2. ASSUME NEW j \in Job PROVE JobOK(j)'
    BY <2>1, SameJob DEF HolderInv, Holds, Reserved, Free
  <2> QED BY <2>1, <2>2 DEF HolderInv, ClaimsOK
<1>7. CASE Start
  BY <1>7, StartKeepsHeld
<1> QED
  BY <1>1, <1>2, <1>3, <1>4, <1>5, <1>6, <1>7 DEF Next, Process

LEMMA AlwaysHeld == Spec => []HolderInv
<1>1. Init => HolderInv
  <2> SUFFICES ASSUME Init PROVE HolderInv
    OBVIOUS
  <2>1. \A t \in Task : task[t].role = "none" /\ ~Reserved(t)
    BY DEF Init, Idle, Reserved, Unreserved
  <2>2. ASSUME NEW j \in Job PROVE job[j].state = "absent" /\ NoOperations(op[j])
    BY DEF Init, NewRow, NoOperations
  <2> QED BY <2>1, <2>2 DEF HolderInv, ClaimsOK, JobOK, Holds, FreeOK, OpRoles
<1>2. TypeInv /\ ReservationOwned /\ HolderInv /\ [Next]_vars => HolderInv'
  BY NextKeepsHeld
<1> QED BY <1>1, <1>2, AlwaysTyped, ReservationsOwned, PTL DEF Spec

\* An operation waits or runs only on a settled job, or on the one whose files
\* its own recovery is finalizing: a retry or a restart never records over them.
THEOREM OperationsSettled == Spec => []OperationsOnSettledJobs
BY SettledWithOperations, AlwaysTyped, ReservationsOwned, AlwaysHeld, PTL

\* Nothing is left in progress in nobody's hands, whatever failed or crashed.
THEOREM NothingAbandoned == Spec => []NoAbandonedJob
<1>1. HolderInv => NoAbandonedJob
  BY DEF HolderInv, JobOK, FreeOK, NoAbandonedJob
<1> QED BY <1>1, AlwaysHeld, PTL

\* A recording that is shown as completed lost nothing the service noticed.
THEOREM CompletedContinuous == Spec => []CompletedIsContinuous
<1>1. HolderInv => CompletedIsContinuous
  BY DEF HolderInv, JobOK, Continuous, CompletedIsContinuous
<1> QED BY <1>1, AlwaysHeld, PTL

----------------------------------------------------------------------------
\* The recorders. A task becomes one only when the scheduler starts it.
Recorders == {t \in Task : task[t].at \in Recording}
RecordersKept ==
  \A t \in Task : task'[t].at \in Recording => t \in Recorders /\ task'[t].job = task[t].job

LEMMA SpawnPhase ==
  ASSUME TypeInv, NEW t \in Task, NEW j \in Job, NEW role, NEW phase, Spawn(t, role, phase, j),
         phase \notin Recording
  PROVE  RecordersKept
BY DEF TypeInv, VariablesTyped, Spawn, Running, Idle, Recorders, RecordersKept

LEMMA RequestRecorders ==
  ASSUME TypeInv, NEW j \in Job, Request(j) \/ Scheduler(j) \/ Expire(j)
  PROVE  RecordersKept
<1>1. CASE \E t \in Task : Recover(t, j) \/ FinalizeStopped(t, j) \/ ScheduledFinish(t, j)
  BY <1>1, SpawnPhase DEF Recover, FinalizeStopped, ScheduledFinish, Recording
<1>2. CASE \E t \in Task, role \in {"delete", "files"} : Maintain(t, j, role)
  BY <1>2, SpawnPhase DEF Maintain, Recording
<1>3. CASE UNCHANGED task
  BY <1>3 DEF Recorders, RecordersKept
<1> QED
  BY <1>1, <1>2, <1>3 DEF Request, Scheduler, Expire, AddJob, Stop, Retry, Protect,
    Schedule, Enqueue, CancelOperation, ScheduledCancel, ScheduledDrop, memory

LEMMA TaskRecorders ==
  ASSUME TypeInv, NEW t \in Task,
         RunJob(t) \/ Capture(t) \/ Acquire(t) \/ Finish(t) \/ Maintenance(t)
  PROVE  RecordersKept
<1>0. task \in [Task -> TaskRow]
  BY DEF TypeInv, VariablesTyped
<1>1. ASSUME NEW phase, Go(t, phase), task[t].at \in Recording \/ phase \notin Recording
      PROVE  RecordersKept
  BY <1>0, <1>1 DEF Go, Recorders, RecordersKept, TaskRow
<1>2. CASE RunJob(t) \/ Capture(t)
  <2>1. CASE NaturalEnd(t)
    BY <1>0, <2>1 DEF NaturalEnd, Recorders, RecordersKept, Recording, TaskRow
  <2>2. CASE UNCHANGED task
    BY <2>2 DEF Recorders, RecordersKept
  <2>3. CASE task[t].at \in Recording /\ \E phase : Go(t, phase)
    BY <1>1, <2>3
  <2> QED BY <1>2, <2>1, <2>2, <2>3 DEF RunJob, Capture, At, Recording, Prepare,
      InspectCancelled, InspectFailed, InspectRejected, InspectUpcoming, InspectEnded,
      BeginAttempt, CaptureReports, CaptureEnds, CaptureFails, AfterCapture, Ended,
      Interrupted, Reinspect, RetryLater
<1>3. CASE Acquire(t) \/ Finish(t)
  <2>1. CASE Verify(t)
    <3>1. PICK verdict : task' = [task EXCEPT ![t].at = "commit", ![t].verdict = verdict]
      BY <2>1 DEF Verify
    <3> QED BY <1>0, <3>1 DEF Recorders, RecordersKept, Recording, TaskRow
  <2>2. CASE \E phase \in Phases \ Recording : Go(t, phase)
    BY <1>1, <2>2
  <2> QED BY <1>3, <2>1, <2>2 DEF Acquire, Finish, FinishBegins, Commit, Published,
        FinishFails, TaskError, Phases, Recording
<1>4. CASE Release(t) \/ OpSettle(t)
  <2>1. \A role, j : /\ Running(role, "settle", j).at = "settle"
                     /\ Running(role, "claimed", j).at = "claimed"
    BY DEF Running, Idle
  <2>2. Idle.at = "idle"
    BY DEF Idle
  <2> QED BY <1>0, <1>4, <2>1, <2>2 DEF Release, OpSettle, Recorders, RecordersKept, Recording
<1>5. CASE DeleteCommit(t) \/ WorkDone(t) \/ OpReserve(t) \/ OpRefused(t)
  <2>1. \E phase \in Phases \ Recording : Go(t, phase)
    BY <1>5 DEF DeleteCommit, WorkDone, OpReserve, OpRefused, Phases, Recording
  <2> QED BY <1>1, <2>1
<1> QED BY <1>2, <1>3, <1>4, <1>5 DEF Maintenance

\* A slot is taken for every recorder, if also for other tasks.
LEMMA SlotsCountRecorders ==
  ASSUME TypeInv, ReservationOwned, HolderInv
  PROVE  /\ IsFiniteSet(Recorders) /\ Cardinality(Recorders) \in Nat
         /\ Cardinality(RecordingSlots) \in Nat
         /\ Cardinality(Recorders) <= Cardinality(RecordingSlots)
<1> DEFINE Owners == {t \in Task : Reserved(t) /\ ~Terminal(task[t].job)}
           owns == [t \in Owners |-> task[t].job]
<1>1. IsFiniteSet(Owners)
  BY FS_Subset, TaskAssumption
<1>2. owns \in Surjection(Owners, RecordingSlots)
  <2>1. \A t \in Owners : owns[t] \in RecordingSlots
    BY HolderTyped DEF ReservationOwned, RecordingSlots
  <2>2. \A j \in RecordingSlots : \E t \in Owners : owns[t] = j
    BY DEF ReservationOwned, RecordingSlots
  <2> QED BY <2>1, <2>2 DEF Surjection
<1>3. owns \in Injection(Owners, RecordingSlots)
  BY <1>2 DEF Injection, IsInjective, Surjection, ReservationOwned
<1>4. IsFiniteSet(RecordingSlots) /\ Cardinality(RecordingSlots) = Cardinality(Owners)
  BY <1>1, <1>2, <1>3, FS_Surjection
<1>5. Recorders \subseteq Owners
  <2>1. ASSUME NEW t \in Recorders PROVE Reserved(t) /\ ~Terminal(task[t].job)
    <3>1. Reserved(t)
      BY <2>1 DEF Recorders, Recording, Reserved, Unreserved
    <3>2. Expected(task[t].role, task[t].at, job[task[t].job])
      BY <2>1, <3>1, Holder DEF Recorders, HeldOK
    <3> QED BY <2>1, <3>1, <3>2 DEF Recorders, Recording, Expected, Terminal, TerminalStates
  <2> QED BY <2>1 DEF Recorders
<1>6. IsFiniteSet(Recorders) /\ Cardinality(Recorders) <= Cardinality(Owners)
  BY <1>1, <1>5, FS_Subset
<1> QED BY <1>4, <1>6, FS_CardinalityType

LEMMA NextKeepsLimit ==
  ASSUME TypeInv, ReservationOwned, HolderInv, RecordingLimit, [Next]_vars
  PROVE  RecordingLimit'
<1>0. RecordingLimit <=> Cardinality(Recorders) <= MaxRecordings
  BY DEF RecordingLimit, Recorders
<1>1. RecordingLimit' <=> Cardinality(Recorders') <= MaxRecordings
  BY DEF RecordingLimit, Recorders
<1>2. ASSUME Recorders' \subseteq Recorders PROVE RecordingLimit'
  <2>1. /\ IsFiniteSet(Recorders') /\ Cardinality(Recorders') <= Cardinality(Recorders)
    BY <1>2, SlotsCountRecorders, FS_Subset
  <2> QED BY <1>0, <1>1, <2>1, SlotsCountRecorders, FS_CardinalityType, NatAssumption
<1>3. CASE \E t \in Task, j \in Job : StartRecording(t, j)
  <2> PICK t \in Task, j \in Job : StartRecording(t, j)
    BY <1>3
  <2>1. Recorders' \subseteq Recorders \cup {t}
    BY DEF StartRecording, Spawn, Recorders, TypeInv, VariablesTyped
  <2>2. Cardinality(RecordingSlots) < MaxRecordings
    BY DEF StartRecording, SlotFree
  <2>3. /\ IsFiniteSet(Recorders \cup {t})
        /\ Cardinality(Recorders \cup {t}) \in Nat
        /\ Cardinality(Recorders \cup {t}) <= Cardinality(Recorders) + 1
    <3>1. IsFiniteSet(Recorders) /\ Cardinality(Recorders) \in Nat
      BY SlotsCountRecorders
    <3>2. /\ IsFiniteSet(Recorders \cup {t})
          /\ Cardinality(Recorders \cup {t}) =
               IF t \in Recorders THEN Cardinality(Recorders) ELSE Cardinality(Recorders) + 1
      BY <3>1, FS_AddElement
    <3> QED BY <3>1, <3>2
  <2>4. IsFiniteSet(Recorders') /\ Cardinality(Recorders') <= Cardinality(Recorders \cup {t})
    BY <2>1, <2>3, FS_Subset
  <2>5. Cardinality(Recorders') \in Nat
    BY <2>4, FS_CardinalityType
  <2> QED BY <1>1, <2>2, <2>3, <2>4, <2>5, SlotsCountRecorders, NatAssumption
<1>k. ASSUME RecordersKept PROVE RecordingLimit'
  BY <1>2, <1>k DEF RecordersKept, Recorders
<1>4. CASE \E j \in Job : Request(j) \/ Scheduler(j) \/ Expire(j)
  BY <1>k, <1>4, RequestRecorders
<1>5. CASE \E t \in Task : RunJob(t) \/ Capture(t) \/ Acquire(t) \/ Finish(t) \/ Maintenance(t)
  BY <1>k, <1>5, TaskRecorders
<1>6. CASE Worker
  BY <1>k, <1>6, SpawnPhase DEF Worker, Claim, Recording
<1>7. CASE Process \/ UNCHANGED vars
  <2>1. Recorders' \subseteq Recorders
    BY <1>7 DEF Process, Install, InstallEnds, RequestShutdown, IdleShutdown, Exit, Crash,
      Down, Start, memory, vars, Recorders, Recording, Idle
  <2> QED BY <1>2, <2>1
<1> QED BY <1>3, <1>4, <1>5, <1>6, <1>7 DEF Next

\* Never more recorders than settings.max_recordings, although the scheduler
\* counts reservations of unsettled jobs, not recorders, and retries give up
\* and take the slot again.
THEOREM RecordingsLimited == Spec => []RecordingLimit
<1>1. Init => RecordingLimit
  <2> SUFFICES ASSUME Init PROVE RecordingLimit
    OBVIOUS
  <2>1. {t \in Task : task[t].at \in Recording} = {}
    BY DEF Init, Idle, Recording
  <2> QED BY <2>1, FS_EmptySet, NatAssumption DEF RecordingLimit
<1>2. TypeInv /\ ReservationOwned /\ HolderInv /\ RecordingLimit /\ [Next]_vars
      => RecordingLimit'
  BY NextKeepsLimit
<1> QED BY <1>1, <1>2, AlwaysTyped, ReservationsOwned, AlwaysHeld, PTL DEF Spec

----------------------------------------------------------------------------
\* The retry counter. A restart queues a job again that was being finalized after
\* its last retry. Otherwise a job whose counter has passed the limit by more than
\* the restarts waits for no recorder and has none.
Resumable == {"queued", "waiting", "reconnecting"}
Spent(j) == job[j].retries > MaxRetries + restarts

RetryInv ==
  \A j \in Job :
    /\ job[j].retries <= MaxRetries + 1 + restarts
    /\ Spent(j) => job[j].state \notin Resumable /\ \A t \in Recorders : task[t].job # j

LEMMA RetriesWritten ==
  ASSUME TypeInv, RetryInv, RecordersKept, restarts' = restarts, NEW j \in Job, NEW row,
         SetJob(j, row), row.retries \in {0, job[j].retries},
         row.state \in Resumable =>
           \/ row.retries = 0 \/ job[j].state \in Resumable
           \/ \E t \in Recorders : task[t].job = j
  PROVE  RetryInv'
<1>1. job'[j] = row /\ \A i \in Job \ {j} : job'[i] = job[i]
  BY DEF SetJob, TypeInv, VariablesTyped
<1>2. \A i \in Job : job[i].retries \in Nat
  BY DEF TypeInv, VariablesTyped, JobRow
<1>3. restarts \in Nat
  BY NatAssumption DEF TypeInv, VariablesTyped
<1>4. ASSUME NEW i \in Job
      PROVE  /\ job'[i].retries <= MaxRetries + 1 + restarts
             /\ Spent(i)' => Spent(i) /\ job'[i].state \notin Resumable
  BY <1>1, <1>2, <1>3, NatAssumption DEF RetryInv, Spent
<1> QED BY <1>4 DEF RetryInv, RecordersKept, Recorders

LEMMA RetriesUntouched ==
  ASSUME RetryInv, RecordersKept, UNCHANGED <<job, restarts>>
  PROVE  RetryInv'
BY DEF RetryInv, Spent, RecordersKept, Recorders

LEMMA RequestRetries ==
  ASSUME TypeInv, RetryInv, NEW j \in Job, Request(j) \/ Scheduler(j) \/ Expire(j)
  PROVE  RetryInv'
<1> USE DEF JobRow
<1>1. job[j] \in JobRow
  BY DEF TypeInv, VariablesTyped
<1>2. RecordersKept
  BY RequestRecorders
<1>3. restarts' = restarts
  BY DEF Request, Scheduler, Expire, AddJob, Stop, Retry, Protect, Schedule, Recover,
    Maintain, Enqueue, CancelOperation, ScheduledCancel, ScheduledDrop, FinalizeStopped,
    ScheduledFinish, memory, process
<1>4. ASSUME NEW row, SetJob(j, row), row.retries \in {0, job[j].retries},
             row.retries = 0 \/ row.state = job[j].state \/ row.state \notin Resumable
      PROVE  RetryInv'
  BY <1>2, <1>3, <1>4, RetriesWritten
<1>5. CASE AddJob(j)
  <2>1. PICK d, b : SetJob(j, NewRow("queued", d, b))
    BY <1>5 DEF AddJob
  <2>2. NewRow("queued", d, b).retries = 0
    BY DEF NewRow
  <2> QED BY <1>4, <2>1, <2>2
<1>6. CASE Stop(j)
  <2> DEFINE row == StoppedRow(j)
  <2>1. row.retries = job[j].retries /\ row.state \in {job[j].state, "finalizing", "stopped"}
    BY <1>1 DEF StoppedRow
  <2>2. SetJob(j, row)
    BY <1>6 DEF Stop
  <2> HIDE DEF row
  <2> QED BY <1>4, <2>1, <2>2 DEF Resumable
<1>7. CASE Retry(j)
  <2> DEFINE row == [job[j] EXCEPT !.state = "queued", !.deadline = "none",
                                   !.duration = FALSE, !.stop = FALSE, !.retries = 0]
  <2>1. row.retries = 0
    BY <1>1
  <2>2. SetJob(j, row)
    BY <1>7 DEF Retry
  <2> HIDE DEF row
  <2> QED BY <1>4, <2>1, <2>2
<1>8. CASE Protect(j)
  <2>1. PICK b \in BOOLEAN : SetJob(j, [job[j] EXCEPT !.protected = b])
    BY <1>8 DEF Protect
  <2>2. /\ [job[j] EXCEPT !.protected = b].state = job[j].state
        /\ [job[j] EXCEPT !.protected = b].retries = job[j].retries
    BY <1>1
  <2> QED BY <1>4, <2>1, <2>2
<1>9. CASE Schedule(j)
  <2>1. PICK d, b : SetJob(j, [job[j] EXCEPT !.deadline = d, !.duration = b])
    BY <1>9 DEF Schedule
  <2>2. /\ [job[j] EXCEPT !.deadline = d, !.duration = b].state = job[j].state
        /\ [job[j] EXCEPT !.deadline = d, !.duration = b].retries = job[j].retries
    BY <1>1
  <2> QED BY <1>4, <2>1, <2>2
<1>10. CASE \E t \in Task : Recover(t, j)
  <2>1. RecoveringRow(j).state = "finalizing" /\ RecoveringRow(j).retries = job[j].retries
    BY <1>1 DEF RecoveringRow
  <2> QED BY <1>4, <1>10, <2>1 DEF Recover, Resumable
<1>11. CASE ScheduledCancel(j)
  <2>1. /\ [job[j] EXCEPT !.stop = TRUE].state = job[j].state
        /\ [job[j] EXCEPT !.stop = TRUE].retries = job[j].retries
    BY <1>1
  <2> QED BY <1>4, <1>11, <2>1 DEF ScheduledCancel
<1>12. ASSUME NEW state \in {"stopped", "finalizing"},
              SetJob(j, [job[j] EXCEPT !.stop = TRUE, !.state = state])
       PROVE  RetryInv'
  <2>1. /\ [job[j] EXCEPT !.stop = TRUE, !.state = state].state = state
        /\ [job[j] EXCEPT !.stop = TRUE, !.state = state].retries = job[j].retries
    BY <1>1
  <2> QED BY <1>4, <1>12, <2>1 DEF Resumable
<1>13. CASE ScheduledDrop(j) \/ \E t \in Task : ScheduledFinish(t, j)
  BY <1>12, <1>13 DEF ScheduledDrop, ScheduledFinish
<1>14. CASE Expire(j)
  <2>1. /\ [job[j] EXCEPT !.deadline = "due"].state = job[j].state
        /\ [job[j] EXCEPT !.deadline = "due"].retries = job[j].retries
    BY <1>1
  <2> QED BY <1>4, <1>14, <2>1 DEF Expire
<1>15. CASE UNCHANGED job
  BY <1>2, <1>3, <1>15, RetriesUntouched
<1> QED
  BY <1>5, <1>6, <1>7, <1>8, <1>9, <1>10, <1>11, <1>13, <1>14, <1>15
  DEF Request, Scheduler, Maintain, Enqueue, CancelOperation, FinalizeStopped

LEMMA TaskRetries ==
  ASSUME TypeInv, ReservationOwned, RetryInv, NEW t \in Task,
         RunJob(t) \/ Capture(t) \/ Acquire(t) \/ Finish(t) \/ Maintenance(t)
  PROVE  RetryInv'
<1> USE DEF At, Row, JobRow
<1>0. Busy(t)
  BY DEF RunJob, Capture, Acquire, Finish, Maintenance, Busy, Prepare, InspectCancelled,
    InspectFailed, InspectRejected, InspectUpcoming, InspectEnded, BeginAttempt,
    CaptureReports, CaptureEnds, CaptureFails, AfterCapture, Ended, Reinspect, RetryLater,
    FinishBegins, Verify, Commit, Published, FinishFails, TaskError, DeleteCommit,
    WorkDone, Release, OpReserve, OpRefused, OpSettle
<1> PICK j \in Job : j = task[t].job
  BY <1>0 DEF TypeInv, TaskOK, Busy
<1>1. job[j] \in JobRow
  BY DEF TypeInv, VariablesTyped
<1>2. RecordersKept
  BY TaskRecorders
<1>3. restarts' = restarts
  BY DEF RunJob, Capture, Acquire, Finish, Maintenance, process, Prepare, InspectCancelled,
    InspectFailed, InspectRejected, InspectUpcoming, InspectEnded, BeginAttempt,
    CaptureReports, CaptureEnds, CaptureFails, AfterCapture, Ended, Reinspect, RetryLater,
    FinishBegins, Verify, Commit, Published, FinishFails, TaskError, DeleteCommit,
    WorkDone, Release, OpReserve, OpRefused, OpSettle
<1>4. ASSUME NEW row, SetJob(j, row), row.retries \in {0, job[j].retries},
             row.state \in Resumable =>
               \/ row.retries = 0 \/ row.state = job[j].state \/ task[t].at \in Recording
      PROVE  RetryInv'
  BY <1>2, <1>3, <1>4, RetriesWritten DEF Recorders
<1>5. ASSUME NEW state, SetJob(j, [job[j] EXCEPT !.state = state]),
             state \notin Resumable \/ task[t].at \in Recording
      PROVE  RetryInv'
  <2>1. /\ [job[j] EXCEPT !.state = state].state = state
        /\ [job[j] EXCEPT !.state = state].retries = job[j].retries
    BY <1>1
  <2> QED BY <1>4, <1>5, <2>1
<1>6. CASE Prepare(t) \/ InspectRejected(t) \/ InspectUpcoming(t)
  BY <1>5, <1>6 DEF Prepare, InspectRejected, InspectUpcoming, Recording
<1>7. CASE Ended(t) \/ InspectCancelled(t)
  <2> DEFINE row == InterruptedRow(job[j])
  <2>1. row.retries = job[j].retries
    BY <1>1 DEF InterruptedRow
  <2>2. CASE SetJob(j, row)
    <3>1. task[t].at \in Recording
      BY <1>7 DEF Ended, InspectCancelled, Recording
    <3> HIDE DEF row
    <3> QED BY <1>4, <2>1, <2>2, <3>1
  <2> QED BY <1>2, <1>3, <1>7, <2>2, RetriesUntouched DEF Ended, InspectCancelled, Interrupted
<1>8. CASE BeginAttempt(t)
  <2> DEFINE row == BeginRow(j, job[j])
  <2>1. row.state = "recording" /\ row.retries = job[j].retries
    BY <1>1 DEF BeginRow, AttemptRow
  <2>2. SetJob(j, row)
    BY <1>8 DEF BeginAttempt
  <2> HIDE DEF row
  <2> QED BY <1>4, <2>1, <2>2 DEF Resumable
<1>9. ASSUME NEW b, SetJob(j, [job[j] EXCEPT !.uncertain = b]) PROVE RetryInv'
  <2>1. /\ [job[j] EXCEPT !.uncertain = b].state = job[j].state
        /\ [job[j] EXCEPT !.uncertain = b].retries = job[j].retries
    BY <1>1
  <2> QED BY <1>4, <1>9, <2>1
<1>10. CASE CaptureReports(t)
  BY <1>5, <1>9, <1>10 DEF CaptureReports, Resumable
<1>11. CASE RetryLater(t)
  <2> DEFINE row == RetryRow(job[j])
  <2>1. /\ row.retries = job[j].retries + 1
        /\ job[j].retries + 1 > MaxRetries => row.state = "failed"
    BY <1>1 DEF RetryRow
  <2>2. job'[j] = row /\ \A i \in Job \ {j} : job'[i] = job[i]
    BY <1>11 DEF RetryLater, SetJob, TypeInv, VariablesTyped
  <2> HIDE DEF row
  <2>3. t \in Recorders /\ task'[t].at \notin Recording
    <3>1. task \in [Task -> TaskRow]
      BY DEF TypeInv, VariablesTyped
    <3> QED BY <1>11, <3>1 DEF RetryLater, Recorders, Recording, Go, TaskRow
  <2>4. \A u \in Recorders : task[u].job = j => u = t
    BY <2>3 DEF ReservationOwned, Recorders, Reserved, Unreserved, Recording
  <2>5. ~Spent(j)
    BY <2>3 DEF RetryInv
  <2>6. job[j].retries \in Nat /\ restarts \in Nat
    BY <1>1, NatAssumption DEF TypeInv, VariablesTyped
  <2>7. /\ row.retries <= MaxRetries + 1 + restarts
        /\ row.retries > MaxRetries + restarts => row.state = "failed"
    BY <2>1, <2>5, <2>6, NatAssumption DEF Spent
  <2>8. \A u \in Recorders' : u \in Recorders /\ u # t /\ task'[u].job = task[u].job
    BY <1>2, <2>3 DEF RecordersKept, Recorders
  <2>9. ASSUME NEW i \in Job
        PROVE  /\ job'[i].retries <= MaxRetries + 1 + restarts
               /\ Spent(i)' => job'[i].state \notin Resumable
               /\ Spent(i)' => \A u \in Recorders' : task'[u].job # i
    <3>1. CASE i = j
      BY <2>2, <2>4, <2>7, <2>8, <3>1, <1>3 DEF Spent, Resumable
    <3>2. CASE i # j
      BY <2>2, <2>8, <3>2, <1>3 DEF Spent, RetryInv
    <3> QED BY <3>1, <3>2
  <2> QED BY <1>3, <2>9 DEF RetryInv
<1>12. CASE FinishBegins(t) \/ TaskError(t)
  BY <1>5, <1>12 DEF FinishBegins, TaskError, Resumable
<1>13. CASE Verify(t)
  <2>1. PICK intact \in BOOLEAN : SetJob(j, [job[j] EXCEPT !.uncertain = @ \/ ~intact])
    BY <1>13 DEF Verify
  <2> QED BY <1>9, <2>1
<1>14. CASE Commit(t)
  <2>1. task[t].verdict \in {"completed", "stopped", "partial"}
    BY <1>14 DEF Commit, TypeInv, VariablesTyped, TaskOK, TaskRow
  <2> QED BY <1>5, <1>14, <2>1 DEF Commit, Resumable
<1>15. CASE DeleteCommit(t)
  <2>1. NewRow("deleted", "none", FALSE).retries = 0
    BY DEF NewRow
  <2> QED BY <1>4, <1>15, <2>1 DEF DeleteCommit
<1>16. CASE OpReserve(t)
  <2>1. RecoveringRow(j).state = "finalizing" /\ RecoveringRow(j).retries = job[j].retries
    BY <1>1 DEF RecoveringRow
  <2>2. CASE SetJob(j, RecoveringRow(j))
    BY <1>4, <2>1, <2>2 DEF Resumable
  <2> QED BY <1>2, <1>3, <1>16, <2>2, RetriesUntouched DEF OpReserve
<1>17. CASE UNCHANGED job
  BY <1>2, <1>3, <1>17, RetriesUntouched
<1> QED
  BY <1>6, <1>7, <1>8, <1>10, <1>11, <1>12, <1>13, <1>14, <1>15, <1>16, <1>17
  DEF RunJob, Capture, Acquire, Finish, Maintenance, InspectFailed, InspectEnded, CaptureEnds,
    CaptureFails, AfterCapture, Reinspect, Published, FinishFails, WorkDone, Release,
    OpRefused, OpSettle

LEMMA NextKeepsRetries ==
  ASSUME TypeInv, ReservationOwned, RetryInv, [Next]_vars
  PROVE  RetryInv'
<1>1. CASE \E j \in Job : Request(j) \/ Scheduler(j) \/ Expire(j)
  BY <1>1, RequestRetries
<1>2. CASE \E t \in Task : RunJob(t) \/ Capture(t) \/ Acquire(t) \/ Finish(t) \/ Maintenance(t)
  BY <1>2, TaskRetries
<1>3. CASE \E t \in Task, j \in Job : StartRecording(t, j)
  <2> PICK t \in Task, j \in Job : StartRecording(t, j)
    BY <1>3
  <2>1. task'[t].job = j /\ \A u \in Task \ {t} : task'[u] = task[u]
    BY DEF StartRecording, Spawn, Running, TaskRow, Idle, TypeInv, VariablesTyped
  <2>2. UNCHANGED <<job, restarts>> /\ ~Spent(j)
    BY DEF StartRecording, RetryInv, Resumable, process
  <2> QED BY <2>1, <2>2 DEF RetryInv, Spent, Recorders
<1>4. CASE Worker
  <2>1. RecordersKept /\ UNCHANGED <<job, restarts>>
    BY <1>4, SpawnPhase DEF Worker, Claim, Recording, process
  <2> QED BY <2>1, RetriesUntouched
<1>5. CASE Start
  <2>1. restarts \in Nat /\ restarts' = restarts + 1 /\ \A j \in Job : job[j].retries \in Nat
    BY <1>5, NatAssumption DEF Start, TypeInv, VariablesTyped, JobRow
  <2>2. ASSUME NEW j \in Job PROVE job'[j].retries = job[j].retries
    <3> DEFINE done == OperationRecovered(op[j]["recovery"] = "running", job[j])
    <3>1. job[j] \in JobRow /\ job'[j] = JobRecovered(done)
      BY <1>5 DEF Start, StartRow, TypeInv, VariablesTyped
    <3>2. done \in JobRow /\ done.retries = job[j].retries
      BY <3>1 DEF OperationRecovered, JobRow, JobStates, TerminalStates
    <3> HIDE DEF done
    <3> QED BY <3>1, <3>2 DEF JobRecovered, JobRow
  <2>3. \A j \in Job : job'[j].retries <= MaxRetries + restarts'
    BY <2>1, <2>2, NatAssumption DEF RetryInv
  <2>4. \A j \in Job : job'[j].retries <= MaxRetries + 1 + restarts' /\ ~Spent(j)'
    BY <2>1, <2>2, <2>3, NatAssumption DEF Spent
  <2> QED BY <2>4 DEF RetryInv
<1>6. CASE (Process /\ ~Start) \/ UNCHANGED vars
  <2>1. UNCHANGED <<job, task, restarts>>
    BY <1>6 DEF Process, Install, InstallEnds, RequestShutdown, IdleShutdown, Exit, Crash,
      Down, memory, vars, process
  <2> QED BY <2>1 DEF RetryInv, Spent, Recorders
<1> QED BY <1>1, <1>2, <1>3, <1>4, <1>5, <1>6 DEF Next

\* Every variable keeps its type, and the retry counter, which nothing in the
\* code limits, passes the limit by at most one, and one more for each restart.
THEOREM TypeCorrect == Spec => []TypeOK
<1>1. Init => RetryInv
  <2> SUFFICES ASSUME Init, NEW j \in Job
               PROVE  job[j].retries <= MaxRetries + 1 + restarts /\ ~Spent(j)
    BY DEF RetryInv
  <2>1. job[j].retries = 0 /\ restarts = 0
    BY DEF Init, NewRow
  <2> QED BY <2>1, NatAssumption DEF Spent
<1>2. TypeInv /\ ReservationOwned /\ RetryInv /\ [Next]_vars => RetryInv'
  BY NextKeepsRetries
<1>3. TypeInv /\ RetryInv => TypeOK
  BY DEF TypeInv, RetryInv, TypeOK, RetriesBounded
<1> QED BY <1>1, <1>2, <1>3, AlwaysTyped, ReservationsOwned, PTL DEF Spec

----------------------------------------------------------------------------
\* What a step may never do to a row.
RowStepOK(j) ==
  /\ job[j].protected /\ Exists(j) => Exists(j)'
  /\ job[j].stop /\ ~job'[j].stop => Free(j) \/ job'[j].state = "deleted"
  /\ op[j]["recovery"] = "running" => job'[j].state # "queued"

LEMMA RecoveringState ==
  ASSUME TypeInv, ReservationOwned, HolderInv, NEW j \in Job, op[j]["recovery"] = "running"
  PROVE  job[j].state \in {"finalizing"} \cup TerminalStates /\ ~NoOperations(op[j])
BY SettledWithOperations DEF OperationsOnSettledJobs, HasOperations, NoOperations, OpRoles,
  Terminal

LEMMA RowUntouched ==
  ASSUME TypeInv, ReservationOwned, HolderInv, NEW j \in Job, job'[j] = job[j]
  PROVE  RowStepOK(j)
BY RecoveringState DEF RowStepOK, Exists, TerminalStates

LEMMA RowWritten ==
  ASSUME TypeInv, ReservationOwned, HolderInv, NEW j \in Job, NEW row, SetJob(j, row),
         row.state \notin {"absent", "deleted"} \/ row.state = job[j].state,
         job[j].stop => row.stop \/ Free(j),
         row.state = "queued" => NoOperations(op[j]) \/ job[j].state = "queued",
         NEW i \in Job
  PROVE  RowStepOK(i)
<1>1. job'[j] = row /\ \A k \in Job \ {j} : job'[k] = job[k]
  BY DEF SetJob, TypeInv, VariablesTyped
<1>2. RowStepOK(j)
  BY <1>1, RecoveringState DEF RowStepOK, Exists, TerminalStates
<1> QED BY <1>1, <1>2, RowUntouched

LEMMA RequestRowSteps ==
  ASSUME TypeInv, ReservationOwned, HolderInv, NEW j \in Job,
         Request(j) \/ Scheduler(j) \/ Expire(j), NEW i \in Job
  PROVE  RowStepOK(i)
<1> USE DEF JobRow
<1>1. job[j] \in JobRow
  BY DEF TypeInv, VariablesTyped
<1>2. ~HasOperations(j) => NoOperations(op[j])
  BY DEF HasOperations, NoOperations
<1>3. job[j].state = "absent" => Free(j) /\ NoOperations(op[j])
  BY HeldPresent DEF ReservationOwned, HolderInv, JobOK, FreeOK, TerminalStates
<1>4. ASSUME NEW row, SetJob(j, row), row.state = job[j].state, row.stop = job[j].stop \/ row.stop
      PROVE  RowStepOK(i)
  BY <1>4, RowWritten
<1>5. CASE AddJob(j)
  <2>1. PICK d, b : SetJob(j, NewRow("queued", d, b))
    BY <1>5 DEF AddJob
  <2>2. NewRow("queued", d, b).state = "queued"
    BY DEF NewRow
  <2> QED BY <1>3, <1>5, <2>1, <2>2, RowWritten DEF AddJob
<1>6. CASE Stop(j)
  <2> DEFINE row == StoppedRow(j)
  <2>1. row.stop /\ row.state \in {job[j].state, "finalizing", "stopped"}
    BY <1>1 DEF StoppedRow
  <2>2. SetJob(j, row)
    BY <1>6 DEF Stop
  <2> HIDE DEF row
  <2> QED BY <2>1, <2>2, RowWritten
<1>7. CASE Retry(j)
  <2> DEFINE row == [job[j] EXCEPT !.state = "queued", !.deadline = "none",
                                   !.duration = FALSE, !.stop = FALSE, !.retries = 0]
  <2>1. row.state = "queued"
    BY <1>1
  <2>2. SetJob(j, row) /\ Free(j) /\ NoOperations(op[j])
    BY <1>2, <1>7 DEF Retry, MayRetry
  <2> HIDE DEF row
  <2> QED BY <2>1, <2>2, RowWritten
<1>8. CASE Protect(j)
  <2>1. PICK b \in BOOLEAN : SetJob(j, [job[j] EXCEPT !.protected = b])
    BY <1>8 DEF Protect
  <2>2. /\ [job[j] EXCEPT !.protected = b].state = job[j].state
        /\ [job[j] EXCEPT !.protected = b].stop = job[j].stop
    BY <1>1
  <2> QED BY <1>4, <2>1, <2>2
<1>9. CASE Schedule(j)
  <2>1. PICK d, b : SetJob(j, [job[j] EXCEPT !.deadline = d, !.duration = b])
    BY <1>9 DEF Schedule
  <2>2. /\ [job[j] EXCEPT !.deadline = d, !.duration = b].state = job[j].state
        /\ [job[j] EXCEPT !.deadline = d, !.duration = b].stop = job[j].stop
    BY <1>1
  <2> QED BY <1>4, <2>1, <2>2
<1>10. CASE \E t \in Task : Recover(t, j)
  <2>1. RecoveringRow(j).state = "finalizing"
    BY <1>1 DEF RecoveringRow
  <2> QED BY <1>10, <2>1, RowWritten DEF Recover
<1>11. CASE ScheduledCancel(j)
  <2>1. /\ [job[j] EXCEPT !.stop = TRUE].state = job[j].state
        /\ [job[j] EXCEPT !.stop = TRUE].stop
    BY <1>1
  <2> QED BY <1>4, <1>11, <2>1 DEF ScheduledCancel
<1>12. CASE ScheduledDrop(j)
  <2>1. [job[j] EXCEPT !.stop = TRUE, !.state = "stopped"].state = "stopped"
    BY <1>1
  <2> QED BY <1>12, <2>1, RowWritten DEF ScheduledDrop
<1>13. CASE \E t \in Task : ScheduledFinish(t, j)
  <2>1. [job[j] EXCEPT !.stop = TRUE, !.state = "finalizing"].state = "finalizing"
    BY <1>1
  <2> QED BY <1>13, <2>1, RowWritten DEF ScheduledFinish
<1>14. CASE Expire(j)
  <2>1. /\ [job[j] EXCEPT !.deadline = "due"].state = job[j].state
        /\ [job[j] EXCEPT !.deadline = "due"].stop = job[j].stop
    BY <1>1
  <2> QED BY <1>4, <1>14, <2>1 DEF Expire
<1>15. CASE UNCHANGED job
  BY <1>15, RowUntouched
<1> QED
  BY <1>5, <1>6, <1>7, <1>8, <1>9, <1>10, <1>11, <1>12, <1>13, <1>14, <1>15
  DEF Request, Scheduler, Maintain, Enqueue, CancelOperation, FinalizeStopped

LEMMA TaskRowSteps ==
  ASSUME TypeInv, ReservationOwned, HolderInv, NEW t \in Task,
         RunJob(t) \/ Capture(t) \/ Acquire(t) \/ Finish(t) \/ Maintenance(t), NEW i \in Job
  PROVE  RowStepOK(i)
<1> USE DEF At, Row, JobRow
<1>0. Busy(t)
  BY DEF RunJob, Capture, Acquire, Finish, Maintenance, Busy, Prepare, InspectCancelled,
    InspectFailed, InspectRejected, InspectUpcoming, InspectEnded, BeginAttempt,
    CaptureReports, CaptureEnds, CaptureFails, AfterCapture, Ended, Reinspect, RetryLater,
    FinishBegins, Verify, Commit, Published, FinishFails, TaskError, DeleteCommit,
    WorkDone, Release, OpReserve, OpRefused, OpSettle
<1> PICK j \in Job : j = task[t].job
  BY <1>0 DEF TypeInv, TaskOK, Busy
<1>1. job[j] \in JobRow
  BY DEF TypeInv, VariablesTyped
<1>2. ASSUME task[t].at \in Recording PROVE NoOperations(op[j])
  <2>1. Reserved(t)
    BY <1>2 DEF Recording, Reserved, Unreserved
  <2> QED BY <1>2, <2>1, Holder DEF Fits, HeldOK
<1>3. ASSUME NEW state, state \notin {"absent", "deleted", "queued"},
             SetJob(j, [job[j] EXCEPT !.state = state])
      PROVE  RowStepOK(i)
  <2>1. [job[j] EXCEPT !.state = state].state = state
    BY <1>1
  <2>2. [job[j] EXCEPT !.state = state].stop = job[j].stop
    BY <1>1
  <2> QED BY <1>3, <2>1, <2>2, RowWritten
<1>4. CASE Prepare(t)
  BY <1>3, <1>4 DEF Prepare
<1>5. ASSUME Interrupted(t), task[t].at \in Recording PROVE RowStepOK(i)
  <2> DEFINE row == InterruptedRow(job[j])
  <2>1. row.state \in {"queued", "finalizing", "stopped"} /\ row.stop = job[j].stop
    BY <1>1 DEF InterruptedRow
  <2>2. SetJob(j, row)
    BY <1>5 DEF Interrupted
  <2> HIDE DEF row
  <2> QED BY <1>2, <1>5, <2>1, <2>2, RowWritten
<1>6. CASE InspectCancelled(t) \/ Ended(t)
  BY <1>5, <1>6, RowUntouched DEF InspectCancelled, Ended, Recording
<1>7. CASE InspectRejected(t) \/ InspectUpcoming(t)
  BY <1>3, <1>7 DEF InspectRejected, InspectUpcoming
<1>8. CASE BeginAttempt(t)
  <2> DEFINE row == BeginRow(j, job[j])
  <2>1. row.state = "recording" /\ row.stop = job[j].stop
    BY <1>1 DEF BeginRow, AttemptRow
  <2>2. SetJob(j, row)
    BY <1>8 DEF BeginAttempt
  <2> HIDE DEF row
  <2> QED BY <2>1, <2>2, RowWritten
<1>9. ASSUME NEW b, SetJob(j, [job[j] EXCEPT !.uncertain = b]) PROVE RowStepOK(i)
  <2>1. /\ [job[j] EXCEPT !.uncertain = b].state = job[j].state
        /\ [job[j] EXCEPT !.uncertain = b].stop = job[j].stop
    BY <1>1
  <2> QED BY <1>9, <2>1, RowWritten
<1>10. CASE CaptureReports(t)
  BY <1>3, <1>9, <1>10 DEF CaptureReports
<1>11. CASE RetryLater(t)
  <2> DEFINE row == RetryRow(job[j])
  <2>1. row.state \in {"failed", "reconnecting"} /\ row.stop = job[j].stop
    BY <1>1 DEF RetryRow
  <2>2. SetJob(j, row)
    BY <1>11 DEF RetryLater
  <2> HIDE DEF row
  <2> QED BY <2>1, <2>2, RowWritten
<1>12. CASE FinishBegins(t)
  BY <1>3, <1>12 DEF FinishBegins
<1>13. CASE Verify(t)
  <2>1. PICK intact \in BOOLEAN : SetJob(j, [job[j] EXCEPT !.uncertain = @ \/ ~intact])
    BY <1>13 DEF Verify
  <2> QED BY <1>9, <2>1
<1>14. CASE Commit(t)
  <2>1. task[t].verdict \in {"completed", "stopped", "partial"}
    BY <1>14 DEF Commit, TypeInv, VariablesTyped, TaskOK, TaskRow
  <2> QED BY <1>3, <1>14, <2>1 DEF Commit
<1>15. CASE TaskError(t)
  <2>1. PICK state \in {"partial", "failed"} : SetJob(j, [job[j] EXCEPT !.state = state])
    BY <1>15 DEF TaskError
  <2> QED BY <1>3, <2>1
<1>16. CASE DeleteCommit(t)
  <2>1. Reserved(t) /\ task[t].role = "delete" /\ task[t].at = "work"
    BY <1>16 DEF DeleteCommit, Reserved, Unreserved
  <2>2. ~job[j].protected
    BY <2>1, Holder DEF HeldOK
  <2>3. job'[j].state = "deleted" /\ \A k \in Job \ {j} : job'[k] = job[k]
    BY <1>16 DEF DeleteCommit, SetJob, NewRow, TypeInv, VariablesTyped
  <2>4. RowStepOK(j)
    BY <2>2, <2>3 DEF RowStepOK
  <2> QED BY <2>3, <2>4, RowUntouched
<1>17. CASE OpReserve(t)
  <2>1. RecoveringRow(j).state = "finalizing"
    BY <1>1 DEF RecoveringRow
  <2>2. CASE SetJob(j, RecoveringRow(j)) /\ Free(j)
    BY <2>1, <2>2, RowWritten
  <2> QED BY <1>17, <2>2, RowUntouched DEF OpReserve
<1>18. CASE UNCHANGED job
  BY <1>18, RowUntouched
<1> QED
  BY <1>4, <1>6, <1>7, <1>8, <1>10, <1>11, <1>12, <1>13, <1>14, <1>15, <1>16, <1>17, <1>18
  DEF RunJob, Capture, Acquire, Finish, Maintenance, InspectFailed, InspectEnded, CaptureEnds,
    CaptureFails, AfterCapture, Reinspect, Published, FinishFails, WorkDone, Release,
    OpRefused, OpSettle

LEMMA NextRowSteps ==
  ASSUME TypeInv, ReservationOwned, HolderInv, [Next]_vars, NEW i \in Job
  PROVE  RowStepOK(i)
<1>1. CASE \E j \in Job : Request(j) \/ Scheduler(j) \/ Expire(j)
  BY <1>1, RequestRowSteps
<1>2. CASE \E t \in Task : RunJob(t) \/ Capture(t) \/ Acquire(t) \/ Finish(t) \/ Maintenance(t)
  BY <1>2, TaskRowSteps
<1>3. CASE Start
  <2> DEFINE running == op[i]["recovery"] = "running"
             done == OperationRecovered(running, job[i])
             row == JobRecovered(done)
  <2>1. job'[i] = row /\ job[i] \in JobRow
    BY <1>3 DEF Start, StartRow, TypeInv, VariablesTyped
  <2>2. /\ job[i].stop => done.stop
        /\ done = job[i] \/ done.state = "partial"
        /\ running /\ job[i].state = "finalizing" => done.state = "partial"
        /\ done \in JobRow
    BY <2>1 DEF OperationRecovered, JobRow, JobStates, TerminalStates
  <2>3. /\ done.stop => row.stop
        /\ \/ row = done
           \/ /\ done.state \in ActiveStates
              /\ row.state \in {"queued", "finalizing", "stopped"}
    BY <2>2 DEF JobRecovered, JobRow
  <2>4. running => done.state \in TerminalStates
    BY <2>2, RecoveringState DEF TerminalStates
  <2> HIDE DEF row, done
  <2> QED BY <2>1, <2>2, <2>3, <2>4 DEF RowStepOK, Exists, TerminalStates, ActiveStates
<1>4. CASE UNCHANGED job
  BY <1>4, RowUntouched
<1> QED
  BY <1>1, <1>2, <1>3, <1>4 DEF Next, StartRecording, Worker, Claim, Process, Install,
    InstallEnds, RequestShutdown, IdleShutdown, Exit, Crash, Down, vars

LEMMA AlwaysRowSteps == Spec => [][\A j \in Job : RowStepOK(j)]_vars
<1>1. TypeInv /\ ReservationOwned /\ HolderInv /\ [Next]_vars
      => [\A j \in Job : RowStepOK(j)]_vars
  BY NextRowSteps
<1> QED BY <1>1, AlwaysTyped, ReservationsOwned, AlwaysHeld, PTL DEF Spec

\* A protected recording is not deleted: the protection is looked at before the
\* deletion waits for the permit, and cannot be given while it waits.
THEOREM ProtectionHolds == Spec => ProtectedNeverDeleted
<1>1. [\A j \in Job : RowStepOK(j)]_vars
      => [\A j \in Job : job[j].protected /\ Exists(j) => Exists(j)']_vars
  BY DEF RowStepOK
<1> QED BY <1>1, AlwaysRowSteps, PTL DEF ProtectedNeverDeleted

\* No write of a task that runs a job erases a stop request.
THEOREM StopsSurvive == Spec => StopSurvivesRunningTask
<1>1. [\A j \in Job : RowStepOK(j)]_vars
      => [\A j \in Job : job[j].stop /\ ~job'[j].stop
                           => Free(j) \/ job'[j].state = "deleted"]_vars
  BY DEF RowStepOK
<1> QED BY <1>1, AlwaysRowSteps, PTL DEF StopSurvivesRunningTask

\* While a recovery operation is claimed, across a crash and the start after
\* it, its job is not queued for recording.
THEOREM RecoveriesNeverRecord == Spec => RecoveryOperationNeverRecords
<1>1. [\A j \in Job : RowStepOK(j)]_vars
      => [\A j \in Job : op[j]["recovery"] = "running" => job'[j].state # "queued"]_vars
  BY DEF RowStepOK
<1> QED BY <1>1, AlwaysRowSteps, PTL DEF RecoveryOperationNeverRecords

=============================================================================
