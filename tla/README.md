# Verification of ytlr

ytlr records live broadcasts and downloads videos. A background service (Rust,
tokio, SQLite) owns the jobs; a command line and a desktop application are
clients of its loopback API. This directory holds TLA+ models of the service,
the TLC runs that check them and TLAPS proofs about them.

## The system

One process holds a lock file, a SQLite store and a struct `Service`
(`crates/service/src/lib.rs`). Everything that persists is a row of the store
or a file in a job's folder; everything else is forgotten when the process
ends.

| Part | State | Operations | What is hard | What must hold |
|---|---|---|---|---|
| Job lifecycle (`scheduler.rs`, `http.rs`, `db.rs`) | the row of each job; `active`: a reservation with a cancellation token per job; `finalizer`: one permit | add, stop, retry, recover, protect, schedule, delete; the scheduler's tick; `run_job`; `finish` | every handler is a critical section of its own and tasks hold a job across awaits | one task per job; a stop is never lost; a restart abandons nothing; deadlines are kept |
| Process (`lib.rs`) | the shutdown token | start, shutdown, idle shutdown, crash | only some tasks are awaited | a shutdown ends; an idle one interrupts nothing |
| Engine installation (`http.rs`, `tools.rs`) | a flag; versioned bundles | install, roll back | flag, reservations and operations are read at different times | never under a recording |
| Capture (`capture.rs`, `process.rs`) | a worker, a progress tracker, an append-only ledger of durable fragments | lines of output, a 3 s tick, cancellation | ends in many ways, merging may not be cut short | stalls are noticed, the ledger never lies |
| Operations (`operations.rs`, both) | a queue in the store, `op_active` | enqueue, cancel, retry, claim, settle | cancellation races completion, restarts | each request once, never on a job in progress |
| Cleanup (`cleanup.rs`) | plan, receipt, quarantined files, ledgers | preview, execute, recover | a crash between any two file operations | no file the ledger names is lost |
| Timeline and gap recovery (`timeline.rs`, `recovery.rs`) | attempts and gaps of a job | note start, media, end; fill | a fill runs beside a capture and beside `finish` | every outage is in a gap; a collected gap has media of all that was missing when the next attempt started |
| Notifications (`notifications.rs`) | an outbox | deliver, retry by hand | the outcome is written after the wait | delivered at least once |
| Channel monitor (`scheduler.rs`, `health.rs`, `automation.rs`) | channels, decisions, the ledger of windows | scan, evaluate the rules, add a job | edits during a scan | a window is recorded once |
| Alerts (`alerts.rs`) | a job's alerts | reconcile | conditions read before they are written | opened once, closed by media only |
| Replica (`replica.rs`) | a delivery per job | deliver, poll, stop | lost answers, stale copies | one remote job per request |
| Backup (`backup.rs`, both) | a mirror, a status | copy in a child process | the source grows and is cleaned up | the copied ledger names copied files only |
| Retention (`retention.rs`) | none | hourly deletion and cleanup | the age is looked at twice | protected jobs stay |
| Remote downloads (`operations.rs`, `files.rs`) | a partial file | chunks, resume | the source changes | the result has the announced hash |

The parts meet in the store (each update is one transaction), in `active` and
`op_active` (mutexes, always taken in this order), in the permit, in the
shutdown token, whose children are the jobs' tokens, and in the flag
`installing`. The command line, the desktop application, the API client and the
status samplers keep no state the others depend on.

## The modules

**JobLifecycle** models the first two rows of the table whole and the next
three as far as they touch a job. Its variables are the program's:

| Variable | Program |
|---|---|
| `job` | the row: state, `stop_requested`, `attempt` (0, 1, many), `retries`, `continuity_uncertain`, `protected`, `stop_at` (none, set, due), `duration_minutes`; `retries` is any number, as in the code |
| `op` | a job's unfinished operations, one of those that render or clean up and one that recovers |
| `active` | `Service.active`: free, held, cancelled |
| `task` | the tokio tasks, each with its role, its job and the await it stands at |
| `permit` | `Service.finalizer` |
| `installing`, `shutdown`, `up`, `restarts` | the flag, the token and who cancelled it, the process |

An action is what happens between two awaits: one critical section of `active`
or one transaction. `Stop`, `Retry`, `Recover`, `Protect`, `Schedule`,
`Maintain` (deletion, cleanup, export), `Enqueue` and `CancelOperation` are the
requests. `FinalizeStopped`, the `Scheduled*` steps and `StartRecording` are
the scheduler's tick; the tick goes over the jobs one by one and reads each row
again under the lock, so one job is one step. `Prepare` to `RetryLater` are
`run_job`; `FinishBegins` to `Published` are `finish`, which the recorder, the
scheduler, the direct and the queued recovery share; `Claim`, `OpReserve`,
`OpRefused`, `OpSettle` are the operation worker. A crash may come anywhere;
`Start` is what `run` does before its tasks exist. When two branches of a
`select!` are ready the model takes either.

`Down` leaves the memory variables as they were, `Start` resets them, and no
other step looks at them in between. So an action property can tell what a
restart interrupted.

Left out: the wall clock (`start_at`, back-off and the next check only delay a
start; a deadline may pass at any time), the contents of files and messages,
errors of the store itself, the order in which waiting jobs are started, and
download operations, which work on no job of this service (OperationQueue has
them). The gap recovery that runs beside a capture is in RecordingTimeline.

**MCJobLifecycle** adds the symmetry of tasks. **JobLifecycle_proofs** holds
the theorems.

**CleanupFiles** models the cleanup of one job's segments (`cleanup.rs`). One
request at a time works on a job: that is `ReservationOwned` of JobLifecycle.

| Variable | Program |
|---|---|
| `folder` | of each segment: what stands under its committed name and under the quarantine name (nothing, the segment, another file), whether `durable-fragments.jsonl` names it, whether a retained `ledger-before-cleanup-*` does |
| `disk` | the same, as a loss of power would leave it |
| `plan`, `receipt` | `cleanup-plan.json` and the last `cleanup-PLAN.json` |
| `ours`, `audit` | which segments were quarantined under the present plan, and which quarantine names a receipt of their plan lists |
| `work` | where the request stands, its list of quarantined files, the folders it has still to go through |
| `lock` | `backup.lock` |
| `row` | the job's row as `eligible` reads it |
| `replaced` | history: what the user replaced |

An action is one file operation with the condition before it: a rename, a
removal, an `atomic_write`, a `sync_dir`. Any of them may fail (`GivesUp`,
`MoveFails`, `PublishFails`, the further disjuncts of `RestoreLedger`,
`RestoreFile`, `Remove`, `LastReceipt`), the process may die between any two
(`Crash`) and so may the power (`PowerLoss`). The model of the file system:
changes of one folder reach the disk in order and a folder reaches it whole, at
any time (`Writeback`) or when it is synced; the order between two folders is
free. The plan and the receipts, each synced when it is written, are durable at
once. `BackupBegins` and `BackupEnds` are the backup process (`mirror_job`),
`Recover` is the repair of the job (`finish`), `Replace` a user who puts another
file at a name. The check of the retained results is not modelled: it only reads,
and its refusal is `GivesUp`.

**AtomicCleanup** is the promise: a segment has two attributes, a ledger names it
and its bytes are there. Folder by folder the requested segments leave the ledger
together, and only unnamed bytes are erased. `CleanupFiles` implements it with
`stored` true of a segment that stands under either of its names; what the user
replaced himself counts as stored while it is named. **MCCleanupFiles** gives the
instances, **CleanupFiles_proofs** holds the invariant and what follows from it,
**CleanupPromise_proofs** the refinement and the action properties.

**OperationQueue** models the background operations (`operations.rs` of both
crates): the table with its three requests, the one worker that goes over it, and
every step of a render and of a download.

| Variable | Program |
|---|---|
| `row` | the table `operations` by row number: the request (its fingerprint), `state`, `cancel_requested`, `attempts`, the hash in `input`, `destination` |
| `file`, `receipt` | what stands under the names an operation may use, the default one (0) and one per attempt, and the `*.operation.json` beside each |
| `partial` | the `*.partial` of a download: chunks received, and of what |
| `source` | the media file a request reads, here or on the other computer |
| `worker` | the future of `execute`: the operation, the await it stands at, the temporary file, the result |
| `busy` | the jobs in `Service.active` that other tasks hold |
| `service`, `retries`, `restarts`, `changed` | the process, and counters of what is bounded |
| `touched` | history: the operations whose result another program changed |

`Enqueue`, `Cancel`, `Retry` are the requests; a batch is several `Enqueue`. `Pick`
and `Claim` are two steps because a cancellation takes another lock than the one
the worker holds in between (`active`); what needs that lock waits (`Unlocked`).
`Begin` to `WriteReceipt` are `render`, `Inform` to `Unlink` are `download`,
`Done` what follows a result, `Settle` the final row, `Unsaved` the store that
refuses it until the shutdown. Every `?` is `Fails`. A step that reads the token
asks `Cancelled`: the token is a child of the shutdown's. `Repair` is a cleanup or
a recovery as a whole. `Start` is `recover_operations`.

A content is a version of a media file or `other`; equal contents have equal
hashes. A chunk of a download is that of the version it was asked for or `other`:
the read may meet a change, the write may be torn. What FFmpeg makes of a version
is that version again, so a receipt can be compared with its source; what it is
worth is not modelled. Left out: the progress fields, the free space, the SSH
tunnel, losses of power, and the token of the job that a render registers, which
stops it like `Fails`. **MCOperationQueue** gives the instances,
**OperationQueue_proofs** has the control of the queue, **OperationFiles_proofs**
its files.

**Automation** is what the service does by itself: four tasks over one store,
with the users, the recorder and the other service between any two of their
steps and a crash anywhere. Each component is a module; Automation composes them.

| Module | Code | Variables |
|---|---|---|
| `JobStore` | `add_job_keyed`, `update_job`, `delete_job`, `recover_interrupted` | `store`: the jobs, `automatic_runs`, `replica_requests`; `up`; `budget`, the disturbances left |
| `ReplicaDelivery` | `fanout_job`, `enqueue_replica`, `replica.rs` | `fanning`: answered requests whose fan-out is still to come; `replica`: the delivery in each row; `remote`: the other service's store; `courier`: the loop with its copies |
| `NotificationOutbox` | `Store::event`, `automation_store.rs`, `notifications.rs` | `targets`; `outbox`, by row number, with the history `sent`; `sender`: the loop's round |
| `ChannelMonitor` | `monitor`, `health.rs`, the channel requests | `channel`; `scan`: where the scan stands and what it read; `edit`: a request between its read and its write; `site`, `clock`; histories `recorded`, `streak` |
| `JobAlerts` | `alerts.rs` | `alerts`; `watch`: the rows to reconcile, the events to write; history `unseen` |
| `WeeklyWindow` | `WeeklyWindow::occurrence` | none: `Occurrence(w, at)` and its reference definition |

JobStore's operators take a store as a parameter, because there are two: this
service's and that of the computer its replica requests go to, which runs the
same code for its own users. The life of a job is coarse there (`Life`): it is
JobLifecycle's subject, and here it is what the loops watch. `Stop`, `Retry` and
`Recover` take jobs that have ended and jobs that wait, as the handlers do: the one
sets the request on any row, the others want a job without a task (`Unheld`, by
the row: of a waiting job it admits also what an inspection holds). A remote call is
`Call`, with its answer or without, or `CallFails`, which never arrived. What a
loop reads once for a whole round (the outbox, the settings, a channel's row, a
delivery) is a copy in its variable until the step that writes it back.

Left out there: the recorder's own notifications and those of a replica (more
messages of the same kind), the alert about a full disk, the matching of titles
(`rules.blocked` is what the keywords refuse), the SSH tunnel, the priority of
a channel. **MCAutomation** gives the scenarios, **Automation_proofs** and
**WeeklyWindow_proofs** the theorems.

**RecordingTimeline** models one live recording in time: what its row knows of
its holes and what becomes of them.

| Variable | Program |
|---|---|
| `row` | state, stop request, `attempt`, `continuity_uncertain`, `last_media_at`, `attempts`, `gaps`, `outputs` |
| `task` | the recorder's task in `run_job` and `finish` with the results and the copy of the row it holds |
| `filler` | the recovery that has the permit: for the loop or for `finish`, and the snapshot of gaps it was given |
| `listed` | the loop `recover_gaps` has the job in its list, which may be minutes old when the job's turn comes |
| `durable` | `durable-fragments.jsonl` of each attempt |
| `time`, `live`, `up`, `bound` | the clock, the broadcast, the process, the bounds |
| `media` | history: attempt and second of all that was received |

An instant is a second; the media of second t is what was broadcast from t to t + 1. One
thing is idealized: what is received in second t is taken for the media of that second.
The code knows only the receipt ("Receipt times are not media anchors",
`timeline.rs:114`) and asks the playlist for broadcast times by it; the delay of the
delivery and recordings from the beginning of a broadcast, where the two differ by more,
are not modelled, and nothing is claimed about them. `NoteAttemptStart`, `NoteMedia`,
`NoteAttemptEnd` and `Filled` are `timeline.rs`; `Parsed` and `Selected` what
`recovery.rs` makes of a playlist, which is any set of seconds; `BeginAttempt` to
`Decide` are `run_job` and `capture`, `Verify` to `WriteVerdict` are `finish`, with the
second read of the row that precedes the verdict; `LoopLists` is `recover_gaps`,
`LoopTakes`, `FinishTakes`, `FillOne`, `FillEnds` are `fill_gaps`, which looks again at
the stop and the gaps but not at the state: a settled job may be filled. Of media only
presence is modelled: what FFmpeg and its probe find is a result that is chosen.

**BackupMirror** adds the backup of that recording: `mirror` is the round of the backup
process (the attempts it has still to read, which it lists after it read the row
(`ListFolders`), the ledger it read, the files to copy), `backup` what stands on the
volume, `mounted` the volume. Attempts are copied one by one; the recording goes on
meanwhile. **Continuity** composes the two: the round's process dies with the service.
**MCContinuity** gives the bounds, **Continuity_proofs** the theorems.

## The runs

| Run | Instance | Shows |
|---|---|---|
| `lifecycle` | one live job, two tasks, one retry, one restart, every request | the exclusions between requests, tasks, installation and shutdowns; what a restart leaves |
| `contention` | a live job and a download, three tasks, one slot, no restart | the slot limit, the verdict |
| `liveness` | one job, two tasks, one restart, fairness | deadlines, cancellation, shutdown and the finalizing of stopped jobs come to an end |
| `stop_settles` | as `liveness` | a stop that is never honoured (below) |
| `recovery_restart` | as `lifecycle` | a recovery that becomes a recording (below) |
| `cleanup` | three segments, two in one folder, one of which may be replaced at any time | no segment lost, retained snapshots, true receipts, the lock, what is not the segment is never removed, the promise |
| `cleanup_resume` | as `cleanup` | an interrupted cleanup that can never be taken up (below) |
| `operations` | two extents: a render, a download and a cleanup of one job in two rows, one retry; a render or a download in one row, two retries, two changes of files; downloads of two chunks, limit two, one restart, fairness | requests stay distinct, cancellations kept, nothing left running, what is published is verified, what is completed is backed, nothing overwritten, every waiting operation ends |
| `automation` | one broadcast, one destination, two jobs here and there, two tries, nine scenarios, fairness | a broadcast is recorded once per window, a request makes one remote job, no message is lost or stays unsent, an alert waits for media, a stop reaches the remote job |
| `incident` | as `automation`, failed scans and an edit meanwhile | a resolved incident that comes back without a failure (below) |
| `continuity` | up to three attempts, four seconds and two rounds of the backup, gaps of one second and more | every outage is in a gap, a gap is collected only with media of all that was missing when the next attempt started, the backup lists only what it has |
| `collected_short` | two attempts, four seconds, no trouble, no backup | a collected gap without the media of the delay before the next attempt's first media (below) |

The bounds. `Task` limits the tasks alive at once: one task per reserved job and
one more let an operation, a request and the scheduler meet on one job, which is
all the code can do with it, because every task but a claimed operation holds a
reservation. `MaxRestarts` = 1 allows a crash at any point followed by a whole
second life, so recovery is checked from every state; a second crash starts from
states of the same kind. `attempt` saturates at 2 since the code asks for 0, 1 or
more only. `MaxRetries` 0 and 1 exercise both sides of the limit; the counter has no
bound of its own, it stays finite because `MaxRestarts` limits what `RetriesBounded`
says it depends on. A job has at
most one unfinished operation of each kind: the code accepts more, but asks only
whether there is one. `Requests` names the requests of an instance; the second
job of `contention` leaves out those that touch one job alone, which `lifecycle`
has. A process whose every task is done and whose jobs are deleted has still
requests to receive, so deadlock is checked in the safety runs; the runs under
fairness turn it off, because a behaviour may run out of restarts and requests.

The cleanups need no bound on requests, crashes or losses of power: their states
are finitely many. Two segments of one folder tell a partial selection of a
ledger from a whole one, two folders tell an execution that has published one
ledger from one that has published all; a third folder or segment adds no new
relation between two. The two that are alike are symmetric. One of them may be
replaced: it has a companion in its folder and one in the other, so each relation of a
replaced segment to another occurs.

`operations` has two extents (`Extents` of MCOperationQueue), for both at once are
out of reach; `Within` keeps from a behaviour only requests of users and changes by
other programs, which are not fair. The first has two rows because the properties
of the queue relate two operations at most, the one the worker has and another that
is enqueued, retried or cancelled; `Limit` = 2 lets the table be full. That an
operation is not starved behind a long queue is beyond two rows. The second is about
the files of one operation: the worker has one at a time and the names of two
operations are different, so one row is enough; two chunks tell a download that is
resumed in the middle from a new one, and two retries with a restart allow four
attempts, of which each may find what the one before left behind. Two changes let
the source change and change back, or the result be removed and something else put
there.

`automation` has a purse of each kind of disturbance (`Budgets`): requests and
deletions of users, edits of the channel, settings, the recorder's events, the
site, the clock, the other service's own events, replicas, crashes. All of them
at once is out of reach, so each of the nine scenarios (`Scenarios`) fills the
purses that meet in one hazard, and TLC starts from all nine. The loops
themselves are not bounded. Two jobs are the fewest of which one could be a
second recording of the same; `Often`, `MaxTries`, `AlertTries` and `Failing` are
the code's limits scaled to 1 or 2, so that both sides of each are reached. A
day of two minutes and a week of two days keep a window over midnight and a day
on which it does not start; the theorems of WeeklyWindow hold for any lengths.
`Kept` = 0 trims every delivered message at once. `Limit` = 20, a round's messages, is
never filled, so messages that wait behind a full round are not exercised. Deadlock is not
checked there: when the purses are empty and the jobs ended, nothing is due.

`continuity` names the seconds, attempts, troubles (a crash, a stop, a repair, a retry,
an error, an unplugged volume) and backup rounds of each instance in `Extents`. An
attempt without media between two others needs three attempts and three seconds; an
outage longer than the smallest gap that is asked for needs four seconds. The backup
runs beside two attempts once, and with a crash, an unplugged volume or a second round
beside one. `Shortest` and `Longest` are 1 and 3 instead of 3 and 3600, so that gaps of
every kind occur. Time ends, so deadlock is not checked. What must hold for more than
these is proved.

Fairness. Users are never obliged to do anything, nor is a capture obliged to
end unless it is cancelled (a worker is killed after 30 seconds,
`capture.rs:630`) or merges. Everything else that is assumed is in the code:
tokio runs every task that is ready (weak fairness of a task's steps, an
inspection has a timeout of its own); the semaphore serves its waiters in order
(strong fairness of `Acquire`); the scheduler ticks every two seconds until the
shutdown (weak fairness of each job's step while it runs); after the shutdown
signal no request is admitted and no job is started, so the join comes to its end
(strong fairness of `Exit`: the handlers already admitted are finitely many). The
service is started again, as its service manager or the next command does.

For the queue: the worker takes its steps, FFmpeg and the connection come to an
end (both are stopped by the token, the remote has time limits) and the store
accepts a row in the end, or the service stops (weak fairness of `Run`, which
promises no success: a step may always be `Fails`). A task gives its job back.
`Settles` has a premise, that from some time on no other task holds the job: an
operation waits while its job is reserved, and nothing bounds how often the
other tasks reserve it.

For the automation: the service is started again (weak fairness of `Start`); the
sender's loop goes on and a back-off ends (weak fairness of `Deliver` and of
`DueAgain` for all that wait, a back-off is at most an hour). A destination that
is tried again and again is reached (strong fairness of `Reaches`): the code
tries for ever, and promises nothing about a destination that never answers. The
replica loop takes its steps for each job, since it goes over all of them
(strong fairness of `Courier`: another job may be in its hands); no call is
obliged to succeed, and `StopReachesRemote` therefore ends with the delivery
given up.

Each property is broken by a small change of a definition of the model, kept
beside the definition and marked "A defect".

## What the runs found

* `stop_settles`: `README.md` says that a user-stopped recording is shown as
  Saved. A stop that arrives while the recorder inspects the broadcast (again),
  an inspection that the token does not interrupt when it follows a capture,
  leaves the job reconnecting or waiting with its stop request set.
  `scheduler.rs:79` skips such a job and nothing else takes it up.
* `recovery_restart`: the code and a test make sure that an interrupted queued
  recovery does not restart a live capture. The direct request
  (`http.rs:810-842`) has no such care: it withdraws the stop request, is not
  awaited by a shutdown, and the next start queues the job.

* `cleanup_resume`: `README.md` says that after an interrupted cleanup a new
  preview can be generated. Preview and execution look at the job's row before
  they recover the quarantine. When the user repairs the job in between, `finish`
  misses the quarantined segment, the job becomes partial and uncertain for good,
  and no preview ever runs again that would put the segment back.

* `incident`: `README.md` says that three consecutive failures open an incident
  and that the next successful scan resolves it. `channel_update` (`http.rs:871`)
  reads a channel with its count of failures and its incident and writes the whole
  row back later. A scan that succeeds in between resolves the incident and says
  so; the edit brings it back, though no scan has failed since. Further failures
  open none, and the next success tells of the recovery again.

* `collected_short`: the test `first_media_includes_reconnect_setup_delay`
  (`timeline.rs:227`) counts the delay from an attempt's start to its first media as
  part of the gap, and the desktop shows the gap with it. A fill works from a copy of
  the gap that ends at the attempt's start, if it was made before that media came.
  `note_media_received` then extends a gap that is being filled or is collected
  already, `mark_gap_fill` does not compare, and the gap is shown as collected with
  seconds that are not in its file; it is never asked for again. What does hold is
  `CollectedIsHeld`, a part of `OutagesAccounted`: all that was missing when the
  attempt started is there.

Smaller observations, in no run of their own: the renames of a rollback are not
synced. If the same plan is executed again with another selection, its receipt is
replaced, and a loss of power may bring back a quarantined segment that the
receipt lists no more; `recover_quarantined` refuses it from then on.
`QuarantineNamed` shows that this is the only way to such a file.

From the automation: a message that a user sends again while it is being
delivered takes the outcome of that delivery. A replica whose only answer was
lost and whose job is stopped then counts as cancelled (`CancelUndelivered`)
although the other computer records; and after eight failures a delivery is
given up, with the stops that come later. When the other service's user deletes
a replica's job its request is forgotten there, and a request that is tried again
makes a new one (`OneRemoteJob` speaks of jobs that stand). An alert's event is
written after the alert, and lost if the process dies or the store fails in
between.

From the timeline: an evidence file that the loop adds to the outputs in
the moment between the second read of `finish` and its write is dropped from the
list; its gap keeps it, and the next repair lists it again. The end of a
broadcast after the last media of a clean capture counts as captured.

## The proofs

### The lifecycle

For any number of jobs and tasks and any limits (assumed: `None` is no task, the
tasks alive at once are finitely many, which `RecordingLimit` counts, downloads
are jobs, the limits are numbers, at least one slot):

* `TypeCorrect`. `TypeOK` is `VariablesTyped`, in which the retry counter is any
  number, and `RetriesBounded`, by which it never passes the limit by more than one
  and the restarts so far. Neither is inductive. `TaskOK` adds which roles stand at
  which phases and that a task at work has a job, `BoundOK` that the process
  goes down only while restarts are left. `NextKeepsTypes` goes action by action.
  The bound is a fact about the whole life of a job: `retry` (`scheduler.rs:328`)
  adds one whatever the counter is, and what stops it is that a job past its tries is
  failed and finalized. `RetryInv` says so: a job whose counter passed the limit by
  more than the restarts is in no state that the scheduler takes up and no recorder
  has it. A crash while such a job is finalized queues it again with its counter, so
  each restart buys it one more try.
* `ReservationsOwned`: `ReservationOwned` is inductive with the above. Three
  lemmas carry it: a step that moves no task in or out of the reserved phases
  keeps it (`KeepHolders`), a task that takes a free job keeps it (`TakeJob`)
  and one that gives its job back keeps it (`GiveBackJob`). The second conjunct
  is the exclusion, the third is what `GiveBackJob` needs to free a job without
  freeing another task's.
* `InstallationIsolated` and `IdleShutdownSafe` rest on what roles a step can
  hand out and when (`NextRoles`), and on the fact that when nothing is reserved
  and no operation is claimed no task has a role at all (`NothingReservedRoles`),
  which is where `ReservationOwned` is needed.

The other properties need to know what a task may rely on while it waits:
`HolderInv`, which TLC checked as an invariant of `lifecycle` and `contention`
before it was proved. It is a table and two rules.

* `Expected` is the table: for each role and phase of a task that holds a job, the
  states its row can be in. It is what the code assumes each time it takes a row
  up again after an await, without looking: that a recorder which comes back from
  its capture finds the row recording or finalizing, that a claimed
  operation still has a settled job. `HeldOK` adds that no
  operation was queued under a recorder or a deletion, that the job under a
  deletion is unprotected, and that a verdict which is about to be written still
  fits the row.
* `FreeOK`: a job that nobody holds is settled, waits for the scheduler, or was
  stopped; only settled ones have operations.
* `ClaimsOK`: one operation runs at a time and its row says so.

None of these is inductive without the others: the holder's row is safe
because each request that changes a row needs a free job or a flag alone, the free
job's because each task that gives its job back leaves a row of `FreeOK`
(`Expected` at `release`), the operations' because a recovery or a
finalization finds its row settled and holds the job. `RowStep`
is the frame: a step that changes one row and one task owes the facts about that
job only. `TakeStep`, `ReleaseStep`, `GoStep` and `GoOn` are its uses for a task
that takes a job, gives it back or goes on; `QueueStep` is a request that
queues an operation. `NextKeepsHeld` goes over the actions.

* `OperationsSettled`, `NothingAbandoned` and `CompletedContinuous` are parts of
  `HolderInv` (the first needs that a job with a claimed operation is held by it).
* `RecordingsLimited`: the code counts rows, the limit is about tasks. Each task that
  records holds a job of its own whose row takes a slot, so there are no more
  recorders than slots taken (`SlotsCountRecorders`, from `ReservationOwned` and
  `HolderInv`), and only a start, which counts first, adds one (`NextKeepsLimit`).
* `ProtectionHolds`, `StopsSurvive` and `RecoveriesNeverRecord` speak of single
  steps. `RowStepOK` says of every step and every row what may become of it, given
  what its holder relies on (`RowUntouched`, `RowWritten`, `NextRowSteps`).

Every safety property of the two runs is a theorem. The liveness properties
(`DeadlineHonored`, `CancelledReleases`, `ShutdownCompletes`,
`StoppedMaterialSettles`) are only model-checked: they need fairness and ENABLED.

### The cleanup

For any number of segments, folders and replaced files (assumed: every segment
has a folder). None of the properties is inductive. `CleanupInv` adds two parts
to the types. `FilesOK` says what is true of an entry of a folder and of the disk
at any time (`EntryOK`); a loss of power keeps it because it brings back entries
that had it (`FilesFollow`). `WorkOK` says what the phase of the request means
for the files: what is in hand is quarantined, a snapshot covers what is
selected, and from a published ledger on its segments are off their ledger and
name in the folder and on the disk (`OffForGood`), which no later step undoes
(`OffStays`).

* `CleanupLedgerBacked` and `CleanupSnapshotCovers` follow from `FilesOK`,
  `CleanupReceiptTrue` from `WorkOK`.
* `CleanupPromised`: each step is a step of AtomicCleanup or leaves its variables
  alone. `EntryErasedOrNot` does the steps on one segment, `LedgerStatus` those
  on a ledger, `FolderStands` those on neither; `PersistsSynced` and
  `PersistsNothing` do the disk.
* `CleanupUnrelatedReturns`, `CleanupQuarantineNamed` and
  `CleanupBackupUndisturbed` look at single steps under the invariant.

Every property of the passing cleanup runs is a theorem.

### The operations

For any jobs, requests and versions and any bounds (assumed: there is a request,
each has a job and a kind, `none` and `other` are no versions).

* `ControlInv` strengthens the types three times. `attempts` is at most the
  retries and restarts so far and one (`Attempted`), without which a row leaves
  its type at `Claim`. What the worker executes is running, nothing else is
  while the service is up, and a service that is down has no worker (`Owned`):
  this gives `OperationRunningOwned`. A queued row carries no cancellation
  (`Uncancelled`), which gives `OperationCancelKept`.
  `OperationRequestsDistinct` needs that a retry looks at the unfinished rows in
  the transaction that makes its own unfinished, and that nothing else does.
* `FilesInv` adds what is true of the files of each row (`RowFiles`) and of the
  operation in the worker's hands at each of its steps (`InHand`): a partial file
  that is to be linked was verified against the recorded input, a file that is to
  get a receipt is still the one that was published unless another program changed
  it, what is done is backed. `OperationDownloadVerified` and
  `OperationCompletedBacked` follow; `OperationPublishedKept` follows from the
  two steps that publish.

`Settles` is only model-checked.

### The automation

For any broadcasts, jobs, destinations, rules and budgets and any limits. The
parts meet in the store only, so each has an invariant of its own and all rest
on a few facts about the store's operators.

* What becomes of a row keeps its video and its key (`Follows`), a job never
  comes back, and a ledger of occurrences only grows and only by jobs that exist
  (`StoreStep`). `OccurrenceInv` adds that each occurrence that made a job is in
  the ledger and that the key a scan holds is one of the broadcast it asks for
  (`ScanInv`); the transaction that adds a job refuses a key of the ledger, which
  carries `OccurrencesAreRecordedOnce` over that step.
* `RemoteInv`: at most one standing job has a key over there, a request that was
  received is remembered while its job stands (`Keyed`), and what the loop and
  the row hold of a remote job is one of its request (`CourierInv`,
  `ReplicaInv`). An answer does not make a second job (`AnsweredThere`), nor do
  the other users (`RemoteStepsRemember`). It gives `ReplicaIsOneJob`.
* `OutboxInv`: what counts as delivered or is gone was sent, and an answer that
  is positive belongs to a message that was sent. The rest of its proof is that
  a table only grows at its end, for which `SetToSeqIsSeq` says what the community
  modules' choice of a sequence is. It gives `NothingIsForgotten`.
* `MediaInv`: a row that shows fresh media has no alert without media since. The
  loop may keep its list of rows as long as it likes, because it judges the row
  again in its transaction. `AlertsWaitForMedia` looks at single steps under it.
* `AutomationTypeCorrect`: the types are not inductive either. A delivery that is
  not done, and the loop's copy of one, has tries left (`DeliveryInv`), without which
  `Save` counts beyond `MaxTries`. The row that an edit will write back is a row of
  the channel it names (`ChannelInv`), without which a failure counter leaves its
  range. A sender without a round has no messages in hand (`SenderInv`). No
  request of another service is in the table of this one (`TableInv`).
* `DeliveriesAreFollowedForGood` is about `DeliveriesKept`, which stands with its
  proof and is no property of a run: `FollowInv` says that the loop's copy of a delivery
  is the delivery itself while its row stands. Nobody else writes one that
  is not empty, and a row that was deleted does not come back (`StoreGoesOn`). Since
  each call about a known job is answered with that job (`HandledThere`), the write
  of the whole delivery changes neither the job that is followed nor the end.
* `OccurrenceIsTheInterval` and `OccurrenceUnique` are arithmetic of days.

### The timeline and the backup

For any bounds, with `MaxAttempts` any number.

* `TimelineInv` has seven parts. `RowOK`, `TaskOK`, `BoundOK` are types. `TimesOK`:
  what the row knows lies in the past. `MediaOK` ties the row to what was received:
  the last media of an attempt and of the recording are the ones noted. `GapsOK`
  is the heart: each attempt but the first has a gap before it, which
  begins no later than the last media of all that came before, ends no earlier
  than the first media of the attempt, and if it is collected its evidence
  reaches from its beginning to the attempt's start (and no further: that the end
  may move on afterwards is what `collected_short` shows). `FillerOK`: the snapshot a
  fill works from has the same beginnings and no earlier ends than that.
  One lemma each does the steps that touch these (`BeginAttemptStep`,
  `ReceiveStep`, `AttemptEndsStep`, `FillOneStep`, `FillerSteps`), `QuietSteps`
  the others by way of `TimesStay`.
* `OutagesAreAccounted` follows: the gap that covers an outage is the one before
  the first attempt that received anything since (`HolesAreListed`), and a
  collected gap begins at or before the last media (`CollectedIsCovered`).
  `SelectedCovers` is the fact about playlists: what is selected for an interval
  has all of it.
* `BackupIsBacked`: `MirrorInv` adds that the ledger in the round's hands minus
  what is left to copy is on the volume.

### What is only model-checked

Every safety property of every passing run is stated by a theorem. What is left
to TLC is liveness: `DeadlineHonored`, `CancelledReleases`, `ShutdownCompletes`,
`StoppedMaterialSettles`, `Settles`, `EveryMessageSent` and `StopReachesRemote`
need fairness, and so ENABLED, which is out of the prover's reach. The five
violations are counterexamples and need no proof.

## Plan

Done: JobLifecycle, CleanupFiles with AtomicCleanup, OperationQueue with downloads,
the automation with WeeklyWindow, the timeline with gap recovery and backup, and the
proofs above.

Left, in this order:

1. CaptureWatch: the progress tracker, the 3 s tick and the supervision of the
   worker (`capture.rs`, `process.rs`).
2. ToolInstall: download, verification, swap and roll back of the engine bundles
   (`tools.rs`).
3. Pure algorithms against reference definitions: clip ranges, byte ranges, the
   matching of titles.

## Not modelled

* The command line and the desktop application: clients of the API without state
  that the service depends on. The desktop's updater replaces the application, and
  meets the service in the idle shutdown only, which JobLifecycle has.
* Power and storage samples: they are shown, and a full disk delays a start.
* The API client but for lost calls, authentication, paths, the exchange of
  configurations, the SSH tunnel, the catalog and the playback tickets: no
  concurrent state.
* What FFmpeg and its probe do with media.
* Errors of SQLite while the process lives, but for the row of a settled
  operation, and losses of power outside the cleanup.
* An exchange of the backup volume within a round (`mirror_job` compares the
  device at its beginning and its end).
