------------------------------ MODULE JobStore ------------------------------
(***************************************************************************)
(* The jobs of a service as its automation sees them: how a request        *)
(* becomes a job or is answered with one (add_job_keyed, the same for      *)
(* users, channels and replica requests), the ledger of occurrences and    *)
(* the table of replica requests, which survive what becomes of the jobs,  *)
(* and a coarse life of each job. Module JobLifecycle has that life        *)
(* itself.                                                                 *)
(*                                                                         *)
(* The operators take a store, for there are two of them: that of this     *)
(* service, `store`, and that of the service its replica requests go to.   *)
(* Disturbances from outside are paid from `budget`, one purse per kind.   *)
(***************************************************************************)
EXTENDS Naturals, FiniteSets

CONSTANTS
  Video,    \* broadcasts
  MaxJobs,  \* bound: jobs of one store
  Often,    \* retries that count as repeated reconnecting (3)
  Budgets   \* bounds: how many disturbances of each kind a behaviour has

Disturbances == {"crash", "user", "capture", "site", "edit", "remote", "clock", "settings", "replica"}

ASSUME StoreAssumption == Video # {} /\ MaxJobs \in Nat /\ Often \in Nat \ {0}
ASSUME BudgetAssumption == Budgets \subseteq [Disturbances -> Nat]

VARIABLES
  store,   \* this service's tables jobs, automatic_runs and replica_requests
  up,      \* the process runs
  budget   \* disturbances left

Job == 1..MaxJobs
Kind == {"live", "download"}
Until == {"none", "window", "user"}  \* stop_at: none, a window's end, a user's deadline
Terminal == {"completed", "partial", "stopped", "failed"}
States == Terminal \cup {"absent", "deleted", "waiting", "recording", "reconnecting", "finalizing"}

\* `waiting` stands for Queued, Waiting and Preparing; `begun` for attempt > 0;
\* `key` is the replica request a job was made for (0: none); `media` that of
\* the current attempt; `stalled` the message of a reconnection.
NewJob(state, request, key) ==
  [state |-> state, video |-> request.video, kind |-> request.kind, until |-> request.until,
   stop |-> FALSE, begun |-> FALSE, key |-> key,
   media |-> "none", retries |-> 0, stalled |-> FALSE, unrecovered |-> FALSE]
Row ==
  [state : States, video : Video, kind : Kind, until : Until, stop : BOOLEAN, begun : BOOLEAN,
   key : Nat, media : {"none", "fresh", "old"}, retries : 0..Often, stalled : BOOLEAN,
   unrecovered : BOOLEAN]
Request == [video : Video, kind : Kind, until : Until]
\* A window's end is only a channel's, a deadline only a recording's.
UserRequest == {r \in Request : r.until # "window" /\ (r.kind = "live" \/ r.until = "none")}

EmptyStore ==
  [jobs |-> [j \in Job |-> NewJob("absent", CHOOSE r \in Request : TRUE, 0)],
   runs |-> {}, requests |-> {}]
Stands(s, j) == s.jobs[j].state \notin {"absent", "deleted"}
Ended(s, j) == s.jobs[j].state \in Terminal
Running(s, j) == Stands(s, j) /\ ~Ended(s, j)
SetJob(s, j, r) == [s EXCEPT !.jobs[j] = r]

Spend(kind) == budget[kind] > 0 /\ budget' = [budget EXCEPT ![kind] = @ - 1]

----------------------------------------------------------------------------
\* add_job_keyed. `occurrence` is a set: empty, or the key of one occurrence.

\* ORDER BY rowid DESC: the newest first.
Newest(jobs) == {j \in jobs : \A k \in jobs : k <= j}
Known(s, key) == {j \in Job : <<key, j>> \in s.requests}
Matching(s, request, automatic) ==
  Newest({j \in Job :
    /\ Stands(s, j) /\ s.jobs[j].video = request.video
    /\ (automatic /\ s.jobs[j].kind = request.kind) \/ ~Ended(s, j)})
Differs(r, request) == r.kind # request.kind \/ r.until # request.until
Requested(s, key, j) == IF key = 0 THEN s ELSE [s EXCEPT !.requests = @ \cup {<<key, j>>}]
Consumed(s, occurrence) == [s EXCEPT !.runs = @ \cup occurrence]
Unused(s) == {j \in Job : s.jobs[j].state = "absent" /\ \A k \in 1..(j - 1) : s.jobs[k].state # "absent"}

\* The answers of one transaction: a job, and the store as it leaves it. No
\* answer is an error, which leaves the store alone.
Answer(s, j) == [store |-> s, job |-> j]
Created(s, request, key, occurrence, j) ==
  Answer(Requested(Consumed(SetJob(s, j, NewJob("waiting", request, key)), occurrence), key, j), j)

\* A defect: a replica request is not looked up.
AnswersUnkeyed(s, request, automatic, key, occurrence) ==
  LET same == Matching(s, request, automatic) IN
  IF same = {} THEN {Created(s, request, key, occurrence, j) : j \in Unused(s)}
  ELSE {Answer(Requested(s, key, j), j) : j \in {m \in same : ~Differs(s.jobs[m], request)}}

Answers(s, request, automatic, key, occurrence) ==
  LET known == IF key = 0 THEN {} ELSE Known(s, key)
      same == IF known = {} THEN Matching(s, request, automatic) ELSE {}
  IN IF occurrence \cap s.runs # {} THEN {}
     ELSE {Answer(s, j) : j \in known}
       \* Of an occurrence that was recorded before there was a ledger, or by hand.
       \cup {Answer(Consumed(s, occurrence), j) :
               j \in {m \in same : occurrence # {} /\ Ended(s, m)}}
       \cup {Answer(Requested(s, key, j), j) :
               j \in {m \in same : occurrence = {} /\ (automatic \/ ~Differs(s.jobs[m], request))}}
       \cup {Created(s, request, key, occurrence, j) :
               j \in {n \in Unused(s) : known = {} /\ same = {}}}

\* A defect: the history of a job's occurrences goes with the job.
DeletedWithRuns(s, j) ==
  [s EXCEPT !.jobs[j] = NewJob("deleted", @, 0), !.runs = {},
            !.requests = {q \in @ : q[2] # j}]
Deleted(s, j) ==
  [s EXCEPT !.jobs[j] = NewJob("deleted", @, 0), !.requests = {q \in @ : q[2] # j}]

----------------------------------------------------------------------------
\* What becomes of a job. Each operator gives the rows that may follow a row.

When(condition, r) == IF condition THEN {r} ELSE {}

Starts(r) ==
  When(r.state = "waiting" /\ ~r.stop,
       [r EXCEPT !.state = "recording", !.begun = TRUE, !.media = "none", !.stalled = FALSE])
Receives(r) == When(r.state = "recording", [r EXCEPT !.media = "fresh"])
\* Nothing for as long as the stall timeout.
Stalls(r) == When(r.state = "recording", [r EXCEPT !.media = "old"])
Disconnects(r) ==
  UNION {When(r.state = "recording" /\ ~r.stop,
              [r EXCEPT !.state = "reconnecting", !.stalled = b,
                        !.retries = IF @ < Often THEN @ + 1 ELSE @]) : b \in BOOLEAN}
Reconnects(r) == When(r.state = "reconnecting" /\ ~r.stop, [r EXCEPT !.state = "waiting"])
\* A stop before the first attempt has nothing to finish.
Halted(r) == [r EXCEPT !.stop = TRUE, !.state = IF r.begun THEN "finalizing" ELSE "stopped"]
Finishes(r) ==
  When(r.state = "recording", [r EXCEPT !.state = "finalizing"])
  \cup When(r.state \in {"waiting", "reconnecting"} /\ ~r.stop, [r EXCEPT !.state = "failed"])
  \cup When(r.state \in {"waiting", "reconnecting"} /\ r.stop, Halted(r))
  \cup When(r.state = "finalizing" /\ r.stop, [r EXCEPT !.state = "stopped"])
  \cup UNION {When(r.state = "finalizing", [r EXCEPT !.state = e]) : e \in {"completed", "partial"}}
Life(r) ==
  Starts(r) \cup Receives(r) \cup Stalls(r) \cup Disconnects(r) \cup Reconnects(r) \cup Finishes(r)

\* The stop request. A task that runs is told and ends by itself, otherwise the
\* request moves the job.
Stopped(r) ==
  {[r EXCEPT !.stop = TRUE]}
  \cup When(r.state \in {"waiting", "reconnecting"}, Halted(r))
\* Retry and recovery take any job that no task holds, ended or not: between two
\* attempts, or stopped and not yet finished.
Unheld(r) == r.state # "recording" /\ (r.state = "finalizing" => r.stop)
Retried(r) ==
  When(Unheld(r), [r EXCEPT !.state = "waiting", !.until = "none", !.stop = FALSE, !.retries = 0,
                            !.unrecovered = FALSE])
Repaired(r) ==
  When(Unheld(r) /\ r.begun, [r EXCEPT !.state = "finalizing", !.until = "none", !.stop = FALSE])
\* set_schedule and, for a job that has not begun, set_full_schedule.
Editable(r) == r.state \notin Terminal \cup {"finalizing"} /\ ~r.stop
Unbegun(r) == r.state = "waiting" /\ ~r.begun /\ ~r.stop

\* recover_interrupted, at the start of the process: what a task was at work on.
Recovered(r) ==
  IF r.state \in {"waiting", "recording", "reconnecting"} /\ r.stop THEN Halted(r)
  ELSE IF r.state \in {"recording", "reconnecting"} \/ (r.state = "finalizing" /\ ~r.stop)
  THEN [r EXCEPT !.state = "waiting"]
  ELSE r

----------------------------------------------------------------------------
\* This service's jobs, and the process.

StoreInit ==
  /\ store = EmptyStore /\ up = TRUE /\ budget \in Budgets

Set(rows, j) == \E r \in rows : store' = SetJob(store, j, r) /\ UNCHANGED up

\* A request of a user for a recording or a download. The answer comes after
\* the fan-out, which is a transaction of its own (ReplicaDelivery).
Deadline(j, until) ==
  /\ Editable(store.jobs[j]) /\ Spend("user")
  /\ Set({[store.jobs[j] EXCEPT !.until = until]}, j)
Stop(j) == Spend("user") /\ Set(Stopped(store.jobs[j]), j)
Retry(j) == Spend("user") /\ Set(Retried(store.jobs[j]), j)
Recover(j) == Spend("user") /\ Set(Repaired(store.jobs[j]), j)
Delete(j) ==
  /\ Ended(store, j) /\ Spend("user")
  /\ store' = Deleted(store, j) /\ UNCHANGED up
\* The recorder writes the row; a recovery sets its error.
Capture(j) ==
  /\ Spend("capture")
  /\ Set(Life(store.jobs[j])
         \cup {[store.jobs[j] EXCEPT !.unrecovered = ~@]}, j)

JobSteps ==
  /\ up
  /\ \E j \in Job :
       /\ Stands(store, j)
       /\ \/ \E d \in {"none", "user"} : Deadline(j, d)
          \/ Stop(j) \/ Retry(j) \/ Recover(j) \/ Delete(j) \/ Capture(j)

=============================================================================
