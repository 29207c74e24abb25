--------------------------- MODULE ReplicaDelivery ---------------------------
(***************************************************************************)
(* Recording on a second computer: a live job gets a delivery (fanout_job, *)
(* enqueue_replica), and a loop asks the other service for the recording,  *)
(* follows it, and hands on stop requests and deadlines (replica.rs).      *)
(* Every remote call may fail before or after it took effect.              *)
(*                                                                         *)
(* The request's identity is the job's: a job has one delivery in its      *)
(* life. `remote` is the other service's store; JobStore has what it       *)
(* answers.                                                                *)
(***************************************************************************)
EXTENDS JobStore

CONSTANTS
  MaxTries  \* failures in a row that end a delivery (8)

ASSUME ReplicaAssumption == MaxTries \in Nat \ {0}

VARIABLES
  fanning,  \* jobs of answered requests that fanout_job has still to see
  replica,  \* the delivery in each row
  remote,   \* the store of the other service
  courier   \* the loop: its copies of a row and what it knows of the remote job

replicaVars == <<fanning, replica, remote, courier>>
storeVars == <<store, up>>

Delivery ==
  [state : {"none", "pending", "accepted", "retrying", "failed", "finished", "cancelled"},
   remote : {0} \cup Job, tries : 0..MaxTries]
NoDelivery == [state |-> "none", remote |-> 0, tries |-> 0]
\* A defect: a delivery is never given up.
DoneButFailed(d) == d.state \in {"none", "finished", "cancelled"}
Done(d) == d.state \in {"none", "finished", "failed", "cancelled"}

Calls == {"find", "stop", "plan", "deadline"}
Resting ==
  [phase |-> "idle", job |-> 0, copy |-> NoDelivery, row |-> <<>>, at |-> 0, seen |-> <<>>,
   ok |-> FALSE]
ReplicaTypeOK ==
  /\ fanning \subseteq Job
  /\ replica \in [Job -> Delivery]
  /\ remote.jobs \in [Job -> Row] /\ remote.requests \subseteq Job \X Job
  /\ courier.phase \in Calls \cup {"idle", "cancel", "save"}
  /\ courier.copy \in Delivery
  /\ courier # Resting => courier.job \in Job /\ courier.row \in Row

ReplicaInit ==
  /\ fanning = {} /\ replica = [j \in Job |-> NoDelivery]
  /\ remote = EmptyStore /\ courier = Resting

----------------------------------------------------------------------------
\* From a request to a delivery.

\* POST /jobs and /downloads: the row first, the fan-out in a second transaction.
Record(request) ==
  /\ up /\ Spend("user")
  /\ \E a \in Answers(store, request, FALSE, 0, {}) :
       /\ store' = a.store
       /\ fanning' = IF request.kind = "live" THEN fanning \cup {a.job} ELSE fanning
  /\ UNCHANGED <<up, replica, remote, courier>>

\* enqueue_replica, or nothing when no other service is configured.
Enqueue(j) ==
  \/ /\ Spend("replica")
     /\ replica' = IF /\ Running(store, j) /\ ~store.jobs[j].stop /\ store.jobs[j].key = 0
                      /\ replica[j] = NoDelivery
                   THEN [replica EXCEPT ![j].state = "pending"]
                   ELSE replica
  \/ UNCHANGED <<replica, budget>>
Fanout(j) ==
  /\ up /\ j \in fanning /\ fanning' = fanning \ {j} /\ Enqueue(j)
  /\ UNCHANGED <<storeVars, remote, courier>>

----------------------------------------------------------------------------
\* The loop. One job of its list is one round: what it does for one job does not
\* touch another.

Take(j) ==
  /\ up /\ courier.phase = "idle" /\ Stands(store, j) /\ ~Done(replica[j])
  /\ courier' =
       [phase |-> IF store.jobs[j].stop /\ replica[j].remote = 0 THEN "cancel" ELSE "find",
        job |-> j, copy |-> replica[j], row |-> store.jobs[j], at |-> replica[j].remote,
        seen |-> <<>>, ok |-> FALSE]
  /\ UNCHANGED <<storeVars, fanning, replica, remote, budget>>

\* update_job writes the whole delivery from the loop's copy.
Writes(d) ==
  /\ replica' = IF Stands(store, courier.job) THEN [replica EXCEPT ![courier.job] = d] ELSE replica
  /\ courier' = Resting
  /\ UNCHANGED <<storeVars, fanning, remote, budget>>
CancelUndelivered ==
  /\ up /\ courier.phase = "cancel"
  /\ Writes([courier.copy EXCEPT !.state = "cancelled"])

\* What deliver does next, from the remote row it saw last.
AfterPlan(seen) ==
  IF seen.until # courier.row.until /\ Editable(seen) THEN "deadline" ELSE "save"
AfterStop(seen) ==
  IF seen.until # courier.row.until /\ Unbegun(seen) THEN "plan" ELSE AfterPlan(seen)
\* A defect: only a recording is asked to stop.
AfterFindRecording(seen) ==
  IF courier.row.stop /\ seen.state = "recording" THEN "stop" ELSE AfterStop(seen)
AfterFind(seen) ==
  IF courier.row.stop /\ seen.state \notin Terminal THEN "stop" ELSE AfterStop(seen)
After(seen) ==
  CASE courier.phase = "find" -> AfterFind(seen)
    [] courier.phase = "stop" -> AfterStop(seen)
    [] courier.phase = "plan" -> AfterPlan(seen)
    [] OTHER -> "save"

\* The jobs a call may be answered with, and the other store after it. No answer
\* is an error that the other service returns.
Wanted ==
  [video |-> courier.row.video, kind |-> courier.row.kind, until |-> courier.row.until]
There == {k \in Job \cap {courier.at} : Stands(remote, k)}
Found ==
  IF courier.at = 0 THEN Answers(remote, Wanted, FALSE, courier.job, {})
  ELSE {Answer(remote, k) : k \in There}
StopHandled ==
  UNION {{Answer(SetJob(remote, k, r), k) : r \in Stopped(remote.jobs[k])} : k \in There}
DeadlineHandled(allowed) ==
  {Answer(SetJob(remote, k, [remote.jobs[k] EXCEPT !.until = courier.row.until]), k) :
     k \in There \cap allowed}
Handled ==
  CASE courier.phase = "find" -> Found
    [] courier.phase = "stop" -> StopHandled
    [] courier.phase = "plan" -> DeadlineHandled({k \in Job : Unbegun(remote.jobs[k])})
    [] courier.phase = "deadline" -> DeadlineHandled({k \in Job : Editable(remote.jobs[k])})

\* An error of any call is one of the whole round: an identity that was already
\* received is forgotten, and asked for again by the same request.
Fails == courier' = [courier EXCEPT !.phase = "save", !.ok = FALSE, !.seen = <<>>, !.at = 0]
Call ==
  /\ up /\ courier.phase \in Calls
  /\ \E a \in Handled :
       LET seen == a.store.jobs[a.job] IN
       /\ remote' = a.store
       /\ \/ courier' = [courier EXCEPT !.at = a.job, !.seen = seen, !.ok = TRUE,
                                        !.phase = After(seen)]
          \/ Fails  \* The answer is lost.
  /\ UNCHANGED <<storeVars, fanning, replica, budget>>
CallFails ==
  /\ up /\ courier.phase \in Calls /\ Fails
  /\ UNCHANGED <<storeVars, fanning, replica, remote, budget>>

Followed ==
  LET seen == courier.seen IN
  IF seen.state \in {"failed", "partial"} \/ (seen.state = "stopped" /\ ~courier.row.stop)
  THEN "failed"
  ELSE IF seen.state \in Terminal THEN "finished" ELSE "accepted"
Save ==
  /\ up /\ courier.phase = "save"
  /\ IF courier.ok
     THEN Writes([state |-> Followed, remote |-> courier.at, tries |-> 0])
     ELSE LET tries == courier.copy.tries + 1 IN
          Writes([courier.copy EXCEPT !.tries = tries,
                                      !.state = IF tries >= MaxTries THEN "failed" ELSE "retrying"])

----------------------------------------------------------------------------
\* What else happens to the jobs here; the delivery is part of the row.
LocalSteps ==
  /\ JobSteps
  /\ replica' = [j \in Job |-> IF store'.jobs[j].state = "deleted" THEN NoDelivery ELSE replica[j]]
  /\ UNCHANGED <<fanning, remote, courier>>

\* The other service: its own users, channels and recorder.
RemoteUser(request) ==
  \E a \in Answers(remote, request, FALSE, 0, {}) : remote' = a.store
RemoteJob(j) ==
  \/ LET r == remote.jobs[j] IN
     \E next \in Life(r) \cup Stopped(r) \cup Retried(r) \cup Repaired(r) :
       remote' = SetJob(remote, j, next)
  \/ Ended(remote, j) /\ remote' = Deleted(remote, j)
RemoteSteps ==
  /\ Spend("remote")
  /\ \/ \E request \in UserRequest : RemoteUser(request)
     \/ \E j \in Job : Stands(remote, j) /\ RemoteJob(j)
  /\ UNCHANGED <<storeVars, fanning, replica, courier>>

Courier(j) == Take(j) \/ (courier.job = j /\ (CancelUndelivered \/ Call \/ CallFails \/ Save))

----------------------------------------------------------------------------
\* Properties

\* However often a request is sent again after a lost answer, the other service
\* has one job for it, and the job the row follows is the one that was made for
\* the request or found for it (replica.rs, add_job_keyed).
OneRemoteJob ==
  \A j \in Job :
    /\ \A a, b \in Job :
         /\ Stands(remote, a) /\ remote.jobs[a].key = j
         /\ Stands(remote, b) /\ remote.jobs[b].key = j
         => a = b
    /\ \A a \in Job :
         replica[j].remote = a /\ Stands(remote, a) => <<j, a>> \in remote.requests

\* A stop request of the user reaches the recording that was accepted on the
\* other computer, unless the delivery was given up after MaxTries failures.
Heard(j) ==
  \A a \in Job :
    replica[j].remote = a => ~Running(remote, a) \/ remote.jobs[a].stop
StopReachesRemote ==
  \A j \in Job :
    (store.jobs[j].stop /\ replica[j].remote # 0 /\ ~Done(replica[j]))
      ~> (Heard(j) \/ ~store.jobs[j].stop \/ Done(replica[j]))

=============================================================================
