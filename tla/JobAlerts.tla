------------------------------ MODULE JobAlerts ------------------------------
(***************************************************************************)
(* The alerts of a job (alerts.rs): a loop compares the conditions of each *)
(* row with its open alerts, opens and resolves them in one transaction    *)
(* with conditions computed anew, and writes the events, each with its     *)
(* notifications, after that transaction.                                  *)
(***************************************************************************)
EXTENDS ReplicaDelivery, NotificationOutbox

CONSTANTS
  AlertTries  \* failures of a delivery that are worth an alert (3)

ASSUME AlertAssumption == AlertTries \in Nat

VARIABLES
  alerts,  \* of each job and condition: "none", "open" or "resolved"
  watch,   \* the loop: jobs to reconcile, events to write
  unseen   \* history: open alerts since which no media came

alertVars == <<alerts, watch, unseen>>

Reception == {"stalled", "reconnecting", "recording_failed"}
Condition == Reception \cup {"recovery_failed", "replica_failed"}
NoAlerts == [c \in Condition |-> "none"]
Idle == [todo |-> {}, events |-> <<>>]
AlertsTypeOK ==
  /\ alerts \in [Job -> [Condition -> {"none", "open", "resolved"}]]
  /\ watch.todo \subseteq Job
  /\ unseen \in [Job -> SUBSET Reception]

AlertsInit ==
  /\ alerts = [j \in Job |-> NoAlerts] /\ watch = Idle /\ unseen = [j \in Job |-> {}]

----------------------------------------------------------------------------
\* What a row shows by itself.
Shown(r, d) ==
  {c \in Condition :
     \/ c = "stalled" /\ r.state = "recording" /\ r.media = "old"
     \/ c = "stalled" /\ r.state = "reconnecting" /\ r.stalled
     \/ c = "reconnecting" /\ r.state = "reconnecting" /\ r.retries >= Often
     \/ c = "recording_failed" /\ r.state = "failed"
     \/ c = "recovery_failed" /\ r.unrecovered
     \/ c = "replica_failed" /\ (d.state = "failed" \/ d.tries >= AlertTries)}
Open(j) == {c \in Condition : alerts[j][c] = "open"}

\* A retry alone is no evidence of recovery: an open alert of the reception
\* stays until media arrives, or the job ends or is stopped.
Receiving(r) == r.state = "recording" /\ r.media = "fresh"
KeptOpen(r, j) ==
  IF Receiving(r) \/ r.state \in Terminal \/ r.stop THEN {} ELSE Open(j) \cap Reception
\* A defect: a new attempt counts as recovery.
ConditionsAtOnce(j) ==
  LET r == store.jobs[j] IN
  Shown(r, replica[j]) \cup (IF r.state = "recording" THEN {} ELSE KeptOpen(r, j))
Conditions(j) == Shown(store.jobs[j], replica[j]) \cup KeptOpen(store.jobs[j], j)

\* The rows are read once for the round; what they show decides which jobs are
\* looked at again.
Look ==
  /\ up /\ watch = Idle
  /\ watch' = [Idle EXCEPT !.todo = {j \in Job : Stands(store, j) /\ Conditions(j) # Open(j)}]
  /\ watch' # Idle
  /\ UNCHANGED <<store, up, budget, replicaVars, outboxVars, alerts, unseen>>

\* reconcile, inside update_job; a job that was deleted meanwhile is skipped.
Resolved(j) == Open(j) \ Conditions(j)
Opened(j) == Conditions(j) \ Open(j)
Events(j) ==
  SetToSeq({<<"alert_resolved", j, c>> : c \in Resolved(j)})
  \o SetToSeq({<<"alert_opened", j, c>> : c \in Opened(j)})
Reconcile(j) ==
  /\ up /\ watch.events = <<>> /\ j \in watch.todo
  /\ watch' = [todo |-> watch.todo \ {j},
               events |-> IF Stands(store, j) THEN Events(j) ELSE <<>>]
  /\ alerts' = IF ~Stands(store, j) THEN alerts
               ELSE [alerts EXCEPT ![j] = [c \in Condition |->
                       IF c \in Opened(j) THEN "open"
                       ELSE IF c \in Resolved(j) THEN "resolved" ELSE @[c]]]
  /\ unseen' = IF ~Stands(store, j) THEN unseen
               ELSE [unseen EXCEPT ![j] = (@ \cup (Opened(j) \cap Reception)) \ Resolved(j)]
  /\ UNCHANGED <<store, up, budget, replicaVars, outboxVars>>
\* One event, with its notifications, in a transaction of its own.
Tell ==
  /\ up /\ watch.events # <<>>
  /\ watch' = [watch EXCEPT !.events = Tail(@)]
  /\ outbox' = Posted(Head(watch.events))
  /\ UNCHANGED <<store, up, budget, replicaVars, targets, sender, alerts, unseen>>

Watch == Look \/ (\E j \in Job : Reconcile(j)) \/ Tell

\* The alerts are part of the row, and media is what the history waits for.
AlertsFollow ==
  /\ alerts' = [j \in Job |-> IF store'.jobs[j].state = "deleted" THEN NoAlerts ELSE alerts[j]]
  /\ unseen' = [j \in Job |->
       IF store'.jobs[j].state = "deleted" \/ Receiving(store'.jobs[j]) THEN {} ELSE unseen[j]]
  /\ UNCHANGED watch

----------------------------------------------------------------------------
\* Properties

\* An alert about the reception is resolved only if media came after it was
\* opened, or the job has ended or was stopped: no number of retries resolves it
\* (README, "A retry by itself does not count as recovery").
ResolvedByMedia ==
  [][\A j \in Job : \A c \in Reception :
       alerts[j][c] = "open" /\ alerts'[j][c] = "resolved"
         => c \notin unseen[j] \/ Ended(store, j) \/ store.jobs[j].stop]_<<alerts, unseen, store>>

=============================================================================
