------------------------------ MODULE Automation ------------------------------
(***************************************************************************)
(* What the service does by itself, together: the channel monitor, the     *)
(* replica loop, the alerts and the outbox of notifications, each a task   *)
(* of its own (run in lib.rs), over the store they share, with the users   *)
(* and the recorder between any two of their steps. The process may crash: *)
(* the tables stay, what the tasks held is gone.                           *)
(***************************************************************************)
EXTENDS ChannelMonitor, JobAlerts

vars ==
  <<store, up, budget, replicaVars, outboxVars, alertVars, monitorVars>>

TypeOK ==
  /\ up \in BOOLEAN /\ budget \in [Disturbances -> Nat]
  /\ store.jobs \in [Job -> Row] /\ store.requests = {}
  /\ ReplicaTypeOK /\ OutboxTypeOK /\ MonitorTypeOK /\ AlertsTypeOK

Init == StoreInit /\ ReplicaInit /\ OutboxInit /\ MonitorInit /\ AlertsInit

----------------------------------------------------------------------------
\* The steps of one component leave the other components' variables alone.

Jobs ==
  /\ LocalSteps \/ \E request \in UserRequest : Record(request)
  /\ AlertsFollow /\ UNCHANGED <<outboxVars, monitorVars>>
Replicas ==
  /\ RemoteSteps \/ \E j \in Job : Fanout(j) \/ Courier(j)
  /\ UNCHANGED <<outboxVars, alertVars, monitorVars>>
Channels == ChannelSteps /\ UNCHANGED alertVars
Notifications == OutboxSteps /\ UNCHANGED <<replicaVars, alertVars, monitorVars>>
Alerts == Watch /\ UNCHANGED monitorVars

Crash ==
  /\ up /\ Spend("crash") /\ up' = FALSE
  /\ fanning' = {} /\ courier' = Resting /\ sender' = Quiet /\ scan' = NoScan /\ edit' = NoEdit
  /\ watch' = Idle
  /\ UNCHANGED <<store, replica, remote, targets, outbox, alerts, unseen, channel, site, clock,
                 recorded, streak>>
Start ==
  /\ ~up /\ up' = TRUE
  /\ store' = [store EXCEPT !.jobs = [j \in Job |-> Recovered(@[j])]]
  /\ AlertsFollow
  /\ UNCHANGED <<budget, replicaVars, outboxVars, monitorVars>>

Next == Jobs \/ Replicas \/ Channels \/ Notifications \/ Alerts \/ Crash \/ Start

----------------------------------------------------------------------------
\* The process is started again after a crash, its loops go on, no back-off is
\* for ever, and a destination that is tried again and again is reached.
Fairness ==
  /\ WF_vars(Start)
  /\ WF_vars(Deliver /\ UNCHANGED <<replicaVars, alertVars, monitorVars>>)
  /\ WF_vars(DueAgain(Waiting) /\ UNCHANGED <<replicaVars, alertVars, monitorVars>>)
  /\ \A t \in Target : SF_vars(Reaches(t) /\ UNCHANGED <<replicaVars, alertVars, monitorVars>>)
  /\ \A j \in Job : SF_vars(Courier(j) /\ UNCHANGED <<outboxVars, alertVars, monitorVars>>)

Spec == Init /\ [][Next]_vars /\ Fairness

=============================================================================
