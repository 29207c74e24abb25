--------------------------- MODULE ChannelMonitor ---------------------------
(***************************************************************************)
(* The channel monitor (monitor in scheduler.rs): it lists a channel,      *)
(* inspects each broadcast, evaluates the channel's rules and has what     *)
(* they allow recorded, once per broadcast and window. The outcome of a    *)
(* scan goes into the channel's health, from which incidents are opened    *)
(* and resolved with their notifications (complete_channel_scan). Users    *)
(* edit, delete and add the channel meanwhile; there is one at a time.     *)
(***************************************************************************)
EXTENDS ReplicaDelivery, NotificationOutbox, WeeklyWindow

CONSTANTS
  Rules,     \* rules a user may give: broadcasts the keywords refuse, a window or none
  Failing    \* failures in a row that open an incident (3)

ASSUME MonitorAssumption ==
  /\ Rules \subseteq [blocked : SUBSET Video, window : {{}} \cup {{w} : w \in Window}]
  /\ Failing \in Nat \ {0}

VARIABLES
  channel,   \* its row; id 0 when there is none, `made` ids so far
  scan,      \* the monitor's scan: where it stands and what it holds
  edit,      \* a channel_update between its read and its write
  site,      \* the broadcasts, and what is broken
  clock,     \* local time of the windows
  recorded,  \* history: jobs that the monitor added, by occurrence
  streak     \* history: scans of this channel that failed in a row

monitorVars == <<channel, scan, edit, site, clock, recorded, streak>>
others == <<targets, sender, fanning, remote, courier>>

DefaultRules == [blocked |-> {}, window |-> {}]
NoChannel(made) ==
  [id |-> 0, made |-> made, enabled |-> FALSE, rules |-> DefaultRules,
   failures |-> 0, incident |-> FALSE]
NoScan ==
  [phase |-> "idle", id |-> 0, urls |-> {}, rules |-> DefaultRules,
   error |-> FALSE, request |-> <<>>, key |-> <<>>, repeat |-> FALSE, job |-> 0]
NoEdit == [id |-> 0, row |-> <<>>]

MonitorTypeOK ==
  /\ channel.id \in {0, channel.made} /\ channel.rules \in Rules \cup {DefaultRules}
  /\ channel.failures \in 0..Failing /\ streak \in 0..Failing
  /\ scan.phase \in {"idle", "listing", "next", "inspecting", "ledger", "adding", "fanning", "complete"}
  /\ scan.urls \subseteq Video /\ scan.rules \in Rules \cup {DefaultRules}
  /\ edit # NoEdit => edit.row.id = edit.id
  /\ clock \in Instant /\ \A r \in recorded : r[2] \in Job

MonitorInit ==
  /\ channel = NoChannel(0) /\ scan = NoScan /\ edit = NoEdit
  /\ site = [status |-> [v \in Video |-> "live"], broken |-> "none"]
  /\ clock = [day |-> 0, minute |-> 0]
  /\ recorded = {} /\ streak = 0

----------------------------------------------------------------------------
\* The scan.

Scans(phase) == up /\ scan.phase = phase
Quietly == UNCHANGED <<store, up, replica, outbox, others, channel, edit, site, clock, recorded, streak>>
\* On with the list, or the end of it.
NextPhase(urls) == IF urls = {} THEN "complete" ELSE "next"
Onward(urls, error) ==
  scan' = [NoScan EXCEPT !.phase = NextPhase(urls), !.id = scan.id, !.urls = urls,
                         !.error = scan.error \/ error]

BeginScan ==
  /\ Scans("idle") /\ channel.id # 0 /\ channel.enabled
  /\ scan' = [NoScan EXCEPT !.id = channel.id,
                            !.phase = IF site.broken = "engine" THEN "complete" ELSE "listing",
                            !.error = site.broken = "engine"]
  /\ Quietly /\ UNCHANGED budget
Listed == {v \in Video : site.status[v] # "over"}
List ==
  /\ Scans("listing")
  /\ IF site.broken = "none" THEN Onward(Listed, FALSE) ELSE Onward({}, TRUE)
  /\ Quietly /\ UNCHANGED budget

\* The rules are read again before each broadcast: edits during the listing count.
TakeUrl ==
  /\ Scans("next")
  /\ \E v \in scan.urls :
       IF channel.id = scan.id /\ channel.enabled
       THEN scan' = [scan EXCEPT !.phase = "inspecting", !.urls = @ \ {v}, !.rules = channel.rules,
                                 !.request = [video |-> v, kind |-> "live", until |-> "none"]]
       ELSE Onward({}, FALSE)
  /\ Quietly /\ UNCHANGED budget

\* ChannelRules::evaluate, with the clock at the end of the inspection.
Windows(rules) == UNION {Occurrence(w, clock) : w \in rules.window}
Allowed(rules, v) == v \notin rules.blocked /\ (rules.window # {} => Windows(rules) # {})
StartOf(rules) ==
  IF rules.window = {} THEN <<>> ELSE <<(CHOOSE i \in Windows(rules) : TRUE).start>>
Inspect ==
  /\ Scans("inspecting")
  /\ LET v == scan.request.video IN
     IF Allowed(scan.rules, v) /\ site.status[v] # "over"
     THEN scan' = [scan EXCEPT !.phase = "ledger", !.key = <<scan.id, v, StartOf(scan.rules)>>,
                               !.repeat = scan.rules.window # {},
                               !.request.until = IF scan.rules.window = {} THEN "none" ELSE "window"]
     ELSE Onward(scan.urls, FALSE)
  /\ Quietly /\ UNCHANGED budget
InspectFails ==
  /\ Scans("inspecting") /\ Spend("site") /\ Onward(scan.urls, TRUE) /\ Quietly

\* add_window_job: the ledger is read, and read again in the transaction.
ReadLedger ==
  /\ Scans("ledger")
  /\ IF scan.key \in store.runs THEN Onward(scan.urls, FALSE)
     ELSE scan' = [scan EXCEPT !.phase = "adding"]
  /\ Quietly /\ UNCHANGED budget
AddWindowJob ==
  /\ Scans("adding")
  /\ LET answers == Answers(store, scan.request, ~scan.repeat, 0, {scan.key}) IN
     IF answers = {}
     THEN Onward(scan.urls, FALSE) /\ UNCHANGED <<store, recorded>>
     ELSE \E a \in answers :
            /\ store' = a.store /\ scan' = [scan EXCEPT !.phase = "fanning", !.job = a.job]
            /\ recorded' = IF Stands(store, a.job) THEN recorded
                           ELSE recorded \cup {<<scan.key, a.job>>}
  /\ UNCHANGED <<up, budget, replica, outbox, others, channel, edit, site, clock, streak>>
FanoutScanned ==
  /\ Scans("fanning") /\ Onward(scan.urls, FALSE)
  /\ Enqueue(scan.job)
  /\ UNCHANGED <<store, up, outbox, others, channel, edit, site, clock, recorded, streak>>

\* complete_channel_scan, one transaction on the row as it is now.
Failed ==
  LET failures == IF channel.failures < Failing THEN channel.failures + 1 ELSE Failing
      opens == failures >= Failing /\ ~channel.incident
  IN /\ channel' = [channel EXCEPT !.failures = failures, !.incident = @ \/ opens]
     /\ outbox' = IF opens THEN Posted(<<"channel_failed", channel.id>>) ELSE outbox
     /\ streak' = IF streak < Failing THEN streak + 1 ELSE streak
Succeeded ==
  /\ channel' = [channel EXCEPT !.failures = 0, !.incident = FALSE]
  /\ outbox' = IF channel.incident THEN Posted(<<"channel_recovered", channel.id>>) ELSE outbox
  /\ streak' = 0
CompleteScan ==
  /\ Scans("complete") /\ scan' = NoScan
  /\ IF channel.id # scan.id \/ ~channel.enabled THEN UNCHANGED <<channel, outbox, streak>>
     ELSE IF scan.error THEN Failed ELSE Succeeded
  /\ UNCHANGED <<store, up, budget, replica, others, edit, site, clock, recorded>>

Scan ==
  \/ BeginScan \/ List \/ TakeUrl \/ Inspect \/ InspectFails \/ ReadLedger \/ AddWindowJob
  \/ FanoutScanned \/ CompleteScan

----------------------------------------------------------------------------
\* The users and the world.

Aside == UNCHANGED <<store, up, replica, outbox, others, scan, recorded>>

\* channel_update reads the row, changes it and writes it whole.
ReadForEdit ==
  /\ up /\ Spend("edit") /\ edit = NoEdit /\ channel.id # 0
  /\ \E r \in Rules, b \in BOOLEAN :
       edit' = [id |-> channel.id, row |-> [channel EXCEPT !.rules = r, !.enabled = b]]
  /\ UNCHANGED <<channel, site, clock, streak>> /\ Aside
WriteEdit ==
  /\ up /\ edit # NoEdit /\ edit' = NoEdit
  /\ channel' = IF channel.id = edit.id THEN edit.row ELSE channel
  /\ UNCHANGED <<budget, site, clock, streak>> /\ Aside
DeleteChannel ==
  /\ up /\ Spend("edit") /\ channel.id # 0
  /\ channel' = NoChannel(channel.made)
  /\ UNCHANGED <<edit, site, clock, streak>> /\ Aside
\* A new identity, so new occurrences.
AddChannel ==
  /\ up /\ Spend("edit") /\ channel.id = 0
  /\ channel' = [NoChannel(channel.made + 1) EXCEPT !.id = channel.made + 1, !.enabled = TRUE]
  /\ streak' = 0
  /\ UNCHANGED <<edit, site, clock>> /\ Aside

SiteChanges ==
  /\ \/ /\ Spend("site")
        /\ \/ \E b \in {"engine", "site"} : site.broken = "none" /\ site' = [site EXCEPT !.broken = b]
           \/ \E v \in Video : site.status[v] = "live" /\ site' = [site EXCEPT !.status[v] = "over"]
     \/ site.broken # "none" /\ site' = [site EXCEPT !.broken = "none"] /\ UNCHANGED budget
  /\ UNCHANGED <<channel, edit, clock, streak>> /\ Aside
Tick ==
  /\ clock' = IF clock.minute + 1 < DayLength THEN [clock EXCEPT !.minute = @ + 1]
              ELSE [day |-> clock.day + 1, minute |-> 0]
  /\ Spend("clock")
  /\ UNCHANGED <<channel, edit, site, streak>> /\ Aside

ChannelSteps ==
  Scan \/ ReadForEdit \/ WriteEdit \/ DeleteChannel \/ AddChannel \/ SiteChanges \/ Tick

----------------------------------------------------------------------------
\* Properties

\* A broadcast is recorded once per window, or once at all without a window,
\* whatever becomes of the job: a stop, an end, a retry, a deletion, a restart, an
\* edit of the rules between the two looks at the ledger (add_window_job). And
\* an occurrence is used up only by a job of its broadcast.
OccurrenceRecordedOnce ==
  /\ \A a, b \in recorded : a[1] = b[1] => a[2] = b[2]
  /\ \A key \in store.runs :
       \E j \in Job : store.jobs[j].state # "absent" /\ store.jobs[j].video = key[2]

\* What the README says of channels: it takes three failures in a row to open an
\* incident, and a scan that succeeds resolves it. So wherever an incident appears,
\* that many scans have just failed, and one that was resolved stays so until then
\* (CompleteScan; WriteEdit, which writes the incident of its read).
IncidentAfterFailures ==
  [][channel.id = channel'.id /\ ~channel.incident /\ channel'.incident => streak' >= Failing]_<<channel, streak>>

=============================================================================
