------------------------- MODULE NotificationOutbox -------------------------
(***************************************************************************)
(* The outbox of notifications: an event and one message per destination   *)
(* are written in one transaction (Store::event, complete_channel_scan),   *)
(* a loop delivers what is due (notifications.rs), a user may send again.  *)
(***************************************************************************)
EXTENDS JobStore, Sequences, SequencesExt

CONSTANTS
  Target,  \* destinations a user may configure
  Limit,   \* messages of one round (20)
  Kept     \* delivered messages that are kept, by row number (1000)

ASSUME OutboxAssumption == Limit \in Nat \ {0} /\ Kept \in Nat

VARIABLES
  targets,  \* the configured destinations
  outbox,   \* the table, by row number
  sender    \* the loop: the settings it read, the messages of its round

outboxVars == <<targets, outbox, sender>>

\* A message is due, waits for its next attempt, is delivered, or was removed
\* from the table. History: `sent`, the destination has received it.
Message(target, about) == [to |-> target, about |-> about, state |-> "due", sent |-> FALSE]
OutboxTypeOK ==
  /\ targets \subseteq Target
  /\ \A n \in 1..Len(outbox) :
       /\ outbox[n].to \in Target /\ outbox[n].sent \in BOOLEAN
       /\ outbox[n].state \in {"due", "later", "delivered", "removed"}
  /\ sender.phase \in {"idle", "sending", "answered"} /\ sender.targets \subseteq Target
  /\ sender.batch \subseteq 1..Len(outbox) /\ sender.ok \in BOOLEAN
  /\ sender.phase # "idle" <=> sender.batch # {}

Quiet == [phase |-> "idle", targets |-> {}, batch |-> {}, ok |-> FALSE]
OutboxInit == targets = {} /\ outbox = <<>> /\ sender = Quiet

\* One message per configured destination, in the transaction of its event.
Posted(about) == outbox \o SetToSeq({Message(t, about) : t \in targets})

----------------------------------------------------------------------------
\* The loop.

Current == Min(sender.batch)
MayRun == up /\ UNCHANGED <<store, up, budget>>
Due == {n \in 1..Len(outbox) : outbox[n].state = "due"}

\* The settings and the list are read once for the round.
ReadDue ==
  /\ MayRun /\ sender.phase = "idle" /\ Due # {}
  /\ sender' = [phase |-> "sending", targets |-> targets, ok |-> FALSE,
                batch |-> {n \in Due : Cardinality({m \in Due : m <= n}) <= Limit}]
  /\ UNCHANGED <<targets, outbox>>

Answered(ok) == sender' = [sender EXCEPT !.phase = "answered", !.ok = ok]
Configured(n) == outbox[n].to \in sender.targets
\* The request arrives, the answer may not.
Arrives ==
  /\ MayRun /\ sender.phase = "sending" /\ Configured(Current)
  /\ outbox' = [outbox EXCEPT ![Current].sent = TRUE]
  /\ \E ok \in BOOLEAN : Answered(ok)
  /\ UNCHANGED targets

\* The destination is gone, cannot be reached or refuses.
NotSent ==
  /\ MayRun /\ sender.phase = "sending" /\ Answered(FALSE)
  /\ UNCHANGED <<targets, outbox>>

\* finish_notification: by the row number, whatever became of the row meanwhile.
\* A defect: a message without a destination is settled.
OutcomeOfTheGone(m) ==
  IF m.state = "removed" THEN m
  ELSE [m EXCEPT !.state = IF sender.ok \/ m.to \notin sender.targets THEN "delivered" ELSE "later"]
Outcome(m) ==
  IF m.state = "removed" THEN m
  ELSE [m EXCEPT !.state = IF sender.ok THEN "delivered" ELSE "later"]
\* A defect: what is not delivered is trimmed as well.
TrimmedUnsent(box) ==
  [n \in 1..Len(box) |->
     IF n + Kept < Len(box) THEN [box[n] EXCEPT !.state = "removed"] ELSE box[n]]
Trimmed(box) ==
  [n \in 1..Len(box) |->
     IF box[n].state = "delivered" /\ n + Kept < Len(box) THEN [box[n] EXCEPT !.state = "removed"]
     ELSE box[n]]
Finish ==
  /\ MayRun /\ sender.phase = "answered"
  /\ outbox' = Trimmed([outbox EXCEPT ![Current] = Outcome(@)])
  /\ sender' = IF sender.batch = {Current} THEN Quiet
               ELSE [sender EXCEPT !.phase = "sending", !.batch = @ \ {Current}, !.ok = FALSE]
  /\ UNCHANGED targets

\* The back-off ends: for some messages, in the end for all.
Waiting == {n \in 1..Len(outbox) : outbox[n].state = "later"}
DueAgain(some) ==
  /\ MayRun /\ some # {} /\ some \subseteq Waiting
  /\ outbox' = [n \in 1..Len(outbox) |->
                  IF n \in some THEN [outbox[n] EXCEPT !.state = "due"] ELSE outbox[n]]
  /\ UNCHANGED <<targets, sender>>

\* The users: another list of destinations; a message once more, delivered or not.
Configure(t) ==
  /\ up /\ Spend("settings")
  /\ targets' \in {targets \cup {t}, targets \ {t}} /\ targets' # targets
  /\ UNCHANGED <<store, up, outbox, sender>>
SendAgain(n) ==
  /\ up /\ Spend("user") /\ outbox[n].state # "removed"
  /\ outbox' = [outbox EXCEPT ![n].state = "due"]
  /\ UNCHANGED <<store, up, targets, sender>>

Deliver == ReadDue \/ Arrives \/ NotSent \/ Finish
OutboxSteps ==
  \/ Deliver
  \/ \E some \in SUBSET Waiting : DueAgain(some)
  \/ \E t \in Target : Configure(t)
  \/ \E n \in 1..Len(outbox) : SendAgain(n)

Reaches(t) == Arrives /\ outbox[Current].to = t /\ ~outbox[Current].sent

----------------------------------------------------------------------------
\* Properties

\* A message that counts as delivered, or is gone from the table, has reached
\* its destination: neither a settings change during a delivery nor a retry by
\* hand nor the trimming of the table loses one (finish_notification).
NothingUnsentForgotten ==
  \A n \in 1..Len(outbox) : outbox[n].state \in {"delivered", "removed"} => outbox[n].sent

\* Whatever is written for a destination that stays configured reaches it, over
\* failures, back-off, restarts and settings changes (notifications.rs).
Owed(t) == \E n \in 1..Len(outbox) : outbox[n].to = t /\ ~outbox[n].sent
EveryMessageSent == \A t \in Target : Owed(t) ~> (~Owed(t) \/ t \notin targets)

=============================================================================
