----------------------------- MODULE BackupMirror -----------------------------
(***************************************************************************)
(* The backup of a recording that goes on (service/backup.rs): rounds of a *)
(* process of its own copy, attempt by attempt, what its ledger named when *)
(* the round read it and that ledger, then the outputs of the row the      *)
(* round was given, then that row. The process is killed after a time,     *)
(* with the service, or by an error; the volume may be gone at any step.   *)
(***************************************************************************)
EXTENDS RecordingTimeline

VARIABLES
  mounted,  \* the backup volume is there
  mirror,   \* the round: where it stands, its copies of the ledger and of the row
  backup,   \* on the volume: verified copies, the ledger and the outputs it lists
  status    \* in the row

backupVars == <<mounted, mirror, backup, status>>

NoRound ==
  [phase |-> "idle", left |-> {}, attempt |-> 0, frozen |-> {}, todo |-> {}, outputs |-> {},
   final |-> FALSE]
BackupTypeOK ==
  /\ mirror.phase \in {"idle", "begun", "ledger", "copying", "outputs", "publishing", "done", "failed"}
  /\ mirror.left \subseteq Attempt /\ mirror.attempt \in {0} \cup Attempt
  /\ mirror.frozen \subseteq media
  /\ backup.ledger \subseteq media /\ backup.outputs \subseteq {"attempt", "gap"} \X Attempt
  /\ status \in {"none", "in_progress", "verified", "failed"}

BackupInit ==
  /\ mounted = TRUE /\ mirror = NoRound /\ status = "none"
  /\ backup = [files |-> {}, results |-> {}, ledger |-> {}, outputs |-> {}]

----------------------------------------------------------------------------
Mirroring(phase) == up /\ mirror.phase = phase
\* What a step needs the volume for fails without it.
Onto(volume) == mounted /\ backup' = volume
Round(phase, todo) == mirror' = [mirror EXCEPT !.phase = phase, !.todo = todo]
Apart == UNCHANGED <<timelineVars, mounted, status>>

\* The row is read once, for the whole round.
BeginRound ==
  /\ Mirroring("idle") /\ row.attempt > 0
  /\ bound.rounds > 0 /\ bound' = [bound EXCEPT !.rounds = @ - 1]
  /\ mirror' = [NoRound EXCEPT !.phase = "begun",
                               !.outputs = row.outputs, !.final = row.state \in Final]
  /\ UNCHANGED <<time, live, up, row, task, filler, listed, media, durable, mounted, backup, status>>
\* The process of the round lists the attempts' folders, as they are by then.
ListFolders ==
  /\ Mirroring("begun") /\ mirror' = [mirror EXCEPT !.phase = "ledger", !.left = 1..row.attempt]
  /\ UNCHANGED backup /\ Apart
\* The ledger of an attempt, up to its last whole line.
LedgerOf(n) == {m \in durable : m[1] = n}
ReadLedger ==
  /\ Mirroring("ledger")
  /\ \E n \in mirror.left :
       mirror' = [mirror EXCEPT !.phase = "copying", !.left = @ \ {n}, !.attempt = n,
                                !.frozen = LedgerOf(n), !.todo = LedgerOf(n)]
  /\ UNCHANGED backup /\ Apart
LedgersRead ==
  /\ Mirroring("ledger") /\ mirror.left = {}
  /\ Round("outputs", mirror.outputs) /\ UNCHANGED backup /\ Apart

\* copy_verified: into a file of another name, synced, hashed and then renamed.
CopyFile ==
  \E f \in mirror.todo :
    /\ Mirroring("copying") /\ Onto([backup EXCEPT !.files = @ \cup {f}])
    /\ Round("copying", mirror.todo \ {f}) /\ Apart
CopyOutput ==
  \E o \in mirror.todo :
    /\ Mirroring("outputs") /\ Onto([backup EXCEPT !.results = @ \cup {o}])
    /\ Round("outputs", mirror.todo \ {o}) /\ Apart

\* A defect: the ledger as it is by now.
ListedNow == LedgerOf(mirror.attempt)
Listed == mirror.frozen
PublishLedger ==
  /\ Mirroring("copying") /\ mirror.todo = {}
  /\ Onto([backup EXCEPT !.ledger = {m \in @ : m[1] # mirror.attempt} \cup Listed])
  /\ Round("ledger", {}) /\ Apart
PublishRow ==
  /\ Mirroring("outputs") /\ mirror.todo = {}
  /\ Onto([backup EXCEPT !.outputs = mirror.outputs])
  /\ Round("done", {}) /\ Apart
\* An error of a step, or the end of the three minutes.
RoundFails ==
  /\ up /\ mirror.phase \notin {"idle", "done", "failed"} /\ Round("failed", {})
  /\ UNCHANGED backup /\ Apart

\* The status of the row the round began with, whatever the row is by now.
Report ==
  /\ up /\ mirror.phase \in {"done", "failed"}
  /\ status' = IF mirror.phase = "failed" THEN "failed"
               ELSE IF mirror.final THEN "verified" ELSE "in_progress"
  /\ mirror' = NoRound
  /\ UNCHANGED <<timelineVars, mounted, backup>>

Unplug ==
  /\ mounted /\ mounted' = FALSE /\ Trouble
  /\ UNCHANGED <<time, live, up, row, task, filler, listed, media, durable, mirror, backup, status>>
Plug == ~mounted /\ mounted' = TRUE /\ UNCHANGED <<timelineVars, mirror, backup, status>>

MirrorSteps ==
  \/ BeginRound \/ ListFolders \/ ReadLedger \/ CopyFile \/ PublishLedger \/ LedgersRead \/ CopyOutput
  \/ PublishRow \/ RoundFails \/ Report \/ Unplug \/ Plug

----------------------------------------------------------------------------
\* Properties

\* What the backup lists, it has: its ledger and its row name only files whose
\* copies were verified, while the ledger grows and whatever ends a round
\* (mirror_committed, mirror_job).
MirrorBacked == backup.ledger \subseteq backup.files /\ backup.outputs \subseteq backup.results

=============================================================================
