------------------------------ MODULE Continuity ------------------------------
(***************************************************************************)
(* A live recording with its timeline, the recovery of its gaps and its    *)
(* backup: three tasks and a process, over the row and the ledger.         *)
(***************************************************************************)
EXTENDS BackupMirror

vars == <<timelineVars, backupVars>>

TypeOK == TimelineTypeOK /\ BackupTypeOK

Init == TimelineInit /\ BackupInit

Recording == TimelineSteps /\ UNCHANGED backupVars
\* The backup's process ends with the service.
Killed == Crash /\ mirror' = NoRound /\ UNCHANGED <<mounted, backup, status>>

Next == Recording \/ MirrorSteps \/ Killed

Spec == Init /\ [][Next]_vars

=============================================================================
