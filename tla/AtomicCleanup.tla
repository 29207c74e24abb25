---------------------------- MODULE AtomicCleanup ----------------------------
(***************************************************************************)
(* What a cleanup promises about the segments of a recording. A segment    *)
(* leaves its folder's ledger only on a request, together with all the     *)
(* requested ones of that folder, and loses its bytes only after that; a   *)
(* request begins only when what earlier ones took off the ledgers is      *)
(* erased. A loss of power takes each folder back to a moment in its past. *)
(***************************************************************************)
CONSTANTS File, Dir, DirOf

VARIABLES
  now,   \* of each segment: does its ledger name it, are its bytes there
  disk,  \* what a loss of power would leave of that
  asked  \* the segments of the latest request

vars == <<now, disk, asked>>

Status == [listed : BOOLEAN, stored : BOOLEAN]
Kept == [listed |-> TRUE, stored |-> TRUE]
Erased == [listed |-> FALSE, stored |-> FALSE]

Init == now = [f \in File |-> Kept] /\ disk = now /\ asked = {}

Ask(S) ==
  /\ asked' = S /\ S # {} /\ \A f \in S : now[f].listed
  /\ \A f \in File : now[f].listed <=> now[f].stored
  /\ UNCHANGED now

List(d, listed) ==
  now' = [f \in File |-> IF f \in asked /\ DirOf[f] = d
                         THEN [now[f] EXCEPT !.listed = listed] ELSE now[f]]

\* The requested segments leave the ledger of a folder ...
Commit(d) == UNCHANGED asked /\ List(d, FALSE)

\* ... and come back when the cleanup is given up.
Undo(d) ==
  /\ UNCHANGED asked
  /\ \A f \in asked : DirOf[f] = d => now[f].stored
  /\ List(d, TRUE)

Erase(f) ==
  /\ ~now[f].listed /\ UNCHANGED asked
  /\ now' = [now EXCEPT ![f] = Erased]

\* Folders reach the disk at any time, whole.
Persist ==
  \E D \in SUBSET Dir : disk' = [f \in File |-> IF DirOf[f] \in D THEN now'[f] ELSE disk[f]]

PowerLoss == now' = disk /\ UNCHANGED <<disk, asked>>

Next ==
  \/ /\ \/ UNCHANGED <<now, asked>>
        \/ \E S \in SUBSET File : Ask(S)
        \/ \E d \in Dir : Commit(d) \/ Undo(d)
        \/ \E f \in File : Erase(f)
     /\ Persist
  \/ PowerLoss

Spec == Init /\ [][Next]_vars

=============================================================================
