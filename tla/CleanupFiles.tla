---------------------------- MODULE CleanupFiles ----------------------------
(***************************************************************************)
(* The cleanup of a recording's segments: the file operations of           *)
(* recover_quarantined, preview and execute with a crash of the process    *)
(* between any two of them or a loss of power, the lock shared with the    *)
(* backup process, a user who replaces files, and the repair of a recorded *)
(* job as far as it decides whether cleanups stay possible.                *)
(*                                                                         *)
(* One job. The service runs one request on it at a time: the reservation  *)
(* of module JobLifecycle. The file system persists the changes of a       *)
(* folder in their order (a metadata journal), those of two folders in     *)
(* any order; sync_dir persists what was done to a folder so far.          *)
(***************************************************************************)
CONSTANTS
  File,         \* committed segments of the job
  Dir,          \* its attempt folders, each with a ledger
  DirOf,        \* the folder of each segment
  Replaceable   \* bound: sets of files that the user may replace behind the program

ASSUME DirAssumption == DirOf \in [File -> Dir]
ASSUME ReplacedAssumption == Replaceable \subseteq SUBSET File

VARIABLES
  folder,    \* each segment: what stands under its two names, is it in the ledger
  disk,      \* the same, as a loss of power would leave it
  plan,      \* cleanup-plan.json: the segments of the last preview
  receipt,   \* the receipt of the last request, a file
  ours,      \* the segments that were quarantined under this plan
  audit,     \* those whose quarantine name a receipt of its plan still lists
  work,      \* the request being served
  lock,      \* who holds backup.lock
  row,       \* the job's row: does it permit a cleanup
  replaced   \* history: the segments replaced by the user

files == <<folder, disk>>
papers == <<plan, receipt, ours, audit>>
vars == <<files, papers, work, lock, row, replaced>>

----------------------------------------------------------------------------
Contents == {"none", "segment", "other"}
\* `name` and `aside` are the contents under the committed name and under the
\* name .cleanup-PLAN-NAME.pending; `saved`: a ledger-before-cleanup names it.
Entry == [name : Contents, aside : Contents, listed : BOOLEAN, saved : BOOLEAN]
Committed == [name |-> "segment", aside |-> "none", listed |-> TRUE, saved |-> FALSE]

Receipt == [selected : SUBSET File, committed : BOOLEAN]
NewReceipt(S, committed) == [selected |-> S, committed |-> committed]

Phases ==
  {"idle", "recover", "prepare", "snapshot", "move", "check", "publish", "remove",
   "receipt", "restore", "rollback"}
Work == [phase : Phases, kind : {"preview", "execute"}, moved : SUBSET File, todo : SUBSET Dir]
Idle == [phase |-> "idle", kind |-> "preview", moved |-> {}, todo |-> {}]

Selected == receipt.selected
InDir(d) == {f \in File : DirOf[f] = d}
\* A defect: a path stands for its folder.
ParentsOmitted(S) == S
Parents(S) == {DirOf[f] : f \in S}

Phase(p) == work.phase = p
Go(p) == work' = [work EXCEPT !.phase = p]
GoWith(p, moved, todo) == work' = [work EXCEPT !.phase = p, !.moved = moved, !.todo = todo]
Leave == work' = Idle /\ lock' = "free"

\* sync_dir of some folders, after the change that the step makes.
Sync(D) == disk' = [f \in File |-> IF DirOf[f] \in D THEN folder'[f] ELSE disk[f]]
SetEntry(f, entry) == folder' = [folder EXCEPT ![f] = entry]

Init ==
  /\ folder = [f \in File |-> Committed] /\ disk = folder
  /\ plan = {} /\ receipt = NewReceipt({}, FALSE) /\ ours = {} /\ audit = {}
  /\ work = Idle /\ lock = "free" /\ row = "settled" /\ replaced = {}

----------------------------------------------------------------------------
\* preview and execute: eligible, lock_backup, recover_quarantined.

\* `settled` also says: with results and without a gap.
Eligible == row = "settled"

Request(kind) ==
  /\ Phase("idle") /\ Eligible /\ lock = "free"
  /\ lock' = "cleanup"
  /\ work' = [Idle EXCEPT !.phase = "recover", !.kind = kind]
  /\ UNCHANGED <<files, papers, row, replaced>>

\* A quarantined segment goes back to its name when the ledger still names it.
\* Two defects: it is always taken for a leftover; it always goes back.
RecoveredAlwaysRemoved(entry) == [entry EXCEPT !.aside = "none"]
RecoveredAlwaysBack(entry) == [entry EXCEPT !.name = entry.aside, !.aside = "none"]
Recovered(entry) ==
  IF entry.listed THEN [entry EXCEPT !.name = entry.aside, !.aside = "none"]
  ELSE [entry EXCEPT !.aside = "none"]

RecoverFile(f) ==
  /\ Phase("recover") /\ folder[f].aside = "segment" /\ f \in audit
  /\ folder[f].listed => folder[f].name = "none"
  /\ SetEntry(f, Recovered(folder[f]))
  /\ work' = [work EXCEPT !.todo = @ \cup {DirOf[f]}]
  /\ UNCHANGED <<disk, papers, lock, row, replaced>>

RecoverEnds ==
  /\ Phase("recover") /\ \A f \in File : folder[f].aside = "none"
  /\ UNCHANGED folder /\ Sync(work.todo)
  /\ GoWith("prepare", {}, {})
  /\ UNCHANGED <<papers, lock, row, replaced>>

\* What prepare requires of the ledgers and the segments; `files` of the plan
\* are then the segments that the ledgers name. The results are not modelled.
Tidy == \A f \in File : folder[f].name = IF folder[f].listed THEN "segment" ELSE "none"
Candidates == {f \in File : folder[f].listed}

PreviewEnds ==
  /\ Phase("prepare") /\ work.kind = "preview" /\ Tidy
  /\ plan' = Candidates /\ ours' = {}
  /\ Leave
  /\ UNCHANGED <<files, receipt, audit, row, replaced>>

Choosable == IF plan = Candidates THEN plan ELSE {}

\* The receipt of a plan that is executed again replaces the one before.
FirstReceipt(S) == audit' = audit \ (ours \ S) /\ receipt' = NewReceipt(S, FALSE)

\* The lock moves into the blocking task. A defect: it is dropped there.
LockDropped == "free"
LockKept == lock

ExecuteBegins ==
  /\ Phase("prepare") /\ work.kind = "execute" /\ Tidy
  /\ \E S \in (SUBSET Choosable) \ {{}} :
       /\ FirstReceipt(S)
       /\ GoWith("snapshot", {}, Parents(S))
  /\ lock' = LockKept
  /\ UNCHANGED <<files, plan, ours, row, replaced>>

\* The whole ledger of a folder is copied. A defect: what is kept of it.
SavedKept(f) == f \notin Selected
Saved(f) == TRUE

Snapshot(d) ==
  /\ Phase("snapshot") /\ d \in work.todo
  /\ folder' = [f \in File |->
       IF DirOf[f] = d /\ folder[f].listed
       THEN [folder[f] EXCEPT !.saved = @ \/ Saved(f)] ELSE folder[f]]
  /\ Sync({d})
  /\ GoWith("snapshot", {}, work.todo \ {d})
  /\ UNCHANGED <<papers, lock, row, replaced>>

Verify ==
  /\ Phase("snapshot") /\ work.todo = {}
  /\ \A f \in Selected : folder[f].name = "segment"
  /\ Go("move")
  /\ UNCHANGED <<files, papers, lock, row, replaced>>

\* Every `?` before the first rename. A preview or an execution that is refused
\* has recovered what was quarantined.
GivesUp ==
  /\ work.phase \in {"recover", "prepare", "snapshot"}
  /\ Leave
  /\ UNCHANGED <<files, papers, row, replaced>>

----------------------------------------------------------------------------
\* execute: the segments are quarantined one by one.

Unmoved == Selected \ work.moved

\* The receipt is written before any file is touched. A defect: at the end.
ReceiptAtTheEnd(f) == {}
Listed(f) == {f}

Quarantine(f) ==
  /\ Phase("move") /\ f \in Unmoved
  /\ folder[f].name # "none" /\ folder[f].aside = "none"
  /\ SetEntry(f, [folder[f] EXCEPT !.name = "none", !.aside = folder[f].name])
  /\ ours' = ours \cup {f} /\ audit' = audit \cup Listed(f)
  /\ Go("check")
  /\ UNCHANGED <<disk, plan, receipt, lock, row, replaced>>

\* A defect: the quarantined file is not hashed again.
IntactUnchecked(entry) == TRUE
Intact(entry) == entry.aside = "segment"

Checked(f) ==
  /\ Phase("check") /\ f \in Unmoved /\ folder[f].aside # "none" /\ Intact(folder[f])
  /\ GoWith("move", work.moved \cup {f}, {})
  /\ UNCHANGED <<files, papers, lock, row, replaced>>

\* The file that was renamed is another one; it gets its name back, if it can.
Mistaken(f) ==
  /\ Phase("check") /\ f \in Unmoved /\ folder[f].aside # "none" /\ ~Intact(folder[f])
  /\ \/ SetEntry(f, [folder[f] EXCEPT !.name = folder[f].aside, !.aside = "none"])
     \/ UNCHANGED folder
  /\ Go("rollback")
  /\ UNCHANGED <<disk, papers, lock, row, replaced>>

\* A refused path, a failed rename or hash: the file at hand stays where it is.
MoveFails ==
  /\ work.phase \in {"move", "check"} /\ Unmoved # {}
  /\ Go("rollback")
  /\ UNCHANGED <<files, papers, lock, row, replaced>>

AllMoved ==
  /\ Phase("move") /\ Unmoved = {}
  /\ GoWith("publish", work.moved, Parents(Selected))
  /\ UNCHANGED <<files, papers, lock, row, replaced>>

----------------------------------------------------------------------------
\* execute: the shortened ledgers.

\* A defect: nothing of the ledger is kept.
ShortenedToNothing(d) ==
  [f \in File |-> IF f \in InDir(d) THEN [folder[f] EXCEPT !.listed = FALSE] ELSE folder[f]]
Shortened(d) ==
  [f \in File |-> IF f \in Selected \cap InDir(d) THEN [folder[f] EXCEPT !.listed = FALSE]
                  ELSE folder[f]]
Full(d) ==
  [f \in File |-> IF f \in Selected \cap InDir(d) THEN [folder[f] EXCEPT !.listed = TRUE]
                  ELSE folder[f]]

\* atomic_write syncs the folder. A defect: it does not, nor does the later step.
PublishedUnsynced(d) == UNCHANGED disk
Published(d) == Sync({d})

Publish(d) ==
  /\ Phase("publish") /\ d \in work.todo
  /\ folder' = Shortened(d) /\ Published(d)
  /\ GoWith("publish", work.moved, work.todo \ {d})
  /\ UNCHANGED <<papers, lock, row, replaced>>

\* atomic_write failed, before or after its rename, or a last sync_dir did.
PublishFails ==
  /\ Phase("publish")
  /\ folder' = folder \/ \E d \in work.todo : folder' = Shortened(d)
  /\ GoWith("restore", work.moved, Parents(Selected))
  /\ UNCHANGED <<disk, papers, lock, row, replaced>>

AllPublished ==
  /\ Phase("publish") /\ work.todo = {}
  /\ Go("remove")
  /\ UNCHANGED <<files, papers, lock, row, replaced>>

\* Errors are ignored here: the ledger may stay short, or be whole but not synced.
RestoreLedger(d) ==
  /\ Phase("restore") /\ d \in work.todo
  /\ \/ folder' = Full(d) /\ Sync({d})
     \/ folder' = Full(d) /\ UNCHANGED disk
     \/ UNCHANGED files
  /\ GoWith("restore", work.moved, work.todo \ {d})
  /\ UNCHANGED <<papers, lock, row, replaced>>

LedgersRestored ==
  /\ Phase("restore") /\ work.todo = {}
  /\ Go("rollback")
  /\ UNCHANGED <<files, papers, lock, row, replaced>>

\* So are they here: the segment may stay quarantined.
RestoreFile(f) ==
  /\ Phase("rollback") /\ f \in work.moved
  /\ \/ SetEntry(f, [folder[f] EXCEPT !.name = folder[f].aside, !.aside = "none"])
     \/ UNCHANGED folder
  /\ GoWith("rollback", work.moved \ {f}, {})
  /\ UNCHANGED <<disk, papers, lock, row, replaced>>

RollbackEnds ==
  /\ Phase("rollback") /\ work.moved = {}
  /\ Leave
  /\ UNCHANGED <<files, papers, row, replaced>>

----------------------------------------------------------------------------
\* execute: the quarantined segments are removed, and the last receipt.

Remove(f) ==
  /\ Phase("remove") /\ f \in work.moved
  /\ SetEntry(f, [folder[f] EXCEPT !.aside = "none"]) \/ UNCHANGED folder
  /\ GoWith("remove", work.moved \ {f}, {})
  /\ UNCHANGED <<disk, papers, lock, row, replaced>>

AllRemoved ==
  /\ Phase("remove") /\ work.moved = {}
  /\ UNCHANGED folder /\ \E D \in SUBSET Parents(Selected) : Sync(D)
  /\ Go("receipt")
  /\ UNCHANGED <<papers, lock, row, replaced>>

Pending == {f \in Selected : folder[f].aside # "none"}

LastReceipt ==
  /\ Phase("receipt")
  /\ \/ /\ receipt' = NewReceipt(Selected, TRUE)
        /\ plan' = plan \/ (Pending = {} /\ plan' = {})
     \/ UNCHANGED <<receipt, plan>>
  /\ Leave
  /\ UNCHANGED <<files, ours, audit, row, replaced>>

----------------------------------------------------------------------------
\* Around the cleanup.

Died == work' = Idle /\ lock' = IF lock = "cleanup" THEN "free" ELSE lock

Crash ==
  /\ ~Phase("idle")
  /\ Died
  /\ UNCHANGED <<files, papers, row, replaced>>

\* The kernel writes a folder back when it likes to.
Writeback(d) ==
  /\ UNCHANGED folder /\ Sync({d})
  /\ UNCHANGED <<papers, work, lock, row, replaced>>

PowerLoss ==
  /\ folder' = disk /\ UNCHANGED disk
  /\ work' = Idle /\ lock' = "free"
  /\ UNCHANGED <<papers, row, replaced>>

\* mirror_job in the backup process. It fails when the lock is taken.
BackupBegins ==
  /\ lock = "free"
  /\ lock' = "backup"
  /\ UNCHANGED <<files, papers, work, row, replaced>>

BackupEnds ==
  /\ lock = "backup"
  /\ lock' = "free"
  /\ UNCHANGED <<files, papers, work, row, replaced>>

\* POST /jobs/:id/recover: finish makes the job partial, or stopped when a stop
\* comes meanwhile. A committed segment that is missing makes it uncertain.
Recover ==
  /\ Phase("idle")
  /\ IF row = "uncertain" \/ \E f \in File : folder[f].listed /\ folder[f].name # "segment"
     THEN row' = "uncertain"
     ELSE row' \in {"partial", "settled"}
  /\ UNCHANGED <<files, papers, work, lock, replaced>>

Replace(f) ==
  /\ replaced \cup {f} \in Replaceable
  /\ SetEntry(f, [folder[f] EXCEPT !.name = "other"])
  /\ replaced' = replaced \cup {f}
  /\ UNCHANGED <<disk, papers, work, lock, row>>

----------------------------------------------------------------------------
Moves ==
  \/ \E f \in File : Quarantine(f) \/ Checked(f) \/ Mistaken(f)
  \/ MoveFails \/ AllMoved

Publishes ==
  \/ \E d \in Dir : Publish(d) \/ RestoreLedger(d)
  \/ PublishFails \/ AllPublished \/ LedgersRestored
  \/ \E f \in File : RestoreFile(f)
  \/ RollbackEnds

Removes == (\E f \in File : Remove(f)) \/ AllRemoved \/ LastReceipt

Prepares ==
  \/ \E kind \in {"preview", "execute"} : Request(kind)
  \/ \E f \in File : RecoverFile(f)
  \/ RecoverEnds \/ PreviewEnds \/ ExecuteBegins
  \/ \E d \in Dir : Snapshot(d)
  \/ Verify \/ GivesUp

Environment ==
  \/ Crash \/ PowerLoss \/ BackupBegins \/ BackupEnds \/ Recover
  \/ \E d \in Dir : Writeback(d)
  \/ \E f \in File : Replace(f)

Next == Prepares \/ Moves \/ Publishes \/ Removes \/ Environment

Spec == Init /\ [][Next]_vars

----------------------------------------------------------------------------
TypeOK ==
  /\ folder \in [File -> Entry] /\ disk \in [File -> Entry]
  /\ plan \in SUBSET File /\ receipt \in Receipt
  /\ ours \in SUBSET File /\ audit \in SUBSET File
  /\ work \in Work /\ lock \in {"free", "cleanup", "backup"}
  /\ row \in {"settled", "partial", "uncertain"} /\ replaced \in SUBSET File

Stored(entry) == entry.name = "segment" \/ entry.aside = "segment"

\* A segment that a ledger names is there, under its own name or quarantined,
\* after a crash and after a loss of power at any moment; but for what the user
\* replaced himself.
LedgerBacked ==
  \A f \in File \ replaced : /\ folder[f].listed => Stored(folder[f])
                             /\ disk[f].listed => Stored(disk[f])

\* A segment that has left the ledger, or its name, is named by a ledger
\* snapshot that is retained ("original ledger snapshots are retained").
SnapshotCovers ==
  \A f \in File \ replaced :
    ~folder[f].listed \/ folder[f].name # "segment" => folder[f].saved

\* A receipt that says "committed" is true whatever happens later, a loss of
\* power included: its segments are in no ledger and under no name.
ReceiptTrue ==
  \A f \in Selected :
    receipt.committed => ~folder[f].listed /\ folder[f].name # "segment"

\* A file that is not the segment of the plan is never removed from quarantine:
\* it returns to its name ("prevents a later pathname recheck from deleting an
\* unrelated replacement").
UnrelatedReturns ==
  [][\A f \in File : folder[f].aside = "other" /\ folder'[f].aside = "none" =>
       folder'[f].name = "other" \/ (work' = Idle /\ folder' = disk)]_vars

\* Recovery can tell every quarantined file by a receipt; only a loss of power
\* may bring one back that the receipt of its plan lists no more.
QuarantineNamed ==
  [][\A f \in File : folder'[f].aside # "none" /\ f \notin audit' =>
       (folder[f].aside # "none" /\ f \notin audit) \/ (work' = Idle /\ folder' = disk)]_vars

\* While the backup holds the lock no cleanup moves a segment or a ledger.
BackupUndisturbed ==
  [][lock = "backup" /\ lock' = "backup" =>
       \A f \in File : folder'[f].aside = folder[f].aside /\ folder'[f].listed = folder[f].listed]_vars

\* The abstract cleanup. What the user replaced counts as stored while the
\* ledger names it.
StatusOf(f, entry) ==
  [listed |-> entry.listed, stored |-> Stored(entry) \/ (entry.listed /\ f \in replaced)]

Status(entries) == [f \in File |-> StatusOf(f, entries[f])]

Promise == INSTANCE AtomicCleanup WITH
  now <- Status(folder), disk <- Status(disk), asked <- Selected

\* The cleanup keeps its promise: by folder it removes what was asked or nothing,
\* and erases only what the ledgers have forgotten, whatever fails.
Promised == Promise!Spec

\* README: "If cleanup is interrupted, remaining files stay on disk and a new
\* preview can be generated": what was quarantined can be put back.
InterruptedCanResume ==
  Phase("idle") /\ (\E f \in File : folder[f].aside = "segment" /\ folder[f].listed) => Eligible

=============================================================================
