------------------------ MODULE CleanupPromise_proofs ------------------------
(***************************************************************************)
(* What TLAPS proves of the steps of the cleanup: it implements the        *)
(* abstract cleanup AtomicCleanup, and what no step of it ever does.       *)
(***************************************************************************)
EXTENDS CleanupFiles_proofs

----------------------------------------------------------------------------
\* The status of an entry that is in order.
LEMMA StatusFacts ==
  /\ \A f : \A entry : /\ StatusOf(f, entry).listed = entry.listed
                       /\ StatusOf(f, entry).stored <=> Stored(entry) \/ (entry.listed /\ f \in replaced)
  /\ \A entries : \A f \in File : Status(entries)[f] = StatusOf(f, entries[f])
BY DEF StatusOf, Status

LEMMA PersistsNothing ==
  ASSUME Status(disk)' = Status(disk)
  PROVE  Promise!Persist
<1>1. PICK D \in SUBSET Dir : D = {}
  OBVIOUS
<1>2. Status(disk)' = [f \in File |-> IF DirOf[f] \in D THEN Status(folder)'[f] ELSE Status(disk)[f]]
  BY <1>1 DEF Status
<1> QED BY <1>2 DEF Promise!Persist

LEMMA PersistsSynced ==
  ASSUME UNCHANGED replaced, NEW D \in SUBSET Dir, Sync(D)
  PROVE  Promise!Persist
<1>1. \A f \in File : StatusOf(f, disk[f])' =
                        IF DirOf[f] \in D THEN StatusOf(f, folder[f])' ELSE StatusOf(f, disk[f])
  BY DEF Sync, StatusOf
<1>2. Status(disk)' = [f \in File |-> IF DirOf[f] \in D THEN Status(folder)'[f] ELSE Status(disk)[f]]
  BY <1>1 DEF Status
<1> QED BY <1>2 DEF Promise!Persist

\* Steps that change no entry of a folder: a request goes on, the kernel writes.
LEMMA FolderStands ==
  ASSUME CleanupInv,
         \/ \E kind \in {"preview", "execute"} : Request(kind)
         \/ RecoverEnds \/ PreviewEnds \/ Verify \/ GivesUp
         \/ MoveFails \/ AllMoved \/ (\E f \in File : Checked(f))
         \/ AllPublished \/ LedgersRestored \/ RollbackEnds \/ AllRemoved \/ LastReceipt
         \/ Crash \/ BackupBegins \/ BackupEnds \/ Recover
         \/ (\E d \in Dir : Writeback(d)) \/ UNCHANGED vars
  PROVE  Promise!Next
<1>1. folder' = folder /\ Selected' = Selected /\ replaced' = replaced
  <2>1. folder' = folder /\ replaced' = replaced
    BY DEF Request, RecoverEnds, PreviewEnds, Verify, GivesUp, MoveFails, AllMoved, Checked,
      AllPublished, LedgersRestored, RollbackEnds, AllRemoved, LastReceipt, Crash,
      BackupBegins, BackupEnds, Recover, Writeback, vars, files
  <2>2. receipt' = receipt \/ receipt' = NewReceipt(Selected, TRUE)
    BY DEF Request, RecoverEnds, PreviewEnds, Verify, GivesUp, MoveFails, AllMoved, Checked,
      AllPublished, LedgersRestored, RollbackEnds, AllRemoved, LastReceipt, Crash,
      BackupBegins, BackupEnds, Recover, Writeback, vars, papers
  <2> QED BY <2>1, <2>2 DEF NewReceipt, Selected
<1>2. disk' = disk \/ \E D \in SUBSET Dir : Sync(D)
  <2>1. work.todo \subseteq Dir /\ Parents(Selected) \subseteq Dir
    BY ParentsTyped DEF CleanupInv, TypeOK, Work, Selected, Receipt
  <2> QED BY <2>1 DEF Request, RecoverEnds, PreviewEnds, Verify, GivesUp, MoveFails, AllMoved,
    Checked, AllPublished, LedgersRestored, RollbackEnds, AllRemoved, LastReceipt, Crash,
    BackupBegins, BackupEnds, Recover, Writeback, vars, files
<1>3. Status(folder)' = Status(folder)
  BY <1>1 DEF Status, StatusOf
<1>4. Promise!Persist
  <2>1. CASE disk' = disk
    <3>1. Status(disk)' = Status(disk)
      BY <1>1, <2>1 DEF Status, StatusOf
    <3> QED BY <3>1, PersistsNothing
  <2> QED BY <1>1, <1>2, <2>1, PersistsSynced
<1> QED BY <1>1, <1>3, <1>4 DEF Promise!Next

\* Steps on one entry that leave its ledger and its bytes as they are, or erase
\* what no ledger names.
LEMMA EntryErasedOrNot ==
  ASSUME CleanupInv, NEW f \in File, NEW entry, SetEntry(f, entry),
         UNCHANGED <<disk, receipt>>, Status(disk)' = Status(disk),
         \A g \in File : g # f => StatusOf(g, folder[g])' = StatusOf(g, folder[g]),
         \/ StatusOf(f, entry)' = StatusOf(f, folder[f])
         \/ /\ ~folder[f].listed
            /\ StatusOf(f, entry)' = Promise!Erased
  PROVE  Promise!Next
<1>1. Promise!Persist
  BY PersistsNothing
<1>2. Selected' = Selected
  BY DEF Selected
<1>3. folder'[f] = entry
  BY DEF SetEntry, CleanupInv, TypeOK
<1>4. StatusOf(f, folder[f])' = StatusOf(f, entry)'
  BY <1>3 DEF StatusOf
<1>5. CASE StatusOf(f, entry)' = StatusOf(f, folder[f])
  <2>1. Status(folder)' = Status(folder)
    BY <1>4, <1>5 DEF Status
  <2> QED BY <1>1, <1>2, <2>1 DEF Promise!Next
<1>6. CASE /\ ~folder[f].listed
           /\ StatusOf(f, entry)' = Promise!Erased
  <2>1. Status(folder)' = [Status(folder) EXCEPT ![f] = Promise!Erased]
    BY <1>4, <1>6 DEF Status
  <2>2. Promise!Erase(f)
    BY <1>2, <1>6, <2>1, StatusFacts DEF Promise!Erase
  <2> QED BY <1>1, <2>2 DEF Promise!Next
<1> QED BY <1>5, <1>6

\* Steps on one entry by the program.
LEMMA EntryStep ==
  ASSUME CleanupInv, NEW f \in File,
         RecoverFile(f) \/ Quarantine(f) \/ Mistaken(f) \/ RestoreFile(f) \/ Remove(f)
  PROVE  Promise!Next
<1>1. UNCHANGED <<disk, receipt, replaced>>
  BY DEF RecoverFile, Quarantine, Mistaken, RestoreFile, Remove, papers
<1>2. Status(disk)' = Status(disk)
  BY <1>1 DEF Status, StatusOf
<1>3. ASSUME NEW entry, SetEntry(f, entry), entry.listed = folder[f].listed,
             Stored(entry) = Stored(folder[f]) \/ (~folder[f].listed /\ ~Stored(entry))
      PROVE  Promise!Next
  <2>1. \A g \in File : g # f => StatusOf(g, folder[g])' = StatusOf(g, folder[g])
    BY <1>1, <1>3 DEF SetEntry, StatusOf, CleanupInv, TypeOK
  <2>2. CASE Stored(entry) = Stored(folder[f])
    <3>1. StatusOf(f, entry)' = StatusOf(f, folder[f])
      BY <1>1, <1>3, <2>2 DEF StatusOf, Stored
    <3> QED BY <1>1, <1>2, <1>3, <2>1, <3>1, EntryErasedOrNot
  <2>3. CASE ~folder[f].listed /\ ~Stored(entry)
    <3>1. StatusOf(f, entry)' = Promise!Erased
      BY <1>1, <1>3, <2>3, EntryFacts DEF StatusOf, Stored, Promise!Erased, Entry
    <3> QED BY <1>1, <1>2, <1>3, <2>1, <2>3, <3>1, EntryErasedOrNot
  <2> QED BY <1>3, <2>2, <2>3
<1>4. CASE UNCHANGED folder
  <2>1. Status(folder)' = Status(folder) /\ Selected' = Selected
    BY <1>1, <1>4 DEF Status, StatusOf, Selected
  <2> QED BY <1>2, <2>1, PersistsNothing DEF Promise!Next
<1>5. CASE RecoverFile(f)
  <2>1. PICK entry : entry = Recovered(folder[f])
    OBVIOUS
  <2>2. entry.listed = folder[f].listed /\ folder[f].aside = "segment"
    BY <1>5, <2>1, EntryFacts DEF RecoverFile, Recovered, Entry
  <2>3. Stored(entry) = Stored(folder[f]) \/ (~folder[f].listed /\ ~Stored(entry))
    BY <1>5, <2>1, <2>2, EntryFacts DEF Recovered, Entry, Stored
  <2> QED BY <1>3, <1>5, <2>1, <2>2, <2>3 DEF RecoverFile
<1>6. CASE Quarantine(f)
  <2>1. PICK entry : entry = [folder[f] EXCEPT !.name = "none", !.aside = folder[f].name]
    OBVIOUS
  <2>2. entry.listed = folder[f].listed /\ Stored(entry) = Stored(folder[f])
    BY <1>6, <2>1, EntryFacts DEF Quarantine, Entry, Stored
  <2> QED BY <1>3, <1>6, <2>1, <2>2 DEF Quarantine
<1>7. ASSUME NEW entry, entry = [folder[f] EXCEPT !.name = folder[f].aside, !.aside = "none"],
             SetEntry(f, entry), folder[f].aside # "none", folder[f].name = "segment" => folder[f].aside = "segment"
      PROVE  Promise!Next
  <2>1. entry.listed = folder[f].listed /\ Stored(entry) = Stored(folder[f])
    BY <1>7, EntryFacts DEF Entry, Stored
  <2> QED BY <1>3, <1>7, <2>1
<1>8. CASE Mistaken(f)
  BY <1>4, <1>7, <1>8, EntryFacts DEF Mistaken, EntryOK
<1>9. CASE RestoreFile(f)
  BY <1>4, <1>7, <1>9, EntryFacts DEF RestoreFile
<1>10. CASE Remove(f)
  <2>1. PICK entry : entry = [folder[f] EXCEPT !.aside = "none"]
    OBVIOUS
  <2>2. Off(folder[f])
    BY <1>10 DEF Remove, CleanupInv, WorkOK, Phase, OffForGood
  <2>3. entry.listed = folder[f].listed /\ ~folder[f].listed /\ ~Stored(entry)
    BY <1>10, <2>1, <2>2, EntryFacts DEF Remove, Entry, Stored, Off
  <2> QED BY <1>3, <1>4, <1>10, <2>1, <2>3 DEF Remove
<1> QED BY <1>5, <1>6, <1>8, <1>9, <1>10

\* The user replaces a file: the segment is lost to him alone while a ledger
\* names it, and erased when none does.
LEMMA ReplaceStep ==
  ASSUME CleanupInv, NEW f \in File, Replace(f)
  PROVE  Promise!Next
<1>1. PICK entry : entry = [folder[f] EXCEPT !.name = "other"]
  OBVIOUS
<1>2. SetEntry(f, entry) /\ UNCHANGED <<disk, receipt>> /\ replaced' = replaced \cup {f}
  BY <1>1 DEF Replace, papers
<1>3. \A g \in File : g # f => StatusOf(g, folder[g])' = StatusOf(g, folder[g])
  BY <1>2 DEF SetEntry, StatusOf, CleanupInv, TypeOK
<1>4. \A g \in File : StatusOf(g, disk[g])' = StatusOf(g, disk[g])
  BY <1>2 DEF StatusOf, CleanupInv, FilesOK, EntryOK, Stored
<1>5. Status(disk)' = Status(disk)
  BY <1>4 DEF Status
<1>6. entry.listed = folder[f].listed /\ entry.name = "other" /\ entry.aside = folder[f].aside
  BY <1>1, EntryFacts DEF Entry
<1>7. CASE folder[f].listed
  <2>1. StatusOf(f, entry)' = StatusOf(f, folder[f])
    BY <1>2, <1>6, <1>7, EntryFacts DEF StatusOf, EntryOK, Stored
  <2> QED BY <1>2, <1>3, <1>5, <2>1, EntryErasedOrNot
<1>8. CASE ~folder[f].listed /\ folder[f].aside = "segment"
  <2>1. StatusOf(f, entry)' = StatusOf(f, folder[f])
    BY <1>2, <1>6, <1>8 DEF StatusOf, Stored
  <2> QED BY <1>2, <1>3, <1>5, <2>1, EntryErasedOrNot
<1>9. CASE ~folder[f].listed /\ folder[f].aside # "segment"
  <2>1. StatusOf(f, entry)' = Promise!Erased
    BY <1>2, <1>6, <1>9, EntryFacts DEF StatusOf, Stored, Promise!Erased, Entry
  <2> QED BY <1>2, <1>3, <1>5, <1>9, <2>1, EntryErasedOrNot
<1> QED BY <1>7, <1>8, <1>9

\* An execution that begins asks for its segments.
LEMMA AskStep ==
  ASSUME CleanupInv, ExecuteBegins
  PROVE  Promise!Next
<1>1. PICK S \in (SUBSET Choosable) \ {{}} : FirstReceipt(S)
  BY DEF ExecuteBegins
<1>2. UNCHANGED <<folder, disk, replaced>> /\ Selected' = S
  BY <1>1 DEF ExecuteBegins, FirstReceipt, NewReceipt, Selected, files
<1>3. Status(folder)' = Status(folder) /\ Status(disk)' = Status(disk)
  BY <1>2 DEF Status, StatusOf
<1>4. S \in SUBSET File /\ \A f \in S : folder[f].listed
  BY DEF Choosable, Candidates
<1>5. \A f \in File : folder[f].aside = "none" /\ (folder[f].name = "segment" <=> folder[f].listed)
  BY DEF ExecuteBegins, CleanupInv, TypeOK, Entry, WorkOK, Tidy
<1>6. \A f \in File : Status(folder)[f].listed <=> Status(folder)[f].stored
  <2>1. \A f \in File : Stored(folder[f]) <=> folder[f].listed
    BY <1>5 DEF Stored
  <2>2. ASSUME NEW f \in File
        PROVE  Status(folder)[f].listed <=> Status(folder)[f].stored
    <3>1. Status(folder)[f] = StatusOf(f, folder[f])
      BY StatusFacts
    <3>2. /\ StatusOf(f, folder[f]).listed = folder[f].listed
          /\ StatusOf(f, folder[f]).stored <=>
               Stored(folder[f]) \/ (folder[f].listed /\ f \in replaced)
      BY StatusFacts
    <3> QED BY <2>1, <3>1, <3>2
  <2> QED BY <2>2
<1>7. \A f \in S : Status(folder)[f].listed
  BY <1>4, StatusFacts
<1>8. Promise!Ask(S)
  BY <1>1, <1>2, <1>3, <1>6, <1>7 DEF Promise!Ask
<1> QED BY <1>3, <1>4, <1>8, PersistsNothing DEF Promise!Next

\* A ledger is shortened while its requested segments are quarantined, and
\* restored while they still are.
LEMMA LedgerStatus ==
  ASSUME CleanupInv, NEW d \in Dir, NEW listed \in BOOLEAN,
         UNCHANGED <<receipt, replaced>>, \A f \in Selected : folder[f].aside = "segment",
         folder' = [f \in File |->
           IF f \in Selected \cap InDir(d) THEN [folder[f] EXCEPT !.listed = listed] ELSE folder[f]]
  PROVE  /\ Promise!List(d, listed) /\ Selected' = Selected
         /\ \A f \in Selected : Status(folder)[f].stored
<1>1. \A f \in File : folder[f] \in Entry
  BY DEF CleanupInv, TypeOK
<1>2. Selected' = Selected /\ Selected \subseteq File
  BY DEF Selected, CleanupInv, TypeOK, Receipt
<1>3. \A f \in Selected : Status(folder)[f].stored
  BY <1>2, StatusFacts DEF Stored
<1>4. ASSUME NEW f \in File, f \in Selected, DirOf[f] = d
      PROVE  StatusOf(f, folder[f])' = [StatusOf(f, folder[f]) EXCEPT !.listed = listed]
  BY <1>1, <1>4 DEF StatusOf, Stored, InDir, Entry
<1>5. ASSUME NEW f \in File, ~(f \in Selected /\ DirOf[f] = d)
      PROVE  StatusOf(f, folder[f])' = StatusOf(f, folder[f])
  BY <1>5 DEF StatusOf, InDir
<1>6. Status(folder)' = [f \in File |->
        IF f \in Selected /\ DirOf[f] = d THEN [Status(folder)[f] EXCEPT !.listed = listed]
        ELSE Status(folder)[f]]
  BY <1>4, <1>5 DEF Status
<1> QED BY <1>2, <1>3, <1>6 DEF Promise!List

LEMMA LedgerStep ==
  ASSUME CleanupInv, NEW d \in Dir, Publish(d) \/ RestoreLedger(d) \/ Snapshot(d)
  PROVE  Promise!Next
<1>1. UNCHANGED <<receipt, replaced>>
  BY DEF Publish, RestoreLedger, Snapshot, papers
<1>2. CASE Publish(d)
  <2>1. \A f \in Selected : folder[f].aside = "segment"
    BY <1>2 DEF Publish, CleanupInv, WorkOK, Phase
  <2>2. Promise!Commit(d)
    BY <1>1, <1>2, <2>1, LedgerStatus DEF Publish, Shortened, Promise!Commit
  <2>3. Promise!Persist
    BY <1>1, <1>2, PersistsSynced DEF Publish, Published
  <2> QED BY <2>2, <2>3 DEF Promise!Next
<1>3. CASE RestoreLedger(d) /\ folder' = Full(d) /\ (Sync({d}) \/ UNCHANGED disk)
  <2>1. \A f \in Selected : folder[f].aside = "segment"
    BY <1>3 DEF RestoreLedger, CleanupInv, WorkOK, Phase
  <2>2. Promise!Undo(d)
    BY <1>1, <1>3, <2>1, LedgerStatus DEF RestoreLedger, Full, Promise!Undo
  <2>3. CASE Sync({d})
    BY <1>1, <2>2, <2>3, PersistsSynced DEF Promise!Next
  <2>4. CASE UNCHANGED disk
    <3>1. Status(disk)' = Status(disk)
      BY <1>1, <2>4 DEF Status, StatusOf
    <3> QED BY <2>2, <3>1, PersistsNothing DEF Promise!Next
  <2> QED BY <1>3, <2>3, <2>4
<1>4. CASE UNCHANGED files
  <2>1. Status(folder)' = Status(folder) /\ Status(disk)' = Status(disk) /\ Selected' = Selected
    BY <1>1, <1>4 DEF Status, StatusOf, Selected, files
  <2> QED BY <2>1, PersistsNothing DEF Promise!Next
<1>5. CASE Snapshot(d)
  <2>1. \A f \in File : folder[f] \in Entry
    BY DEF CleanupInv, TypeOK
  <2>2. \A f \in File : StatusOf(f, folder[f])' = StatusOf(f, folder[f])
    BY <1>1, <1>5, <2>1 DEF Snapshot, StatusOf, Stored, Entry
  <2>3. Status(folder)' = Status(folder) /\ Selected' = Selected
    BY <1>1, <2>2 DEF Status, Selected
  <2>4. Promise!Persist
    BY <1>1, <1>5, PersistsSynced DEF Snapshot
  <2> QED BY <2>3, <2>4 DEF Promise!Next
<1> QED BY <1>2, <1>3, <1>4, <1>5 DEF RestoreLedger

LEMMA FailedLedgerStep ==
  ASSUME CleanupInv, PublishFails
  PROVE  Promise!Next
<1>1. UNCHANGED <<receipt, replaced, disk>> /\ work.todo \subseteq Dir
  BY DEF PublishFails, papers, CleanupInv, TypeOK, Work
<1>2. Promise!Persist
  <2>1. Status(disk)' = Status(disk)
    BY <1>1 DEF Status, StatusOf
  <2> QED BY <2>1, PersistsNothing
<1>3. CASE folder' = folder
  <2>1. Status(folder)' = Status(folder) /\ Selected' = Selected
    BY <1>1, <1>3 DEF Status, StatusOf, Selected
  <2> QED BY <1>2, <2>1 DEF Promise!Next
<1>4. ASSUME NEW d \in Dir, folder' = Shortened(d) PROVE Promise!Next
  <2>1. \A f \in Selected : folder[f].aside = "segment"
    BY DEF PublishFails, CleanupInv, WorkOK, Phase
  <2>2. Promise!Commit(d)
    BY <1>1, <1>4, <2>1, LedgerStatus DEF Shortened, Promise!Commit
  <2> QED BY <1>2, <2>2 DEF Promise!Next
<1> QED BY <1>1, <1>3, <1>4 DEF PublishFails

LEMMA PowerLossStep ==
  ASSUME PowerLoss
  PROVE  Promise!Next
<1>1. folder' = disk /\ UNCHANGED <<disk, receipt, replaced>>
  BY DEF PowerLoss, papers
<1>2. Status(folder)' = Status(disk) /\ Status(disk)' = Status(disk) /\ Selected' = Selected
  BY <1>1 DEF Status, StatusOf, Selected
<1> QED BY <1>2 DEF Promise!Next, Promise!PowerLoss

LEMMA PromisedStep ==
  ASSUME CleanupInv, [Next]_vars
  PROVE  Promise!Next
BY FolderStands, EntryStep, ReplaceStep, AskStep, LedgerStep, FailedLedgerStep, PowerLossStep
DEF Next, Moves, Publishes, Removes, Prepares, Environment

LEMMA PromisedInit == Init => Promise!Init
<1> SUFFICES ASSUME Init PROVE Promise!Init
  OBVIOUS
<1>1. \A f \in File : StatusOf(f, folder[f]) = [listed |-> TRUE, stored |-> TRUE]
  BY DEF Init, StatusOf, Committed, Stored
<1>2. Status(folder) = [f \in File |-> [listed |-> TRUE, stored |-> TRUE]] /\ disk = folder
  BY <1>1 DEF Status, Init
<1> QED BY <1>2 DEF Init, Promise!Init, Promise!Kept, Selected, NewReceipt

\* The cleanup implements the abstract one: folder by folder it removes what was
\* asked or nothing, and erases only what the ledgers have forgotten.
THEOREM CleanupPromised == Spec => Promised
<1>1. Init => Promise!Init
  BY PromisedInit
<1>2. CleanupInv /\ [Next]_vars => [Promise!Next]_(Promise!vars)
  BY PromisedStep
<1> QED BY <1>1, <1>2, CleanupInvariant, PTL DEF Spec, Promised, Promise!Spec

\* A file that is not the segment of the plan is never removed from quarantine.
THEOREM CleanupUnrelatedReturns == Spec => UnrelatedReturns
<1>1. ASSUME CleanupInv, [Next]_vars
      PROVE  [\A f \in File : folder[f].aside = "other" /\ folder'[f].aside = "none" =>
                folder'[f].name = "other" \/ (work' = Idle /\ folder' = disk)]_vars
  <2> SUFFICES ASSUME NEW f \in File, folder[f].aside = "other", folder'[f].aside = "none"
               PROVE  folder'[f].name = "other" \/ (work' = Idle /\ folder' = disk)
    OBVIOUS
  <2>1. folder \in [File -> Entry]
    BY <1>1 DEF CleanupInv, TypeOK
  <2>2. f \notin work.moved
    BY <1>1 DEF CleanupInv, WorkOK
  <2>3. folder' # folder
    OBVIOUS
  <2>4. CASE PowerLoss
    BY <2>4 DEF PowerLoss
  <2>5. ASSUME NEW g \in File,
               RecoverFile(g) \/ Quarantine(g) \/ Mistaken(g) \/ RestoreFile(g) \/ Remove(g) \/ Replace(g)
        PROVE  folder'[f].name = "other"
    <3>1. CASE g = f /\ Mistaken(g)
      BY <2>1, <3>1 DEF Mistaken, SetEntry, Entry
    <3>2. CASE g = f /\ (RecoverFile(g) \/ RestoreFile(g) \/ Remove(g))
      BY <2>1, <2>2, <3>2 DEF RecoverFile, RestoreFile, Remove
    <3>3. CASE g = f /\ (Quarantine(g) \/ Replace(g))
      BY <2>1, <3>3 DEF Quarantine, Replace, SetEntry, Entry
    <3>4. CASE g # f
      BY <2>1, <2>5, <3>4 DEF RecoverFile, Quarantine, Mistaken, RestoreFile, Remove, Replace, SetEntry
    <3> QED BY <2>5, <3>1, <3>2, <3>3, <3>4
  <2>6. ASSUME NEW d \in Dir,
               \/ folder' = Shortened(d) \/ folder' = Full(d)
               \/ Snapshot(d)
        PROVE  FALSE
    <3>1. CASE folder' = Shortened(d) \/ folder' = Full(d)
      BY <1>1, <3>1, LedgersOnly
    <3>2. CASE Snapshot(d)
      BY <2>1, <3>2 DEF Snapshot, Entry
    <3> QED BY <2>6, <3>1, <3>2
  <2>7. work.todo \subseteq Dir
    BY <1>1 DEF CleanupInv, TypeOK, Work
  <2> QED
    BY <1>1, <2>3, <2>4, <2>5, <2>6, <2>7 DEF Next, Moves, Publishes, Removes, Prepares, Environment,
      Request, RecoverEnds, PreviewEnds, ExecuteBegins, Verify, GivesUp, MoveFails, AllMoved, Checked,
      AllPublished, LedgersRestored, RollbackEnds, AllRemoved, LastReceipt, Crash, BackupBegins,
      BackupEnds, Recover, Writeback, Publish, PublishFails, RestoreLedger, vars, files
<1> QED BY <1>1, CleanupInvariant, PTL DEF Spec, UnrelatedReturns

\* While the backup holds the lock no cleanup moves a segment or a ledger.
THEOREM CleanupBackupUndisturbed == Spec => BackupUndisturbed
<1>1. ASSUME CleanupInv, [Next]_vars
      PROVE  [lock = "backup" /\ lock' = "backup" =>
                \A f \in File : folder'[f].aside = folder[f].aside /\ folder'[f].listed = folder[f].listed]_vars
  <2> SUFFICES ASSUME lock = "backup", lock' = "backup", NEW f \in File
               PROVE  folder'[f].aside = folder[f].aside /\ folder'[f].listed = folder[f].listed
    OBVIOUS
  <2>1. Phase("idle") /\ folder \in [File -> Entry]
    BY <1>1 DEF CleanupInv, WorkOK, TypeOK
  <2>2. ASSUME NEW g \in File, Replace(g)
        PROVE  folder'[f].aside = folder[f].aside /\ folder'[f].listed = folder[f].listed
    BY <2>1, <2>2 DEF Replace, SetEntry, Entry
  <2>3. folder' = folder \/ \E g \in File : Replace(g)
    BY <1>1, <2>1 DEF Next, Moves, Publishes, Removes, Prepares, Environment, Phase, Request,
      RecoverFile, RecoverEnds, PreviewEnds, ExecuteBegins, Snapshot, Verify, GivesUp, Quarantine,
      Checked, Mistaken, MoveFails, AllMoved, Publish, PublishFails, AllPublished, RestoreLedger,
      LedgersRestored, RestoreFile, RollbackEnds, Remove, AllRemoved, LastReceipt, Crash, PowerLoss,
      BackupBegins, BackupEnds, Recover, Writeback, vars, files
  <2> QED BY <2>2, <2>3
<1> QED BY <1>1, CleanupInvariant, PTL DEF Spec, BackupUndisturbed

\* Only a loss of power brings a quarantined file back that the receipt of its
\* plan lists no more.
THEOREM CleanupQuarantineNamed == Spec => QuarantineNamed
<1>1. ASSUME CleanupInv, [Next]_vars
      PROVE  [\A f \in File : folder'[f].aside # "none" /\ f \notin audit' =>
                (folder[f].aside # "none" /\ f \notin audit) \/ (work' = Idle /\ folder' = disk)]_vars
  <2> SUFFICES ASSUME NEW f \in File, folder'[f].aside # "none", f \notin audit'
               PROVE  \/ folder[f].aside # "none" /\ f \notin audit
                      \/ work' = Idle /\ folder' = disk
    OBVIOUS
  <2>1. folder \in [File -> Entry] /\ work.todo \subseteq Dir
    BY <1>1 DEF CleanupInv, TypeOK, Work
  <2>2. CASE PowerLoss
    BY <2>2 DEF PowerLoss
  <2>3. CASE ExecuteBegins
    <3>1. folder'[f].aside = "none"
      BY <1>1, <2>3 DEF ExecuteBegins, CleanupInv, WorkOK, files
    <3> QED BY <3>1
  <2>4. ASSUME NEW g \in File, Quarantine(g)
        PROVE  folder[f].aside # "none" /\ f \notin audit
    BY <2>1, <2>4 DEF Quarantine, SetEntry, Listed
  <2>5. CASE ~PowerLoss /\ ~ExecuteBegins /\ ~(\E g \in File : Quarantine(g))
    <3>1. audit' = audit
      BY <1>1, <2>5 DEF Next, Moves, Publishes, Removes, Prepares, Environment, Request,
        RecoverFile, RecoverEnds, PreviewEnds, Snapshot, Verify, GivesUp, Checked, Mistaken,
        MoveFails, AllMoved, Publish, PublishFails, AllPublished, RestoreLedger, LedgersRestored,
        RestoreFile, RollbackEnds, Remove, AllRemoved, LastReceipt, Crash, BackupBegins,
        BackupEnds, Recover, Writeback, Replace, vars, papers
    <3>2. ASSUME NEW g \in File,
                 RecoverFile(g) \/ Mistaken(g) \/ RestoreFile(g) \/ Remove(g) \/ Replace(g)
          PROVE  folder[f].aside # "none"
      <4>1. CASE g # f
        BY <2>1, <3>2, <4>1 DEF RecoverFile, Mistaken, RestoreFile, Remove, Replace, SetEntry
      <4>2. CASE g = f /\ (RecoverFile(g) \/ Mistaken(g))
        BY <4>2 DEF RecoverFile, Mistaken
      <4>3. CASE g = f /\ (RestoreFile(g) \/ Remove(g))
        BY <1>1, <4>3, EntryFacts DEF RestoreFile, Remove
      <4>4. CASE g = f /\ Replace(g)
        <5>1. folder'[f] = [folder[f] EXCEPT !.name = "other"]
          BY <2>1, <4>4 DEF Replace, SetEntry
        <5> QED BY <2>1, <5>1 DEF Entry
      <4> QED BY <3>2, <4>1, <4>2, <4>3, <4>4
    <3>3. ASSUME NEW d \in Dir, folder' = Shortened(d) \/ folder' = Full(d) \/ Snapshot(d)
          PROVE  folder[f].aside # "none"
      <4>1. CASE folder' = Shortened(d) \/ folder' = Full(d)
        BY <1>1, <4>1, LedgersOnly
      <4>2. CASE Snapshot(d)
        <5>1. PICK b \in BOOLEAN : folder'[f] = folder[f] \/ folder'[f] = [folder[f] EXCEPT !.saved = b]
          BY <4>2 DEF Snapshot
        <5> QED BY <2>1, <5>1 DEF Entry
      <4> QED BY <3>3, <4>1, <4>2
    <3>4. folder[f].aside # "none"
      BY <1>1, <2>1, <2>5, <3>2, <3>3 DEF Next, Moves, Publishes, Removes, Prepares, Environment,
        Request, RecoverEnds, PreviewEnds, Verify, GivesUp, MoveFails, AllMoved, Checked,
        AllPublished, LedgersRestored, RollbackEnds, AllRemoved, LastReceipt, Crash, BackupBegins,
        BackupEnds, Recover, Writeback, Publish, PublishFails, RestoreLedger, vars, files
    <3> QED BY <3>1, <3>4
  <2> QED BY <2>2, <2>3, <2>4, <2>5
<1> QED BY <1>1, CleanupInvariant, PTL DEF Spec, QuarantineNamed

=============================================================================
