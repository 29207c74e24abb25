------------------------ MODULE CleanupFiles_proofs ------------------------
(***************************************************************************)
(* What TLAPS proves of the cleanup for any number of segments and         *)
(* folders, failures, crashes and losses of power.                         *)
(***************************************************************************)
EXTENDS CleanupFiles, TLAPS

----------------------------------------------------------------------------
\* The strengthening. What is true of an entry of a folder at any time, so that
\* a loss of power, which brings back older entries, keeps it.
EntryOK(f, entry) ==
  /\ f \notin replaced =>
       /\ entry.listed => Stored(entry)
       /\ entry.name # "other" /\ entry.aside # "other"
       /\ ~entry.listed \/ entry.name # "segment" => entry.saved
  /\ entry.aside # "none" => entry.name # "segment"

FilesOK == \A f \in File : EntryOK(f, folder[f]) /\ EntryOK(f, disk[f])

\* A segment that is off its ledger and its name for good.
Off(entry) == ~entry.listed /\ entry.name # "segment"
OffForGood(f) == Off(folder[f]) /\ Off(disk[f])

\* What the phase of the request says of the files. The quarantined segments in
\* hand are under their second name until the phase that moves them on.
WorkOK ==
  /\ ~Phase("idle") => lock = "cleanup"
  /\ work.moved \subseteq Selected
  /\ \A f \in work.moved : folder[f].aside = "segment"
  /\ work.phase \in {"idle", "recover", "prepare", "snapshot"} => work.moved = {}
  /\ Phase("prepare") => \A f \in File : folder[f].aside = "none"
  /\ Phase("snapshot") =>
       \A f \in Selected : folder[f].listed /\ (DirOf[f] \notin work.todo => folder[f].saved)
  /\ ~(work.phase \in {"idle", "recover", "prepare", "snapshot"}) =>
       \A f \in Selected : folder[f].saved
  /\ work.phase \in {"publish", "restore"} => work.moved = Selected
  /\ Phase("publish") => \A f \in Selected : DirOf[f] \notin work.todo => OffForGood(f)
  /\ work.phase \in {"remove", "receipt"} => \A f \in Selected : OffForGood(f)
  /\ receipt.committed =>
       /\ work.phase \in {"idle", "recover", "prepare"}
       /\ \A f \in Selected : OffForGood(f)

CleanupInv == TypeOK /\ FilesOK /\ WorkOK

----------------------------------------------------------------------------
LEMMA ParentsTyped == \A S \in SUBSET File : Parents(S) \subseteq Dir
BY DirAssumption DEF Parents

LEMMA EntryTyped ==
  ASSUME TypeOK, NEW f \in File
  PROVE  /\ [folder[f] EXCEPT !.name = folder[f].aside, !.aside = "none"] \in Entry
         /\ [folder[f] EXCEPT !.name = "none", !.aside = folder[f].name] \in Entry
         /\ [folder[f] EXCEPT !.aside = "none"] \in Entry
         /\ [folder[f] EXCEPT !.name = "other"] \in Entry
<1>1. folder[f] \in Entry
  BY DEF TypeOK
<1> QED BY <1>1 DEF Entry, Contents

LEMMA FolderTyped ==
  ASSUME TypeOK, NEW f \in File, NEW entry \in Entry, SetEntry(f, entry)
  PROVE  folder' \in [File -> Entry]
BY DEF TypeOK, SetEntry

LEMMA SyncTyped ==
  ASSUME TypeOK, folder' \in [File -> Entry], NEW D, Sync(D)
  PROVE  disk' \in [File -> Entry]
BY DEF TypeOK, Sync

LEMMA WorkTyped ==
  ASSUME TypeOK, NEW p \in Phases, NEW M \in SUBSET File, NEW T \in SUBSET Dir
  PROVE  /\ GoWith(p, M, T) => work' \in Work
         /\ Go(p) => work' \in Work
<1>1. work \in Work
  BY DEF TypeOK
<1>2. [work EXCEPT !.phase = p, !.moved = M, !.todo = T] \in Work
  BY <1>1 DEF Work
<1>3. [work EXCEPT !.phase = p] \in Work
  BY <1>1 DEF Work
<1> QED BY <1>2, <1>3 DEF GoWith, Go

LEMMA IdleTyped == Idle \in Work
BY DEF Idle, Work, Phases

LEMMA TypeKept ==
  ASSUME TypeOK, [Next]_vars
  PROVE  TypeOK'
<1> USE DEF TypeOK
<1>1. ASSUME NEW kind \in {"preview", "execute"}, Request(kind) PROVE TypeOK'
  <2>1. [Idle EXCEPT !.phase = "recover", !.kind = kind] \in Work
    BY <1>1, IdleTyped DEF Work, Phases
  <2> QED BY <1>1, <2>1 DEF Request, files, papers
<1>2. ASSUME NEW f \in File, RecoverFile(f) PROVE TypeOK'
  <2>1. Recovered(folder[f]) \in Entry
    BY <1>2, EntryTyped DEF Recovered
  <2>2. folder' \in [File -> Entry]
    BY <1>2, <2>1, FolderTyped DEF RecoverFile
  <2>3. work' \in Work
    BY <1>2, DirAssumption DEF RecoverFile, Work
  <2> QED BY <1>2, <2>2, <2>3 DEF RecoverFile, papers
<1>3. CASE RecoverEnds
  <2>1. disk' \in [File -> Entry]
    BY <1>3, SyncTyped DEF RecoverEnds
  <2>2. work' \in Work
    BY <1>3, WorkTyped DEF RecoverEnds, Phases
  <2> QED BY <1>3, <2>1, <2>2 DEF RecoverEnds, papers
<1>4. CASE PreviewEnds
  BY <1>4 DEF PreviewEnds, Work, Phases, files, papers, Leave, Idle, Candidates
<1>5. CASE ExecuteBegins
  <2>1. PICK S \in SUBSET Choosable : FirstReceipt(S) /\ GoWith("snapshot", {}, Parents(S))
    BY <1>5 DEF ExecuteBegins
  <2>2. S \in SUBSET File
    BY DEF Choosable, Candidates
  <2>3. work' \in Work
    BY <2>1, <2>2, WorkTyped, ParentsTyped DEF Phases
  <2>4. receipt' \in Receipt /\ audit' \in SUBSET File
    BY <2>1, <2>2 DEF FirstReceipt, NewReceipt, Receipt
  <2> QED BY <1>5, <2>3, <2>4 DEF ExecuteBegins, LockKept, files
<1>6. ASSUME NEW d \in Dir, Snapshot(d) PROVE TypeOK'
  <2>1. folder' \in [File -> Entry]
    BY <1>6 DEF Snapshot, Saved, Entry
  <2>2. disk' \in [File -> Entry]
    BY <1>6, <2>1, SyncTyped DEF Snapshot
  <2>3. work' \in Work
    BY <1>6, WorkTyped DEF Snapshot, Phases, Work
  <2> QED BY <1>6, <2>1, <2>2, <2>3 DEF Snapshot, papers
<1>7. CASE Verify
  BY <1>7 DEF Verify, Work, Phases, files, papers, Go
<1>8. CASE GivesUp
  BY <1>8 DEF GivesUp, Work, Phases, files, papers, Leave, Idle
<1>9. ASSUME NEW f \in File, Quarantine(f) PROVE TypeOK'
  <2>1. folder' \in [File -> Entry]
    BY <1>9, FolderTyped, EntryTyped DEF Quarantine
  <2>2. work' \in Work
    BY <1>9, WorkTyped DEF Quarantine, Phases
  <2>3. ours' \in SUBSET File /\ audit' \in SUBSET File
    BY <1>9 DEF Quarantine, Listed
  <2> QED BY <1>9, <2>1, <2>2, <2>3 DEF Quarantine
<1>10. ASSUME NEW f \in File, Checked(f) PROVE TypeOK'
  BY <1>10 DEF Checked, Work, Phases, files, papers, GoWith
<1>11. ASSUME NEW f \in File, Mistaken(f) PROVE TypeOK'
  <2>1. folder' \in [File -> Entry]
    BY <1>11, FolderTyped, EntryTyped DEF Mistaken
  <2>2. work' \in Work
    BY <1>11, WorkTyped DEF Mistaken, Phases
  <2> QED BY <1>11, <2>1, <2>2 DEF Mistaken, papers
<1>12. CASE MoveFails
  BY <1>12 DEF MoveFails, Work, Phases, files, papers, Go
<1>13. CASE AllMoved
  <2>1. work' \in Work
    BY <1>13, WorkTyped, ParentsTyped DEF AllMoved, Phases, Selected, Receipt, Work
  <2> QED BY <1>13, <2>1 DEF AllMoved, files, papers
<1>14. ASSUME NEW d \in Dir, Publish(d) PROVE TypeOK'
  BY <1>14 DEF Publish, Work, Phases, files, papers, Shortened, Published, Sync, GoWith, Entry
<1>15. CASE PublishFails
  <2>1. folder' \in [File -> Entry]
    <3>1. ASSUME NEW d \in Dir, folder' = Shortened(d) PROVE folder' \in [File -> Entry]
      BY <3>1 DEF Shortened, Entry
    <3>2. work.todo \subseteq Dir
      BY DEF Work
    <3> QED BY <1>15, <3>1, <3>2 DEF PublishFails
  <2>2. work' \in Work
    BY <1>15, WorkTyped, ParentsTyped DEF PublishFails, Phases, Selected, Receipt, Work
  <2> QED BY <1>15, <2>1, <2>2 DEF PublishFails, papers
<1>16. CASE AllPublished
  BY <1>16 DEF AllPublished, Work, Phases, files, papers, Go
<1>17. ASSUME NEW d \in Dir, RestoreLedger(d) PROVE TypeOK'
  <2>1. folder' \in [File -> Entry] /\ disk' \in [File -> Entry]
    <3>1. CASE folder' = Full(d) /\ (Sync({d}) \/ UNCHANGED disk)
      <4>1. folder' \in [File -> Entry]
        BY <3>1 DEF Full, Entry
      <4> QED BY <3>1, <4>1, SyncTyped
    <3> QED BY <1>17, <3>1 DEF RestoreLedger, files
  <2>2. work' \in Work
    BY <1>17, WorkTyped DEF RestoreLedger, Phases, Work
  <2> QED BY <1>17, <2>1, <2>2 DEF RestoreLedger, papers
<1>18. CASE LedgersRestored
  BY <1>18 DEF LedgersRestored, Work, Phases, files, papers, Go
<1>19. ASSUME NEW f \in File, RestoreFile(f) PROVE TypeOK'
  <2>1. folder' \in [File -> Entry]
    BY <1>19, FolderTyped, EntryTyped DEF RestoreFile
  <2>2. work' \in Work
    BY <1>19, WorkTyped DEF RestoreFile, Phases, Work
  <2> QED BY <1>19, <2>1, <2>2 DEF RestoreFile, papers
<1>20. CASE RollbackEnds
  BY <1>20 DEF RollbackEnds, Work, Phases, files, papers, Leave, Idle
<1>21. ASSUME NEW f \in File, Remove(f) PROVE TypeOK'
  <2>1. folder' \in [File -> Entry]
    BY <1>21, FolderTyped, EntryTyped DEF Remove
  <2>2. work' \in Work
    BY <1>21, WorkTyped DEF Remove, Phases, Work
  <2> QED BY <1>21, <2>1, <2>2 DEF Remove, papers
<1>22. CASE AllRemoved
  <2>1. disk' \in [File -> Entry]
    BY <1>22, SyncTyped DEF AllRemoved
  <2>2. work' \in Work
    BY <1>22, WorkTyped DEF AllRemoved, Phases
  <2> QED BY <1>22, <2>1, <2>2 DEF AllRemoved, papers
<1>23. CASE LastReceipt
  <2>1. NewReceipt(Selected, TRUE) \in Receipt
    BY DEF NewReceipt, Receipt, Selected
  <2>2. receipt' \in Receipt /\ plan' \in SUBSET File
    <3>1. CASE UNCHANGED <<receipt, plan>>
      BY <3>1
    <3>2. CASE receipt' = NewReceipt(Selected, TRUE) /\ (plan' = plan \/ plan' = {})
      BY <2>1, <3>2
    <3> QED BY <1>23, <3>1, <3>2 DEF LastReceipt
  <2> QED BY <1>23, <2>2, IdleTyped DEF LastReceipt, files, Leave
<1>24. CASE Crash
  BY <1>24 DEF Crash, Work, Phases, files, papers, Died, Idle
<1>25. CASE PowerLoss
  BY <1>25 DEF PowerLoss, Work, Phases, files, papers, Idle
<1>26. CASE BackupBegins
  BY <1>26 DEF BackupBegins, Work, Phases, files, papers
<1>27. CASE BackupEnds
  BY <1>27 DEF BackupEnds, Work, Phases, files, papers
<1>28. CASE Recover
  <2>1. row' \in {"settled", "partial", "uncertain"}
    BY <1>28 DEF Recover
  <2> QED BY <1>28, <2>1 DEF Recover, files, papers
<1>29. ASSUME NEW d \in Dir, Writeback(d) PROVE TypeOK'
  BY <1>29 DEF Writeback, Work, Phases, files, papers, Sync
<1>30. ASSUME NEW f \in File, Replace(f) PROVE TypeOK'
  BY <1>30 DEF Replace, Work, Phases, files, papers, SetEntry, Entry, Contents
<1>31. CASE UNCHANGED vars
  BY <1>31 DEF vars, files, papers
<1> QED
  BY <1>1, <1>2, <1>3, <1>4, <1>5, <1>6, <1>7, <1>8, <1>9, <1>10, <1>11, <1>12, <1>13, <1>14, <1>15, <1>16, <1>17, <1>18, <1>19, <1>20, <1>21, <1>22, <1>23, <1>24, <1>25, <1>26, <1>27, <1>28, <1>29, <1>30, <1>31 DEF Next, Moves, Publishes, Removes, Prepares, Environment

----------------------------------------------------------------------------
\* An entry stays in order when more is replaced; the disk gets
\* entries that are, or were, in the folder.
LEMMA FilesFollow ==
  ASSUME FilesOK, replaced \subseteq replaced',
         \A f \in File : folder'[f] = folder[f] \/ folder'[f] = disk[f] \/ EntryOK(f, folder[f])',
         \A f \in File : disk'[f] = disk[f] \/ disk'[f] = folder'[f]
  PROVE  FilesOK'
BY DEF FilesOK, EntryOK

LEMMA SyncFollows ==
  ASSUME NEW D, Sync(D)
  PROVE  \A f \in File : disk'[f] = disk[f] \/ disk'[f] = folder'[f]
BY DEF Sync

\* Steps that change no entry of a folder.
LEMMA FilesStay ==
  ASSUME CleanupInv,
         \/ \E kind \in {"preview", "execute"} : Request(kind)
         \/ RecoverEnds \/ PreviewEnds \/ ExecuteBegins \/ Verify \/ GivesUp
         \/ MoveFails \/ AllMoved \/ (\E f \in File : Checked(f))
         \/ AllPublished \/ LedgersRestored \/ RollbackEnds \/ AllRemoved \/ LastReceipt
         \/ Crash \/ PowerLoss \/ BackupBegins \/ BackupEnds \/ Recover
         \/ (\E d \in Dir : Writeback(d)) \/ UNCHANGED vars
  PROVE  FilesOK'
<1>1. replaced' = replaced
  BY DEF Request, RecoverEnds, PreviewEnds, ExecuteBegins, FirstReceipt, Verify, GivesUp,
    MoveFails, AllMoved, Checked, AllPublished, LedgersRestored, RollbackEnds, AllRemoved,
    LastReceipt, Crash, PowerLoss, BackupBegins, BackupEnds, Recover, Writeback, vars, papers
<1>2. folder' = folder \/ folder' = disk
  BY DEF Request, RecoverEnds, PreviewEnds, ExecuteBegins, Verify, GivesUp,
    MoveFails, AllMoved, Checked, AllPublished, LedgersRestored, RollbackEnds, AllRemoved,
    LastReceipt, Crash, PowerLoss, BackupBegins, BackupEnds, Recover, Writeback, vars, files
<1>3. disk' = disk \/ \E D \in SUBSET Dir : Sync(D)
  <2>1. work.todo \subseteq Dir /\ Parents(Selected) \subseteq Dir
    BY ParentsTyped DEF CleanupInv, TypeOK, Work, Selected, Receipt
  <2> QED BY <2>1 DEF Request, RecoverEnds, PreviewEnds, ExecuteBegins, Verify, GivesUp,
    MoveFails, AllMoved, Checked, AllPublished, LedgersRestored, RollbackEnds, AllRemoved,
    LastReceipt, Crash, PowerLoss, BackupBegins, BackupEnds, Recover, Writeback, vars, files
<1>4. \A f \in File : disk'[f] = disk[f] \/ disk'[f] = folder'[f]
  BY <1>3, SyncFollows
<1> QED BY <1>1, <1>2, <1>4, FilesFollow DEF CleanupInv

\* Steps that change one entry, which the disk does not see yet.
LEMMA OneEntry ==
  ASSUME CleanupInv, NEW f \in File, NEW entry, SetEntry(f, entry) \/ UNCHANGED folder,
         UNCHANGED disk, replaced \subseteq replaced', EntryOK(f, entry)'
  PROVE  FilesOK'
<1>1. \A g \in File : folder'[g] = folder[g] \/ (g = f /\ folder'[g] = entry)
  BY DEF CleanupInv, TypeOK, SetEntry
<1>2. \A g \in File : folder'[g] = folder[g] \/ EntryOK(g, folder[g])'
  BY <1>1 DEF EntryOK
<1> QED BY <1>2, FilesFollow DEF CleanupInv

\* What is used of an entry in the steps that change it.
LEMMA EntryFacts ==
  ASSUME CleanupInv, NEW f \in File
  PROVE  /\ folder[f] \in Entry /\ EntryOK(f, folder[f])
         /\ f \in work.moved => folder[f].aside = "segment"
BY DEF CleanupInv, TypeOK, FilesOK, WorkOK

LEMMA FilesChange ==
  ASSUME CleanupInv, NEW f \in File,
         RecoverFile(f) \/ Quarantine(f) \/ Mistaken(f) \/ RestoreFile(f) \/ Remove(f) \/ Replace(f)
  PROVE  FilesOK'
<1>1. CASE RecoverFile(f)
  <2>1. PICK entry : entry = Recovered(folder[f])
    OBVIOUS
  <2>2. EntryOK(f, entry)'
    BY <1>1, <2>1, EntryFacts DEF RecoverFile, Recovered, EntryOK, Stored, Entry, papers
  <2> QED BY <1>1, <2>1, <2>2, OneEntry DEF RecoverFile, papers
<1>2. CASE Quarantine(f)
  <2>1. PICK entry : entry = [folder[f] EXCEPT !.name = "none", !.aside = folder[f].name]
    OBVIOUS
  <2>2. folder[f].saved
    BY <1>2 DEF Quarantine, CleanupInv, WorkOK, Phase, Unmoved
  <2>3. EntryOK(f, entry)'
    BY <1>2, <2>1, <2>2, EntryFacts DEF Quarantine, EntryOK, Stored, Entry, papers, Unmoved
  <2> QED BY <1>2, <2>1, <2>3, OneEntry DEF Quarantine, papers
<1>3. CASE Mistaken(f)
  <2>1. PICK entry : entry = [folder[f] EXCEPT !.name = folder[f].aside, !.aside = "none"]
    OBVIOUS
  <2>2. EntryOK(f, entry)'
    BY <1>3, <2>1, EntryFacts DEF Mistaken, EntryOK, Stored, Entry, Contents, Intact, papers
  <2> QED BY <1>3, <2>1, <2>2, OneEntry DEF Mistaken, papers
<1>4. CASE RestoreFile(f)
  <2>1. PICK entry : entry = [folder[f] EXCEPT !.name = folder[f].aside, !.aside = "none"]
    OBVIOUS
  <2>2. folder[f].aside = "segment" /\ (f \notin replaced => folder[f].saved)
    BY <1>4, EntryFacts DEF RestoreFile, EntryOK
  <2>3. EntryOK(f, entry)'
    BY <1>4, <2>1, <2>2, EntryFacts DEF RestoreFile, EntryOK, Stored, Entry, papers
  <2> QED BY <1>4, <2>1, <2>3, OneEntry DEF RestoreFile, papers
<1>5. CASE Remove(f)
  <2>1. PICK entry : entry = [folder[f] EXCEPT !.aside = "none"]
    OBVIOUS
  <2>2. Off(folder[f])
    BY <1>5 DEF Remove, CleanupInv, WorkOK, Phase, OffForGood
  <2>3. EntryOK(f, entry)'
    BY <1>5, <2>1, <2>2, EntryFacts DEF Remove, EntryOK, Stored, Entry, papers, Off
  <2> QED BY <1>5, <2>1, <2>3, OneEntry DEF Remove, papers
<1>6. CASE Replace(f)
  <2>1. PICK entry : entry = [folder[f] EXCEPT !.name = "other"]
    OBVIOUS
  <2>2. EntryOK(f, entry)'
    BY <1>6, <2>1, EntryFacts DEF Replace, EntryOK, Entry, papers
  <2> QED BY <1>6, <2>1, <2>2, OneEntry DEF Replace, papers
<1> QED BY <1>1, <1>2, <1>3, <1>4, <1>5, <1>6

\* Steps that change the ledger of a folder, or copy it.
LEMMA LedgerFiles ==
  ASSUME CleanupInv, NEW d \in Dir, UNCHANGED replaced,
         \/ folder' = Shortened(d) /\ Phase("publish")
         \/ folder' = Full(d) /\ Phase("restore")
         \/ folder' = [f \in File |->
              IF DirOf[f] = d /\ folder[f].listed
              THEN [folder[f] EXCEPT !.saved = @ \/ Saved(f)] ELSE folder[f]],
         disk' = disk \/ Sync({d})
  PROVE  FilesOK'
<1>1. ASSUME NEW f \in File PROVE folder'[f] = folder[f] \/ EntryOK(f, folder[f])'
  <2>1. folder[f] \in Entry /\ EntryOK(f, folder[f])
    BY EntryFacts
  <2>2. CASE folder' = Shortened(d) /\ Phase("publish")
    <3>1. f \in Selected => folder[f].saved
      BY <2>2 DEF CleanupInv, WorkOK, Phase
    <3> QED BY <2>1, <2>2, <3>1 DEF Shortened, EntryOK, Stored, Entry
  <2>3. CASE folder' = Full(d) /\ Phase("restore")
    <3>1. f \in Selected => folder[f].aside = "segment"
      BY <2>3 DEF CleanupInv, WorkOK, Phase
    <3> QED BY <2>1, <2>3, <3>1 DEF Full, EntryOK, Stored, Entry
  <2>4. CASE folder' = [g \in File |->
               IF DirOf[g] = d /\ folder[g].listed
               THEN [folder[g] EXCEPT !.saved = @ \/ Saved(g)] ELSE folder[g]]
    BY <2>1, <2>4 DEF EntryOK, Stored, Entry, Saved
  <2> QED BY <2>2, <2>3, <2>4
<1>2. \A f \in File : disk'[f] = disk[f] \/ disk'[f] = folder'[f]
  BY SyncFollows
<1> QED BY <1>1, <1>2, FilesFollow DEF CleanupInv

LEMMA FilesKept ==
  ASSUME CleanupInv, [Next]_vars
  PROVE  FilesOK'
<1>1. ASSUME NEW d \in Dir, Snapshot(d) \/ Publish(d) \/ RestoreLedger(d) PROVE FilesOK'
  BY <1>1, LedgerFiles DEF Snapshot, Publish, Published, RestoreLedger, papers, files, CleanupInv, FilesOK, EntryOK
<1>2. CASE PublishFails
  <2>1. work.todo \subseteq Dir
    BY DEF CleanupInv, TypeOK, Work
  <2>2. CASE folder' = folder
    BY <1>2, <2>2 DEF PublishFails, papers, CleanupInv, FilesOK, EntryOK
  <2> QED BY <1>2, <2>1, <2>2, LedgerFiles DEF PublishFails, papers
<1> QED BY <1>1, <1>2, FilesStay, FilesChange
  DEF Next, Moves, Publishes, Removes, Prepares, Environment

----------------------------------------------------------------------------
\* A segment off for good stays so as long as no ledger gets it back.
LEMMA OffStays ==
  ASSUME NEW f \in File, OffForGood(f),
         folder'[f] = folder[f] \/ folder'[f] = disk[f] \/ Off(folder'[f]),
         disk'[f] = disk[f] \/ disk'[f] = folder'[f]
  PROVE  OffForGood(f)'
BY DEF OffForGood, Off

\* Nothing is in hand and no receipt is newer than the last.
LEMMA WorkLeft ==
  ASSUME CleanupInv, work' = Idle, Selected' = Selected,
         \A f \in File : OffForGood(f) => OffForGood(f)',
         receipt'.committed => receipt.committed \/ \A f \in Selected : OffForGood(f)
  PROVE  WorkOK'
<1>1. Selected \subseteq File
  BY DEF CleanupInv, TypeOK, Receipt, Selected
<1> QED BY <1>1 DEF CleanupInv, WorkOK, Idle, Phase, Selected

LEMMA WorkEnds ==
  ASSUME CleanupInv,
         \/ PreviewEnds \/ GivesUp \/ RollbackEnds \/ LastReceipt \/ Crash \/ PowerLoss
  PROVE  WorkOK'
<1>1. work' = Idle
  BY DEF PreviewEnds, GivesUp, RollbackEnds, LastReceipt, Crash, PowerLoss, Leave, Died, papers
<1>2. disk' = disk /\ (folder' = folder \/ folder' = disk)
  BY DEF PreviewEnds, GivesUp, RollbackEnds, LastReceipt, Crash, PowerLoss, files
<1>3. \A f \in File : OffForGood(f) => OffForGood(f)'
  BY <1>2, OffStays
<1>4. CASE LastReceipt
  <2>1. \A f \in Selected : OffForGood(f)
    BY <1>4 DEF LastReceipt, CleanupInv, WorkOK, Phase
  <2>2. Selected' = Selected
    BY <1>4 DEF LastReceipt, NewReceipt, Selected
  <2> QED BY <1>1, <1>3, <2>1, <2>2, WorkLeft
<1>5. CASE ~LastReceipt
  <2>1. receipt' = receipt
    BY <1>5 DEF PreviewEnds, GivesUp, RollbackEnds, Crash, PowerLoss, papers
  <2> QED BY <1>1, <1>3, <2>1, WorkLeft DEF Selected
<1> QED BY <1>4, <1>5

\* Steps that only move the request on, or nothing of it.
LEMMA WorkGoesOn ==
  ASSUME CleanupInv,
         \/ (\E kind \in {"preview", "execute"} : Request(kind))
         \/ Verify \/ MoveFails \/ AllMoved \/ (\E f \in File : Checked(f))
         \/ AllPublished \/ LedgersRestored
         \/ BackupBegins \/ BackupEnds \/ Recover \/ UNCHANGED vars
  PROVE  WorkOK'
<1> USE DEF CleanupInv
<1>0. /\ UNCHANGED <<folder, disk, receipt>> /\ Selected' = Selected
      /\ \A f \in File : OffForGood(f)' = OffForGood(f)
  BY DEF Request, Verify, MoveFails, AllMoved, Checked, AllPublished, LedgersRestored, BackupBegins,
    BackupEnds, Recover, vars, files, papers, Selected, OffForGood, Off
<1>1. work \in Work /\ Selected \subseteq File
  BY DEF TypeOK, Receipt, Selected
<1>2. ASSUME NEW kind \in {"preview", "execute"}, Request(kind) PROVE WorkOK'
  BY <1>0, <1>1, <1>2 DEF Request, Idle, WorkOK, Phase
<1>3. CASE Verify
  <2>1. \A f \in Selected : folder[f].saved
    BY <1>3 DEF Verify, WorkOK, Phase
  <2> QED BY <1>0, <1>1, <1>3, <2>1 DEF Verify, Go, WorkOK, Phase, Work
<1>4. CASE MoveFails
  BY <1>0, <1>1, <1>4 DEF MoveFails, Go, WorkOK, Phase, Work
<1>5. CASE AllMoved
  BY <1>0, <1>1, <1>5 DEF AllMoved, GoWith, WorkOK, Phase, Work, Unmoved, Parents
<1>6. ASSUME NEW f \in File, Checked(f) PROVE WorkOK'
  <2>1. folder[f].aside = "segment" /\ f \in Selected
    BY <1>6 DEF Checked, Intact, Unmoved
  <2> QED BY <1>0, <1>1, <1>6, <2>1 DEF Checked, GoWith, WorkOK, Phase, Work
<1>7. CASE AllPublished
  BY <1>0, <1>1, <1>7 DEF AllPublished, Go, WorkOK, Phase, Work
<1>8. CASE LedgersRestored
  BY <1>0, <1>1, <1>8 DEF LedgersRestored, Go, WorkOK, Phase, Work
<1>9. CASE BackupBegins \/ BackupEnds \/ Recover \/ UNCHANGED vars
  <2>1. work' = work /\ (~Phase("idle") => lock' = lock)
    BY <1>9 DEF BackupBegins, BackupEnds, Recover, vars, WorkOK, Phase
  <2> QED BY <1>0, <1>1, <2>1 DEF WorkOK, Phase
<1> QED BY <1>2, <1>3, <1>4, <1>5, <1>6, <1>7, <1>8, <1>9

\* Steps of the recovery and of the preparation.
LEMMA WorkPrepares ==
  ASSUME CleanupInv,
         \/ (\E f \in File : RecoverFile(f)) \/ RecoverEnds \/ ExecuteBegins
         \/ (\E d \in Dir : Snapshot(d))
  PROVE  WorkOK'
<1> USE DEF CleanupInv
<1>1. work \in Work /\ Selected \subseteq File
  BY DEF TypeOK, Receipt, Selected
<1>2. ASSUME NEW f \in File, RecoverFile(f) PROVE WorkOK'
  <2>1. Selected' = Selected /\ UNCHANGED <<disk, receipt, lock>>
    BY <1>2 DEF RecoverFile, papers, Selected
  <2>2. work'.phase = "recover" /\ work'.moved = {} /\ work.phase = "recover"
    BY <1>1, <1>2 DEF RecoverFile, Work, WorkOK, Phase
  <2>3. \A g \in File : folder'[g] = folder[g] \/ Off(folder'[g]) \/ folder[g].listed
    BY <1>2, EntryFacts DEF RecoverFile, SetEntry, Recovered, Off, TypeOK, Entry, EntryOK
  <2>4. \A g \in File : OffForGood(g) => OffForGood(g)'
    BY <2>1, <2>3, OffStays DEF OffForGood, Off
  <2> QED BY <1>1, <2>1, <2>2, <2>4 DEF WorkOK, Phase
<1>3. CASE RecoverEnds
  <2>1. Selected' = Selected /\ UNCHANGED <<folder, receipt, lock>>
    BY <1>3 DEF RecoverEnds, papers, Selected
  <2>2. work'.phase = "prepare" /\ work'.moved = {} /\ work.phase = "recover"
    BY <1>1, <1>3 DEF RecoverEnds, GoWith, Work, Phase
  <2>3. \A g \in File : folder[g].aside = "none"
    BY <1>3 DEF RecoverEnds
  <2>4. \A g \in File : OffForGood(g) => OffForGood(g)'
    BY <1>3, <2>1, OffStays, SyncFollows DEF RecoverEnds
  <2> QED BY <1>1, <2>1, <2>2, <2>3, <2>4 DEF WorkOK, Phase
<1>4. CASE ExecuteBegins
  <2>1. PICK S \in SUBSET Choosable : FirstReceipt(S) /\ GoWith("snapshot", {}, Parents(S))
    BY <1>4 DEF ExecuteBegins
  <2>2. Selected' = S /\ ~receipt'.committed
    BY <2>1 DEF FirstReceipt, NewReceipt, Selected
  <2>3. \A f \in S : folder[f].listed /\ DirOf[f] \in Parents(S)
    BY DEF Choosable, Candidates, Parents
  <2>4. work'.phase = "snapshot" /\ work'.moved = {} /\ work'.todo = Parents(S)
    BY <1>1, <2>1 DEF GoWith, Work
  <2>5. folder' = folder /\ lock' = "cleanup"
    BY <1>4 DEF ExecuteBegins, LockKept, files, WorkOK, Phase
  <2> QED BY <2>2, <2>3, <2>4, <2>5 DEF WorkOK, Phase
<1>5. ASSUME NEW d \in Dir, Snapshot(d) PROVE WorkOK'
  <2>1. Selected' = Selected /\ UNCHANGED <<receipt, lock>> /\ ~receipt.committed
    BY <1>5 DEF Snapshot, papers, Selected, WorkOK, Phase
  <2>2. /\ work'.phase = "snapshot" /\ work'.moved = {} /\ work'.todo = work.todo \ {d}
        /\ work.phase = "snapshot"
    BY <1>1, <1>5 DEF Snapshot, GoWith, Work, Phase
  <2>3. \A f \in File : folder[f] \in Entry
    BY DEF TypeOK
  <2>4. \A f \in Selected : folder'[f].listed /\ (DirOf[f] \notin work'.todo => folder'[f].saved)
    BY <1>1, <1>5, <2>2, <2>3 DEF Snapshot, WorkOK, Phase, Saved, Entry
  <2> QED BY <1>1, <2>1, <2>2, <2>4 DEF WorkOK, Phase
<1> QED BY <1>2, <1>3, <1>4, <1>5

\* Steps that move a segment on its way.
LEMMA WorkMoves ==
  ASSUME CleanupInv, NEW f \in File,
         Quarantine(f) \/ Mistaken(f) \/ RestoreFile(f) \/ Remove(f)
  PROVE  WorkOK'
<1> USE DEF CleanupInv
<1>1. work \in Work /\ Selected \subseteq File
  BY DEF TypeOK, Receipt, Selected
<1>2. Selected' = Selected /\ UNCHANGED <<disk, receipt, lock>> /\ ~receipt.committed
  BY DEF Quarantine, Mistaken, RestoreFile, Remove, papers, Selected, WorkOK, Phase
<1>3. \A g \in File : /\ g # f => folder'[g] = folder[g]
                      /\ folder'[g].saved = folder[g].saved
  <2>1. folder \in [File -> Entry]
    BY DEF TypeOK
  <2>2. PICK entry : (SetEntry(f, entry) /\ entry.saved = folder[f].saved) \/ UNCHANGED folder
    <3> DEFINE moved == [folder[f] EXCEPT !.name = "none", !.aside = folder[f].name]
               back == [folder[f] EXCEPT !.name = folder[f].aside, !.aside = "none"]
               gone == [folder[f] EXCEPT !.aside = "none"]
    <3>1. moved.saved = folder[f].saved /\ back.saved = folder[f].saved /\ gone.saved = folder[f].saved
      BY <2>1 DEF Entry
    <3>2. SetEntry(f, moved) \/ SetEntry(f, back) \/ SetEntry(f, gone) \/ UNCHANGED folder
      BY DEF Quarantine, Mistaken, RestoreFile, Remove
    <3> HIDE DEF moved, back, gone
    <3> QED BY <3>1, <3>2
  <2> QED BY <2>1, <2>2 DEF SetEntry
<1>4. lock = "cleanup" /\ \A g \in Selected : folder[g].saved
  BY DEF Quarantine, Mistaken, RestoreFile, Remove, WorkOK, Phase
<1>5. CASE Quarantine(f) \/ Mistaken(f)
  <2>1. work'.phase \in {"check", "rollback"} /\ work'.moved = work.moved /\ f \notin work.moved
    BY <1>1, <1>5 DEF Quarantine, Mistaken, Go, Work, Unmoved
  <2> QED BY <1>1, <1>2, <1>3, <1>4, <2>1 DEF WorkOK, Phase
<1>6. CASE RestoreFile(f)
  <2>1. work'.phase = "rollback" /\ work'.moved = work.moved \ {f}
    BY <1>1, <1>6 DEF RestoreFile, GoWith, Work
  <2> QED BY <1>1, <1>2, <1>3, <1>4, <2>1 DEF WorkOK, Phase
<1>7. CASE Remove(f)
  <2>1. work'.phase = "remove" /\ work'.moved = work.moved \ {f} /\ work.phase = "remove"
    BY <1>1, <1>7 DEF Remove, GoWith, Work, Phase
  <2>2. \A g \in File : Off(folder[g]) => Off(folder'[g])
    BY <1>3, <1>7 DEF Remove, SetEntry, Off, TypeOK, Entry
  <2>3. \A g \in Selected : OffForGood(g)'
    BY <1>1, <1>2, <2>1, <2>2 DEF WorkOK, OffForGood
  <2> QED BY <1>1, <1>2, <1>3, <1>4, <2>1, <2>3 DEF WorkOK, Phase
<1> QED BY <1>5, <1>6, <1>7

\* Shortening or restoring a ledger moves no file.
LEMMA LedgersOnly ==
  ASSUME CleanupInv, NEW d \in Dir, folder' = Shortened(d) \/ folder' = Full(d)
  PROVE  \A f \in File : /\ folder'[f].aside = folder[f].aside
                       /\ folder'[f].name = folder[f].name
                       /\ folder'[f].saved = folder[f].saved
<1>1. ASSUME NEW f \in File
      PROVE  folder'[f] = folder[f] \/ \E b \in BOOLEAN : folder'[f] = [folder[f] EXCEPT !.listed = b]
  BY DEF Shortened, Full
<1>2. \A f \in File : folder[f] \in Entry
  BY DEF CleanupInv, TypeOK
<1> QED BY <1>1, <1>2 DEF Entry

LEMMA WorkPublishes ==
  ASSUME CleanupInv,
         \/ (\E d \in Dir : Publish(d) \/ RestoreLedger(d))
         \/ PublishFails \/ AllRemoved
  PROVE  WorkOK'
<1> USE DEF CleanupInv
<1>1. work \in Work /\ Selected \subseteq File /\ work.todo \subseteq Dir
  BY DEF TypeOK, Receipt, Selected, Work
<1>2. Selected' = Selected /\ UNCHANGED <<receipt, lock>> /\ ~receipt.committed
  BY DEF Publish, RestoreLedger, PublishFails, AllRemoved, papers, Selected, WorkOK, Phase
<1>3. lock = "cleanup" /\ \A g \in Selected : folder[g].saved
  BY DEF Publish, RestoreLedger, PublishFails, AllRemoved, WorkOK, Phase
<1>4. ASSUME NEW d \in Dir, Publish(d) PROVE WorkOK'
  <2>1. /\ work'.phase = "publish" /\ work'.moved = work.moved /\ work.moved = Selected
        /\ work'.todo = work.todo \ {d} /\ work.phase = "publish"
    BY <1>1, <1>4 DEF Publish, GoWith, Work, WorkOK, Phase
  <2>2. \A f \in Selected : DirOf[f] = d => Off(folder'[f]) /\ disk'[f] = folder'[f]
    <3>1. \A f \in Selected : DirOf[f] = d => ~folder'[f].listed /\ disk'[f] = folder'[f]
      BY <1>1, <1>4 DEF Publish, Shortened, Published, Sync, InDir, TypeOK, Entry
    <3>2. \A f \in Selected : folder'[f].name # "segment"
      BY <1>1, <1>4, <2>1, LedgersOnly, EntryFacts DEF Publish, EntryOK
    <3> QED BY <3>1, <3>2 DEF Off
  <2>3. \A f \in Selected : DirOf[f] # d => folder'[f] = folder[f] /\ disk'[f] = disk[f]
    BY <1>1, <1>4 DEF Publish, Shortened, Published, Sync, InDir
  <2>4. \A f \in Selected : DirOf[f] \notin work'.todo => OffForGood(f)'
    BY <2>1, <2>2, <2>3 DEF WorkOK, Phase, OffForGood
  <2> QED BY <1>1, <1>2, <1>3, <1>4, <2>1, <2>4, LedgersOnly DEF WorkOK, Phase, Publish
<1>5. ASSUME NEW d \in Dir, RestoreLedger(d) PROVE WorkOK'
  <2>1. work'.phase = "restore" /\ work'.moved = work.moved /\ work.moved = Selected
    BY <1>1, <1>5 DEF RestoreLedger, GoWith, Work, WorkOK, Phase
  <2>2. \A f \in File : folder'[f].aside = folder[f].aside /\ folder'[f].saved = folder[f].saved
    BY <1>5, LedgersOnly DEF RestoreLedger, files
  <2> QED BY <1>1, <1>2, <1>3, <2>1, <2>2 DEF WorkOK, Phase
<1>6. CASE PublishFails
  <2>1. work'.phase = "restore" /\ work'.moved = work.moved /\ work.moved = Selected
    BY <1>1, <1>6 DEF PublishFails, GoWith, Work, WorkOK, Phase
  <2>2. \A f \in File : folder'[f].aside = folder[f].aside /\ folder'[f].saved = folder[f].saved
    BY <1>1, <1>6, LedgersOnly DEF PublishFails
  <2> QED BY <1>1, <1>2, <1>3, <2>1, <2>2 DEF WorkOK, Phase
<1>7. CASE AllRemoved
  <2>1. work'.phase = "receipt" /\ work'.moved = {} /\ folder' = folder
    BY <1>1, <1>7 DEF AllRemoved, Go, Work
  <2>2. \A f \in Selected : OffForGood(f)
    BY <1>7 DEF AllRemoved, WorkOK, Phase
  <2>3. \A f \in Selected : OffForGood(f)'
    BY <1>1, <1>7, <2>1, <2>2, OffStays, SyncFollows DEF AllRemoved
  <2> QED BY <1>1, <1>2, <1>3, <2>1, <2>3 DEF WorkOK, Phase
<1> QED BY <1>4, <1>5, <1>6, <1>7

\* The kernel and the user.
LEMMA WorkUndisturbed ==
  ASSUME CleanupInv, (\E d \in Dir : Writeback(d)) \/ (\E f \in File : Replace(f))
  PROVE  WorkOK'
<1> USE DEF CleanupInv
<1>1. work \in Work /\ Selected \subseteq File
  BY DEF TypeOK, Receipt, Selected
<1>2. Selected' = Selected /\ UNCHANGED <<receipt, lock, work>>
  BY DEF Writeback, Replace, papers, Selected
<1>3. \A g \in File : \/ folder'[g] = folder[g]
                      \/ /\ folder'[g].aside = folder[g].aside /\ folder'[g].name # "segment"
                         /\ folder'[g].saved = folder[g].saved
                         /\ folder'[g].listed = folder[g].listed
  <2>1. folder \in [File -> Entry]
    BY DEF TypeOK
  <2>2. ASSUME NEW f \in File, Replace(f), NEW g \in File
        PROVE  folder'[g] = folder[g] \/ folder'[g] = [folder[g] EXCEPT !.name = "other"]
    BY <2>1, <2>2 DEF Replace, SetEntry
  <2>3. \A g \in File : folder'[g] = folder[g] \/ folder'[g] = [folder[g] EXCEPT !.name = "other"]
    BY <2>2 DEF Writeback
  <2>4. ASSUME NEW e \in Entry
        PROVE  /\ [e EXCEPT !.name = "other"].aside = e.aside
               /\ [e EXCEPT !.name = "other"].name = "other"
               /\ [e EXCEPT !.name = "other"].saved = e.saved
               /\ [e EXCEPT !.name = "other"].listed = e.listed
    BY DEF Entry
  <2>5. \A g \in File : folder[g] \in Entry
    BY <2>1
  <2> QED BY <2>3, <2>4, <2>5
<1>4. \A g \in File : disk'[g] = disk[g] \/ disk'[g] = folder'[g]
  BY SyncFollows DEF Writeback, Replace
<1>5. \A g \in File : OffForGood(g) => OffForGood(g)'
  BY <1>3, <1>4 DEF OffForGood, Off
<1> QED BY <1>1, <1>2, <1>3, <1>5 DEF WorkOK, Phase

LEMMA CleanupInvKept ==
  ASSUME CleanupInv, [Next]_vars
  PROVE  CleanupInv'
<1>1. TypeOK' /\ FilesOK'
  BY TypeKept, FilesKept DEF CleanupInv
<1>2. WorkOK'
  BY WorkEnds, WorkGoesOn, WorkPrepares, WorkMoves, WorkPublishes, WorkUndisturbed
  DEF Next, Moves, Publishes, Removes, Prepares, Environment
<1> QED BY <1>1, <1>2 DEF CleanupInv

LEMMA CleanupInvInit == Init => CleanupInv
<1> SUFFICES ASSUME Init PROVE CleanupInv
  OBVIOUS
<1>1. \A f \in File : folder[f] = Committed /\ disk[f] = Committed
  BY DEF Init
<1>2. TypeOK
  BY IdleTyped DEF Init, TypeOK, Committed, Entry, Contents, NewReceipt, Receipt
<1>3. FilesOK
  <2>1. \A f \in File : EntryOK(f, Committed)
    BY DEF EntryOK, Committed, Stored
  <2> QED BY <1>1, <2>1 DEF FilesOK
<1>4. WorkOK
  BY DEF Init, WorkOK, Idle, NewReceipt, Selected, Phase
<1> QED BY <1>2, <1>3, <1>4 DEF CleanupInv

\* The invariant of the cleanup: the entries of the folders and of the disk are
\* in order, and the phase of the request agrees with them.
THEOREM CleanupInvariant == Spec => []CleanupInv
<1>1. Init => CleanupInv
  BY CleanupInvInit
<1>2. CleanupInv /\ [Next]_vars => CleanupInv'
  BY CleanupInvKept
<1> QED BY <1>1, <1>2, PTL DEF Spec

\* Every variable keeps its type.
THEOREM CleanupTypeCorrect == Spec => []TypeOK
<1>1. CleanupInv => TypeOK
  BY DEF CleanupInv
<1> QED BY <1>1, CleanupInvariant, PTL

\* No ledger names a segment whose bytes are gone, whenever the process dies or
\* the power fails.
THEOREM CleanupLedgerBacked == Spec => []LedgerBacked
<1>1. CleanupInv => LedgerBacked
  BY DEF CleanupInv, FilesOK, EntryOK, LedgerBacked
<1> QED BY <1>1, CleanupInvariant, PTL

\* A segment that left its ledger or its name is in a retained ledger snapshot.
THEOREM CleanupSnapshotCovers == Spec => []SnapshotCovers
<1>1. CleanupInv => SnapshotCovers
  BY DEF CleanupInv, FilesOK, EntryOK, SnapshotCovers
<1> QED BY <1>1, CleanupInvariant, PTL

\* A committed receipt stays true through crashes and losses of power.
THEOREM CleanupReceiptTrue == Spec => []ReceiptTrue
<1>1. CleanupInv => ReceiptTrue
  BY DEF CleanupInv, WorkOK, OffForGood, Off, ReceiptTrue
<1> QED BY <1>1, CleanupInvariant, PTL

=============================================================================
