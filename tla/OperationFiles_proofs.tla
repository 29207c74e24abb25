----------------------- MODULE OperationFiles_proofs -----------------------
(***************************************************************************)
(* What TLAPS proves of the files of the background operations: what a     *)
(* download publishes, what a completed operation stands on, and that no   *)
(* file under a result's name is lost.                                     *)
(***************************************************************************)
EXTENDS OperationQueue_proofs

----------------------------------------------------------------------------
\* The strengthening: of each operation, and of the one in the worker's hands.
RowFiles(i) ==
  /\ row[i].state = "absent" => \A n \in Name : file[i][n] = "none"
  /\ KindOf(i) = "download" => row[i].dest = 0
  /\ i \notin touched /\ KindOf(i) = "download" => file[i][0] \in {"none", row[i].input}
  /\ i \notin touched /\ row[i].state = "completed" /\ Cancellable(i) => Backed(i)

InHand ==
  /\ worker.phase \in {"choose", "render", "fetch", "link", "receipt", "unlink", "done"} =>
       Mine.input # "none"
  /\ worker.phase = "link" /\ KindOf(Me) = "download" => partial[Me].of = Mine.input
  /\ worker.phase \in {"link", "receipt"} /\ KindOf(Me) = "render" => worker.temp # "none"
  /\ worker.phase = "receipt" /\ Me \notin touched => file[Me][Mine.dest] = worker.temp
  /\ worker.phase = "unlink" /\ Me \notin touched => file[Me][Mine.dest] # "none"
  /\ worker.phase = "settle" => worker.result # "none"
  /\ worker.phase = "done" \/ (worker.phase = "settle" /\ worker.result = "ok") =>
       (Cancellable(Me) /\ Me \notin touched => Backed(Me))

FilesInv == ControlInv /\ (\A i \in Id : RowFiles(i)) /\ InHand

----------------------------------------------------------------------------
\* A row, its files and its receipts as they were, but for how far it has come.
SameRow(i) ==
  /\ row'[i].request = row[i].request /\ row'[i].input = row[i].input /\ row'[i].dest = row[i].dest
SameFiles(i) ==
  file'[i] = file[i] /\ receipt'[i] = receipt[i] /\ (i \in touched => i \in touched')
Keeps(i) ==
  /\ SameRow(i) /\ SameFiles(i)
  /\ row'[i].state \in {row[i].state, "queued", "running", "failed", "cancelled"}

USE DEF Me, Mine

LEMMA KeepsRow ==
  ASSUME NEW i \in Id, RowFiles(i), Keeps(i)
  PROVE  RowFiles(i)'
<1>1. KindOf(i)' = KindOf(i) /\ Cancellable(i)' = Cancellable(i)
  BY DEF Keeps, SameRow, KindOf, Cancellable
<1>2. Backed(i) => Backed(i)'
  BY <1>1 DEF Keeps, SameRow, SameFiles, Backed
<1> QED BY <1>1, <1>2 DEF RowFiles, Keeps, SameRow, SameFiles

LEMMA SameInHand ==
  ASSUME InHand, UNCHANGED worker, partial' = partial, Me \in Id, SameRow(Me), SameFiles(Me)
  PROVE  InHand'
<1>1. KindOf(Me)' = KindOf(Me) /\ Cancellable(Me)' = Cancellable(Me)
  BY DEF SameRow, KindOf, Cancellable
<1>2. Backed(Me) => Backed(Me)'
  BY <1>1 DEF SameRow, SameFiles, Backed
<1> QED BY <1>1, <1>2 DEF InHand, SameRow, SameFiles

\* A step of the worker changes no row but its own, or only in how far it is.
LEMMA OthersKeep ==
  ASSUME TypeOK, NEW k, NEW new, SetRow(k, new), NEW i \in Id, i # k, SameFiles(i)
  PROVE  Keeps(i)
BY DEF TypeOK, SetRow, Keeps, SameRow

LEMMA StateKeeps ==
  ASSUME TypeOK, NEW k \in Id, NEW s \in {row[k].state, "queued", "running", "failed", "cancelled"},
         NEW c, NEW a, SetRow(k, [row[k] EXCEPT !.state = s, !.cancel = c, !.attempts = a]),
         NEW i \in Id, SameFiles(i)
  PROVE  Keeps(i)
<1>1. row \in [Id -> Row] /\ row[k] \in Row
  BY DEF TypeOK
<1> QED BY <1>1 DEF SetRow, Keeps, SameRow, Row

LEMMA RowUnchangedKeeps ==
  ASSUME row' = row, NEW i \in Id, SameFiles(i)
  PROVE  Keeps(i)
BY DEF Keeps, SameRow

LEMMA DiskSame ==
  ASSUME UNCHANGED <<disk, outside>>, NEW i \in Id
  PROVE  SameFiles(i)
BY DEF disk, outside, SameFiles

----------------------------------------------------------------------------
\* The requests, and the steps of run: only Settle completes a row.

LEMMA UsersKeep ==
  ASSUME FilesInv, Users
  PROVE  (\A i \in Id : RowFiles(i))' /\ InHand'
<1> TypeOK /\ Owned /\ WorkerNamed /\ InHand /\ \A i \in Id : RowFiles(i)
  BY DEF FilesInv, ControlInv, Typed
<1>0. row \in [Id -> Row]
  BY DEF TypeOK
<1>i. ASSUME UNCHANGED <<disk, outside, worker>>, Executing => SameRow(Me)
      PROVE  InHand'
  <2>1. CASE Executing
    BY <1>i, <2>1, SameInHand, DiskSame DEF disk, Executing, WorkerNamed
  <2>2. CASE ~Executing
    BY <1>i, <2>2 DEF Executing, InHand
  <2> QED BY <2>1, <2>2
<1>1. ASSUME NEW k \in Id, NEW r \in Request, Enqueue(r, k)
      PROVE  (\A i \in Id : RowFiles(i))' /\ InHand'
  <2>1. ASSUME NEW i \in Id, i # k PROVE Keeps(i)
    BY <1>1, <2>1, OthersKeep, DiskSame DEF Enqueue
  <2>2. row'[k] = NewRow(r, "queued") /\ row[k].state = "absent"
    BY <1>1, <1>0 DEF Enqueue, SetRow
  <2>3. \A n \in Name : file'[k][n] = "none"
    BY <1>1, <2>2 DEF Enqueue, disk, RowFiles
  <2>4. RowFiles(k)'
    BY <2>2, <2>3, NameTyped DEF RowFiles, NewRow, KindOf
  <2>5. \A i \in Id : RowFiles(i)'
    BY <2>1, <2>4, KeepsRow
  <2>6. Executing => Me # k
    BY <2>2 DEF Owned
  <2>7. InHand'
    BY <1>1, <1>i, <2>1, <2>6 DEF Enqueue, Keeps, Executing, WorkerNamed
  <2> QED BY <2>5, <2>7
<1>2. ASSUME NEW k \in Id, Cancel(k) \/ Retry(k)
      PROVE  (\A i \in Id : RowFiles(i))' /\ InHand'
  <2>1. \E s \in {row[k].state, "queued", "running", "failed", "cancelled"}, c \in BOOLEAN :
          SetRow(k, [row[k] EXCEPT !.state = s, !.cancel = c, !.attempts = row[k].attempts])
    <3>1. row[k] \in Row
      BY <1>0
    <3>2. CASE Cancel(k)
      <4>1. row' = [row EXCEPT ![k] = [row[k] EXCEPT !.cancel = TRUE,
                      !.state = IF row[k].state = "queued" THEN "cancelled" ELSE row[k].state]]
        BY <3>2 DEF Cancel, SetRow
      <4> DEFINE s == IF row[k].state = "queued" THEN "cancelled" ELSE row[k].state
      <4>2. [row[k] EXCEPT !.cancel = TRUE, !.state = s]
              = [row[k] EXCEPT !.state = s, !.cancel = TRUE, !.attempts = row[k].attempts]
        BY <3>1 DEF Row
      <4>3. s \in {row[k].state, "queued", "running", "failed", "cancelled"}
        OBVIOUS
      <4>4. SetRow(k, [row[k] EXCEPT !.state = s, !.cancel = TRUE, !.attempts = row[k].attempts])
        BY <4>1, <4>2 DEF SetRow
      <4> QED BY <4>3, <4>4
    <3>3. CASE Retry(k)
      <4>1. row' = [row EXCEPT ![k] = [row[k] EXCEPT !.state = "queued", !.cancel = FALSE]]
        BY <3>3 DEF Retry, SetRow
      <4> QED BY <3>1, <4>1 DEF SetRow, Row
    <3> QED BY <1>2, <3>2, <3>3
  <2>2. \A i \in Id : Keeps(i)
    BY <1>2, <2>1, StateKeeps, DiskSame DEF Cancel, Retry
  <2>3. InHand'
    BY <1>2, <1>i, <2>2 DEF Cancel, Retry, Keeps, Executing, WorkerNamed
  <2> QED BY <2>2, <2>3, KeepsRow
<1> QED BY <1>1, <1>2 DEF Users

LEMMA RunKeeps ==
  ASSUME FilesInv, (\E k \in Id : Pick(k)) \/ Claim \/ Repair \/ Fails \/ Settle \/ Unsaved
  PROVE  (\A i \in Id : RowFiles(i))' /\ InHand'
<1> TypeOK /\ WorkerNamed /\ InHand /\ \A i \in Id : RowFiles(i)
  BY DEF FilesInv, ControlInv, Typed
<1>0. row \in [Id -> Row] /\ worker \in Worker
  BY DEF TypeOK
<1>s. \A i \in Id : SameFiles(i)
  BY DiskSame DEF Pick, Claim, Repair, Fails, Settle, Unsaved
<1>1. CASE (\E k \in Id : Pick(k)) \/ Unsaved
  <2>1. row' = row /\ worker'.phase \in {"idle", "picked"}
    <3>1. ASSUME NEW k \in Id, Pick(k) PROVE row' = row /\ worker'.phase = "picked"
      BY <3>1 DEF Pick, Idle
    <3>2. CASE Unsaved
      BY <3>2 DEF Unsaved, Idle
    <3> QED BY <1>1, <3>1, <3>2
  <2>2. InHand'
    BY <2>1 DEF InHand
  <2> QED BY <1>s, <2>1, <2>2, RowUnchangedKeeps, KeepsRow
<1>2. CASE Repair \/ Fails
  <2>1. row' = row
    BY <1>2 DEF Repair, Fails
  <2>2. /\ worker'.phase = "settle" /\ worker'.id = worker.id
        /\ worker'.result # "none"
        /\ worker'.result = "ok" => ~Cancellable(Me)
    BY <1>2, <1>0 DEF Repair, Fails, Ends, Worker
  <2>3. InHand'
    BY <2>1, <2>2 DEF InHand, Cancellable, KindOf
  <2> QED BY <1>s, <2>1, <2>3, RowUnchangedKeeps, KeepsRow
<1>3. CASE Claim
  <2>1. worker'.phase \in {"idle", "claimed"}
    BY <1>3, <1>0 DEF Claim, Idle, Go, Worker
  <2>2. InHand'
    BY <2>1 DEF InHand
  <2>3. \A i \in Id : Keeps(i)
    <3>1. CASE row' = row
      BY <3>1, <1>s, RowUnchangedKeeps
    <3>2. CASE SetRow(Me, [Mine EXCEPT !.state = "running", !.attempts = @ + 1])
      <4>1. Me \in Id /\ row[Me] \in Row
        BY <1>3, <1>0 DEF Claim, WorkerNamed
      <4>2. SetRow(Me, [row[Me] EXCEPT !.state = "running", !.cancel = row[Me].cancel,
                                       !.attempts = row[Me].attempts + 1])
        BY <3>2, <4>1 DEF SetRow, Row
      <4> QED BY <1>s, <4>1, <4>2, StateKeeps
    <3> QED BY <1>3, <3>1, <3>2 DEF Claim
  <2> QED BY <2>2, <2>3, KeepsRow
<1>4. CASE Settle
  <2>1. Me \in Id /\ row[Me] \in Row /\ worker'.phase = "idle" /\ SetRow(Me, Settled(Mine))
    BY <1>4, <1>0 DEF Settle, WorkerNamed, Idle
  <2>2. InHand'
    BY <2>1 DEF InHand
  <2>3. ASSUME NEW i \in Id, i # Me PROVE RowFiles(i)'
    BY <1>s, <2>1, <2>3, OthersKeep, KeepsRow
  <2>4. SameRow(Me)
    <3>1. /\ Settled(Mine).request = row[Me].request /\ Settled(Mine).input = row[Me].input
          /\ Settled(Mine).dest = row[Me].dest
      BY <2>1 DEF Settled, Row
    <3> QED BY <1>0, <2>1, <3>1 DEF SetRow, SameRow
  <2>5. CASE worker.result \in {"error", "rest"}
    <3>1. Settled(Mine).state \in {"queued", "failed", "cancelled"}
      BY <2>1, <2>5 DEF Settled, AfterError, Row
    <3>2. Keeps(Me)
      BY <1>0, <1>s, <2>1, <2>4, <3>1 DEF SetRow, Keeps
    <3>3. \A i \in Id : Keeps(i) \/ RowFiles(i)'
      BY <2>3, <3>2
    <3> QED BY <2>2, <3>3, KeepsRow
  <2>6. CASE worker.result \notin {"error", "rest"}
    <3>1. row'[Me].state = "completed"
      BY <1>0, <2>1, <2>6 DEF Settled, SetRow, Row
    <3>2. Cancellable(Me) /\ Me \notin touched => Backed(Me)
      <4>1. worker.phase = "settle" /\ worker.result = "ok"
        BY <1>0, <1>4, <2>6 DEF Settle, InHand, Worker
      <4> QED BY <4>1 DEF InHand
    <3>3. ASSUME NEW m \in Id, m = Me PROVE RowFiles(m)'
      <4>1. SameRow(m) /\ SameFiles(m) /\ row'[m].state = "completed"
        BY <1>s, <2>1, <2>4, <3>1, <3>3
      <4>2. KindOf(m)' = KindOf(m) /\ Cancellable(m)' = Cancellable(m)
        BY <4>1 DEF SameRow, KindOf, Cancellable
      <4>3. Backed(m) => Backed(m)'
        BY <4>1, <4>2 DEF SameRow, SameFiles, Backed
      <4> QED BY <3>2, <3>3, <4>1, <4>2, <4>3 DEF RowFiles, SameRow, SameFiles
    <3>5. \A i \in Id : RowFiles(i)'
      BY <2>3, <3>3
    <3> QED BY <2>2, <3>5
  <2> QED BY <2>5, <2>6
<1> QED BY <1>1, <1>2, <1>3, <1>4

----------------------------------------------------------------------------
\* The steps of a render. A row that is being executed is running.

LEMMA MineRunning ==
  ASSUME FilesInv, Executing
  PROVE  /\ Me \in Id /\ row[Me] \in Row /\ row[Me].state = "running"
         /\ row[Me].dest \in Name /\ worker \in Worker
BY DEF FilesInv, ControlInv, Typed, TypeOK, WorkerNamed, Owned, Executing, Row

LEMMA InputSet ==
  ASSUME TypeOK, Me \in Id, row[Me] \in Row,
         SetRow(Me, [Mine EXCEPT !.input = source[Mine.request]])
  PROVE  /\ row'[Me].input \in Version /\ row'[Me].input = source[row[Me].request]
         /\ row'[Me].request = row[Me].request /\ row'[Me].dest = row[Me].dest
         /\ row'[Me].state = row[Me].state
BY DEF TypeOK, SetRow, Row

LEMMA MoveOn ==
  ASSUME worker \in Worker, NEW p \in Phases, Go(p)
  PROVE  /\ worker'.phase = p /\ worker'.id = worker.id /\ worker'.temp = worker.temp
         /\ worker'.result = worker.result
BY DEF Go, Worker

LEMMA RenderKeeps ==
  ASSUME FilesInv, Rendered
  PROVE  (\A i \in Id : RowFiles(i))' /\ InHand'
<1> TypeOK /\ InHand /\ \A i \in Id : RowFiles(i)
  BY DEF FilesInv, ControlInv, Typed
<1>0. Executing
  BY DEF Rendered, Begin, Describe, Choose, Render, Publish, WriteReceipt, At, Executing
<1>m. /\ Me \in Id /\ row[Me] \in Row /\ row[Me].state = "running" /\ row[Me].dest \in Name
      /\ worker \in Worker /\ row \in [Id -> Row] /\ KindOf(Me) = "render"
      /\ file \in [Id -> [Name -> Content]] /\ receipt \in [Id -> [Name -> Receipt]]
  BY <1>0, MineRunning
     DEF TypeOK, Rendered, Begin, Describe, Choose, Render, Publish, WriteReceipt, At
<1>r. ASSUME \A i \in Id : i # Me => Keeps(i),
             row'[Me].request = row[Me].request, row'[Me].state = row[Me].state
      PROVE  \A i \in Id : RowFiles(i)'
  <2>1. ASSUME NEW i \in Id, i = Me PROVE RowFiles(i)'
    BY <1>m, <1>r, <2>1 DEF RowFiles, KindOf
  <2> QED BY <1>r, <2>1, KeepsRow
<1>1. CASE Begin
  <2>1. worker'.phase = "hash"
    BY <1>1, <1>m, MoveOn DEF Begin, Phases
  <2>2. row' = row /\ \A i \in Id : Keeps(i)
    BY <1>1, RowUnchangedKeeps, DiskSame DEF Begin
  <2> QED BY <1>r, <2>1, <2>2 DEF InHand
<1>2. CASE Describe
  <2>1. worker'.phase = "choose" /\ worker'.id = worker.id
    BY <1>2, <1>m, MoveOn DEF Describe, Phases
  <2>2. \A i \in Id : i # Me => Keeps(i)
    BY <1>2, OthersKeep, DiskSame DEF Describe
  <2>3. row'[Me].input # "none"
    BY <1>2, <1>m, InputSet, VersionAssumption DEF Describe
  <2> QED BY <1>2, <1>m, <1>r, <2>1, <2>2, <2>3, InputSet DEF Describe, InHand
<1>3. CASE Choose
  <2>1. CASE Earlier = "result" /\ UNCHANGED row /\ Go("done")
    <3>1. worker'.phase = "done" /\ worker'.id = worker.id
      BY <2>1, <1>m, MoveOn DEF Phases
    <3>2. \A i \in Id : Keeps(i)
      BY <1>3, <2>1, RowUnchangedKeeps, DiskSame DEF Choose
    <3>3. Backed(Me)
      <4>1. Here # "none" /\ receipt[Me][Mine.dest].source = Mine.input
            /\ receipt[Me][Mine.dest].output = Here
        BY <2>1 DEF Earlier
      <4>2. receipt[Me][Mine.dest] \in Receipt
        BY <1>m
      <4>3. receipt[Me][Mine.dest] = NewReceipt(Mine.input, Here)
        BY <4>1, <4>2 DEF Receipt, NewReceipt
      <4> QED BY <4>1, <4>3 DEF Backed, Here
    <3>4. Backed(Me)'
      BY <1>3, <2>1, <3>1, <3>3 DEF Choose, disk, Backed, KindOf
    <3>5. Mine.input # "none"
      BY <1>3 DEF Choose, At, InHand
    <3> QED BY <2>1, <1>r, <3>1, <3>2, <3>4, <3>5 DEF InHand
  <2>2. CASE SetRow(Me, [Mine EXCEPT !.dest = Fresh]) /\ Go("render")
    <3>1. worker'.phase = "render" /\ worker'.id = worker.id
      BY <2>2, <1>m, MoveOn DEF Phases
    <3>2. \A i \in Id : i # Me => Keeps(i)
      BY <1>3, <2>2, OthersKeep, DiskSame DEF Choose
    <3>3. /\ row'[Me].request = row[Me].request /\ row'[Me].state = row[Me].state
          /\ row'[Me].input = row[Me].input
      BY <2>2, <1>m DEF SetRow, Row
    <3>4. Mine.input # "none"
      BY <1>3 DEF Choose, At, InHand
    <3> QED BY <1>r, <3>1, <3>2, <3>3, <3>4 DEF InHand
  <2> QED BY <1>3, <2>1, <2>2 DEF Choose
<1>4. CASE Render
  <2>1. worker'.phase = "link" /\ worker'.id = worker.id /\ worker'.temp = source[Mine.request]
    BY <1>4, <1>m DEF Render, Worker
  <2>2. row' = row /\ partial' = partial /\ \A i \in Id : Keeps(i)
    BY <1>4, RowUnchangedKeeps, DiskSame DEF Render, disk
  <2>3. source[Mine.request] # "none" /\ Mine.input # "none"
    BY <1>4, <1>m, VersionAssumption DEF TypeOK, Row, Render, At, InHand
  <2>4. KindOf(Me)' = "render"
    BY <1>m, <2>1, <2>2 DEF KindOf
  <2> QED BY <1>r, <2>1, <2>2, <2>3, <2>4 DEF InHand
<1>5. CASE Publish
  <2>1. worker'.phase = "receipt" /\ worker'.id = worker.id /\ worker'.temp = worker.temp
    BY <1>5, <1>m, MoveOn DEF Publish, Phases
  <2>2. \A i \in Id : i # Me => Keeps(i)
    BY <1>5 DEF Publish, SetFile, outside, Keeps, SameRow, SameFiles
  <2>3. file'[Me][Mine.dest] = worker.temp
    BY <1>5, <1>m DEF Publish, SetFile
  <2>4. worker.temp # "none" /\ Mine.input # "none"
    BY <1>5, <1>m DEF Publish, At, InHand
  <2>5. row' = row
    BY <1>5 DEF Publish
  <2> QED BY <1>r, <2>1, <2>2, <2>3, <2>4, <2>5 DEF InHand
<1>6. CASE WriteReceipt
  <2>1. worker'.phase = "done" /\ worker'.id = worker.id
    BY <1>6, <1>m, MoveOn DEF WriteReceipt, Phases
  <2>2. \A i \in Id : i # Me => Keeps(i)
    BY <1>6 DEF WriteReceipt, outside, Keeps, SameRow, SameFiles
  <2>3. receipt'[Me][Mine.dest] = NewReceipt(Mine.input, worker.temp)
    BY <1>6, <1>m DEF WriteReceipt
  <2>4. /\ worker.temp # "none" /\ Mine.input # "none"
        /\ Me \notin touched => file[Me][Mine.dest] = worker.temp
    BY <1>6, <1>m DEF WriteReceipt, At, InHand
  <2>5. row' = row /\ file' = file /\ touched' = touched
    BY <1>6 DEF WriteReceipt, outside
  <2>6. Me \notin touched => Backed(Me)'
    BY <2>1, <2>3, <2>4, <2>5 DEF Backed
  <2> QED BY <1>r, <2>1, <2>2, <2>4, <2>5, <2>6 DEF InHand
<1> QED BY <1>1, <1>2, <1>3, <1>4, <1>5, <1>6 DEF Rendered

----------------------------------------------------------------------------
\* The steps of a download, and the end of both.

LEMMA DownloadKeeps ==
  ASSUME FilesInv, Downloaded \/ Done
  PROVE  (\A i \in Id : RowFiles(i))' /\ InHand'
<1> TypeOK /\ InHand /\ \A i \in Id : RowFiles(i)
  BY DEF FilesInv, ControlInv, Typed
<1>0. Executing
  BY DEF Downloaded, Done, Inform, Resume, Fetch, Verify, Deliver, Unlink, At, Executing
<1>m. /\ Me \in Id /\ row[Me] \in Row /\ row[Me].state = "running" /\ row[Me].dest \in Name
      /\ worker \in Worker /\ row \in [Id -> Row] /\ file \in [Id -> [Name -> Content]]
      /\ partial \in [Id -> Partial]
  BY <1>0, MineRunning DEF TypeOK
<1>1. CASE Inform
  <2>0. KindOf(Me) = "download" /\ row[Me].dest = 0
    BY <1>1, <1>m DEF Inform, At, RowFiles
  <2>1. worker'.phase = "choose" /\ worker'.id = worker.id
    BY <1>1, <1>m, MoveOn DEF Inform, Phases
  <2>2. \A i \in Id : i # Me => Keeps(i)
    BY <1>1, OthersKeep, DiskSame DEF Inform
  <2>3. /\ row'[Me].input # "none" /\ row'[Me].input = source[row[Me].request]
        /\ row'[Me].request = row[Me].request /\ row'[Me].dest = 0
        /\ row'[Me].state = "running"
    BY <1>1, <1>m, <2>0, InputSet, VersionAssumption DEF Inform
  <2>4. ASSUME NEW i \in Id, i = Me PROVE RowFiles(i)'
    <3>1. file'[i] = file[i] /\ touched' = touched
      BY <1>1 DEF Inform, disk, outside
    <3>2. i \notin touched => file[i][0] \in {"none", row'[i].input}
      BY <1>1, <2>0, <2>3, <2>4 DEF Inform, SameInput, RowFiles
    <3> QED BY <2>3, <2>4, <3>1, <3>2 DEF RowFiles
  <2> QED BY <2>1, <2>2, <2>3, <2>4, KeepsRow DEF InHand
<1>k. ASSUME row' = row, file' = file, receipt' = receipt, touched' = touched
      PROVE  /\ \A i \in Id : RowFiles(i)'
             /\ worker'.id = worker.id => KindOf(Me)' = KindOf(Me) /\ Backed(Me)' = Backed(Me)
  <2>1. \A i \in Id : Keeps(i)
    BY <1>k DEF Keeps, SameRow, SameFiles
  <2> QED BY <1>k, <2>1, KeepsRow DEF KindOf, Backed
<1>2. CASE Resume
  <2>1. /\ worker'.phase \in {"fetch", "done"} /\ worker'.id = worker.id
        /\ worker'.phase = "done" => Here = Mine.input
    BY <1>2, <1>m, MoveOn DEF Resume, Phases
  <2>2. row' = row /\ file' = file /\ receipt' = receipt /\ touched' = touched
    BY <1>2 DEF Resume, disk, outside
  <2>3. Mine.input # "none" /\ KindOf(Me) = "download"
    BY <1>2 DEF Resume, At, InHand
  <2>4. worker'.phase = "done" => Backed(Me)
    BY <2>1, <2>3 DEF Backed, Here
  <2> QED BY <1>k, <2>1, <2>2, <2>3, <2>4 DEF InHand
<1>3. CASE Fetch
  <2>1. row' = row /\ file' = file /\ receipt' = receipt /\ touched' = touched /\ worker' = worker
    BY <1>3 DEF Fetch, outside
  <2>2. worker.phase = "fetch" /\ Mine.input # "none"
    BY <1>3 DEF Fetch, At, InHand
  <2> QED BY <1>k, <2>1, <2>2 DEF InHand
<1>4. CASE Verify
  <2>1. row' = row /\ file' = file /\ receipt' = receipt /\ touched' = touched
    BY <1>4 DEF Verify, disk, outside
  <2>2. Mine.input # "none" /\ KindOf(Me) = "download"
    BY <1>4 DEF Verify, At, InHand
  <2>3. CASE Verified
    <3>1. worker'.phase = "link" /\ worker'.id = worker.id
      BY <1>4, <2>3, <1>m, MoveOn DEF Verify, Phases
    <3>2. partial'[Me].of = Mine.input
      BY <1>4, <2>3 DEF Verify, Verified, disk
    <3> QED BY <1>k, <2>1, <2>2, <3>1, <3>2 DEF InHand
  <2>4. CASE ~Verified
    <3>1. worker'.phase = "settle" /\ worker'.result = "error"
      BY <1>4, <2>4, <1>m DEF Verify, Ends, Worker
    <3> QED BY <1>k, <2>1, <3>1 DEF InHand
  <2> QED BY <2>3, <2>4
<1>5. CASE Deliver
  <2>0. /\ KindOf(Me) = "download" /\ row[Me].dest = 0 /\ 0 \in Name
        /\ partial[Me].of = Mine.input /\ Mine.input # "none"
    BY <1>5, <1>m, NameTyped DEF Deliver, At, RowFiles, InHand
  <2>1. worker'.phase = "unlink" /\ worker'.id = worker.id
    BY <1>5, <1>m, MoveOn DEF Deliver, Phases
  <2>2. row' = row /\ receipt' = receipt /\ touched' = touched
    BY <1>5 DEF Deliver, outside
  <2>3. file'[Me][0] = row[Me].input /\ \A i \in Id : i # Me => file'[i] = file[i]
    BY <1>5, <1>m, <2>0 DEF Deliver, SetFile
  <2>4. ASSUME NEW i \in Id, i # Me PROVE RowFiles(i)'
    <3>1. Keeps(i)
      BY <2>2, <2>3, <2>4 DEF Keeps, SameRow, SameFiles
    <3> QED BY <3>1, KeepsRow
  <2>5. ASSUME NEW i \in Id, i = Me PROVE RowFiles(i)'
    BY <1>m, <2>0, <2>2, <2>3, <2>5 DEF RowFiles, KindOf
  <2> QED BY <2>0, <2>1, <2>2, <2>3, <2>4, <2>5 DEF InHand
<1>6. CASE Unlink
  <2>1. row' = row /\ file' = file /\ receipt' = receipt /\ touched' = touched
    BY <1>6 DEF Unlink, outside
  <2>2. worker'.phase = "done" /\ worker'.id = worker.id
    BY <1>6, <1>m, MoveOn DEF Unlink, Phases
  <2>3. /\ KindOf(Me) = "download" /\ Mine.input # "none"
        /\ Me \notin touched => Backed(Me)
    BY <1>6 DEF Unlink, At, InHand, Backed
  <2> QED BY <1>k, <2>1, <2>2, <2>3 DEF InHand
<1>7. CASE Done
  <2>1. row' = row /\ file' = file /\ receipt' = receipt /\ touched' = touched
    BY <1>7 DEF Done, disk, outside
  <2>2. worker'.phase = "settle" /\ worker'.id = worker.id /\ worker'.result = "ok"
    BY <1>7, <1>m DEF Done, Ends, Worker
  <2>3. Cancellable(Me)' = Cancellable(Me)
    BY <2>1, <2>2 DEF Cancellable, KindOf
  <2>4. Cancellable(Me) /\ Me \notin touched => Backed(Me)
    BY <1>7 DEF Done, InHand
  <2> QED BY <1>k, <2>1, <2>2, <2>3, <2>4 DEF InHand
<1> QED BY <1>1, <1>2, <1>3, <1>4, <1>5, <1>6, <1>7 DEF Downloaded

----------------------------------------------------------------------------
\* The service and other programs.

LEMMA EnvironmentKeeps ==
  ASSUME FilesInv, Environment \/ UNCHANGED vars
  PROVE  (\A i \in Id : RowFiles(i))' /\ InHand'
<1> TypeOK /\ WorkerNamed /\ Owned /\ InHand /\ \A i \in Id : RowFiles(i)
  BY DEF FilesInv, ControlInv, Typed
<1>t. row \in [Id -> Row] /\ file \in [Id -> [Name -> Content]]
  BY DEF TypeOK
<1>1. CASE \/ UNCHANGED vars \/ Shutdown \/ Stopped \/ Crash
           \/ \E j \in Job : Reserve(j) \/ Release(j)
           \/ \E r \in Request, v \in Version : ChangeSource(r, v)
  <2>1. UNCHANGED <<row, disk, touched>> /\ (worker' = worker \/ worker' = Idle)
    BY <1>1 DEF vars, outside, Shutdown, Stopped, Crash, Reserve, Release, ChangeSource
  <2>2. \A i \in Id : Keeps(i)
    BY <2>1 DEF Keeps, SameRow, SameFiles, disk
  <2>3. ASSUME worker.phase # "idle", worker' = worker PROVE InHand'
    BY <2>1, <2>2, <2>3, SameInHand DEF WorkerNamed, Keeps, disk
  <2>4. ASSUME worker'.phase = "idle" PROVE InHand'
    BY <2>4 DEF InHand
  <2> QED BY <2>1, <2>2, <2>3, <2>4, KeepsRow DEF Idle
<1>2. CASE Start
  <2>1. worker' = worker /\ worker.phase = "idle"
    BY <1>2 DEF Start, Owned
  <2>2. InHand'
    BY <2>1 DEF InHand
  <2>3. ASSUME NEW i \in Id PROVE Keeps(i)
    <3>1. row'[i] = Recovered(row[i]) /\ row[i] \in Row
      BY <1>2, <1>t DEF Start
    <3>2. SameRow(i) /\ row'[i].state \in {row[i].state, "queued", "cancelled"}
      BY <3>1 DEF Recovered, Row, SameRow
    <3> QED BY <1>2, <3>2 DEF Start, Keeps, SameFiles, disk, outside
  <2> QED BY <2>2, <2>3, KeepsRow
<1>3. ASSUME NEW k \in Id, NEW n \in Name, NEW content \in {"none", "other"}, Touch(k, n, content)
      PROVE  (\A i \in Id : RowFiles(i))' /\ InHand'
  <2>1. UNCHANGED <<row, receipt, partial, worker>> /\ touched' = touched \cup {k}
    BY <1>3 DEF Touch
  <2>2. \A i \in Id : i # k => file'[i] = file[i]
    BY <1>3, <1>t DEF Touch
  <2>3. ASSUME NEW i \in Id, i # k PROVE RowFiles(i)' /\ SameRow(i) /\ SameFiles(i)
    <3>1. Keeps(i)
      BY <2>1, <2>2, <2>3 DEF Keeps, SameRow, SameFiles
    <3> QED BY <3>1, KeepsRow DEF Keeps
  <2>4. RowFiles(k)'
    BY <1>3, <2>1 DEF Touch, RowFiles, KindOf
  <2>5. CASE worker.phase # "idle" /\ Me # k
    BY <2>1, <2>3, <2>4, <2>5, SameInHand DEF WorkerNamed
  <2>6. CASE Me = k
    <3>1. Me' = Me /\ Me \in touched' /\ KindOf(Me)' = KindOf(Me)
      BY <2>1, <2>6 DEF KindOf
    <3> QED BY <2>1, <2>3, <2>4, <2>6, <3>1 DEF InHand
  <2>7. CASE worker.phase = "idle"
    BY <2>1, <2>3, <2>4, <2>7 DEF InHand
  <2> QED BY <2>3, <2>4, <2>5, <2>6, <2>7
<1> QED BY <1>1, <1>2, <1>3 DEF Environment

LEMMA FilesInit == Init => FilesInv
<1> SUFFICES ASSUME Init PROVE FilesInv
  OBVIOUS
<1>1. ControlInv
  BY ControlInit
<1>2. \A i \in Id : /\ row[i].state = "absent" /\ row[i].dest = 0
                    /\ \A n \in Name : file[i][n] = "none"
  BY DEF Init, NewRow
<1>3. \A i \in Id : RowFiles(i)
  BY <1>2, NameTyped DEF RowFiles
<1>4. InHand
  BY DEF Init, Idle, InHand
<1> QED BY <1>1, <1>3, <1>4 DEF FilesInv

LEMMA FilesKept ==
  ASSUME FilesInv, [Next]_vars
  PROVE  FilesInv'
<1>1. ControlInv'
  BY ControlKept DEF FilesInv
<1>2. (\A i \in Id : RowFiles(i))' /\ InHand'
  BY UsersKeep, RunKeeps, RenderKeeps, DownloadKeeps, EnvironmentKeeps DEF Next, Run
<1> QED BY <1>1, <1>2 DEF FilesInv

LEMMA FilesInvariant == Spec => []FilesInv
BY FilesInit, FilesKept, PTL DEF Spec

----------------------------------------------------------------------------
\* What a download publishes has the bytes that its first attempt recorded.
THEOREM OperationDownloadVerified == Spec => []DownloadVerified
<1>1. FilesInv => DownloadVerified
  BY DEF FilesInv, RowFiles, DownloadVerified
<1> QED BY <1>1, FilesInvariant, PTL

\* A completed render or download stands on its result, and a render on the
\* receipt of it.
THEOREM OperationCompletedBacked == Spec => []CompletedBacked
<1>1. FilesInv => CompletedBacked
  BY DEF FilesInv, RowFiles, CompletedBacked
<1> QED BY <1>1, FilesInvariant, PTL

\* The service never overwrites or removes a file under a result's name.
THEOREM OperationPublishedKept == Spec => PublishedKept
<1> DEFINE Kept ==
      \A i \in Id, n \in Name :
        file[i][n] # "none" /\ file'[i][n] # file[i][n] => changed' = changed + 1
<1>1. TypeOK /\ [Next]_vars => [Kept]_vars
  <2> SUFFICES ASSUME TypeOK, Next PROVE Kept
    OBVIOUS
  <2>1. CASE Publish \/ Deliver
    <3>1. Here = "none" /\ \E content : SetFile(content)
      BY <2>1 DEF Publish, Deliver, Linkable
    <3> QED BY <3>1 DEF TypeOK, SetFile, Here
  <2>2. CASE \E i \in Id, n \in Name, content \in {"none", "other"} : Touch(i, n, content)
    BY <2>2 DEF Touch, Changes
  <2>3. CASE file' = file
    BY <2>3
  <2> QED
    BY <2>1, <2>2, <2>3
       DEF Next, Users, Enqueue, Cancel, Retry, Run, Pick, Claim, Repair, Fails, Settle, Unsaved,
           Rendered, Begin, Describe, Choose, Render, WriteReceipt, Downloaded, Inform, Resume,
           Fetch, Verify, Unlink, Done, Environment, Reserve, Release, Shutdown, Stopped, Crash,
           Start, ChangeSource, disk
<1> QED BY <1>1, OperationTypeCorrect, PTL DEF Spec, PublishedKept

=============================================================================
