----------------------- MODULE OperationQueue_proofs -----------------------
(***************************************************************************)
(* What TLAPS proves of the background operations, for any requests, jobs, *)
(* sizes and numbers of retries, restarts and outside changes.             *)
(***************************************************************************)
EXTENDS OperationQueue, TLAPS

----------------------------------------------------------------------------
\* The strengthening.

WorkerNamed == worker.phase # "idle" => worker.id \in Id

\* Each retry and each restart pays for one attempt.
Budget == retries + restarts
Paid(i) ==
  /\ row[i].attempts <= Budget + 1
  /\ row[i].state = "queued" => row[i].attempts <= Budget
  /\ row[i].state = "running" /\ service # "up" => row[i].attempts <= Budget
  /\ worker.phase = "picked" /\ worker.id = i /\ service = "stopping"
       /\ row[i].state = "queued" => row[i].attempts + 1 <= Budget
Attempted == \A i \in Id : Paid(i)

Typed == TypeOK /\ WorkerNamed /\ Attempted

\* Whose row is running, and which rows carry a cancellation.
Executing == worker.phase \notin {"idle", "picked"}
Owned ==
  /\ Executing => row[Me].state = "running"
  /\ service = "up" => \A i \in Id : row[i].state = "running" => Executing /\ i = Me
  /\ service = "down" => worker.phase = "idle"

Uncancelled == \A i \in Id : row[i].state \in {"absent", "queued"} => ~row[i].cancel

ControlInv == Typed /\ Owned /\ RequestsDistinct /\ Uncancelled

----------------------------------------------------------------------------
USE DEF Me, Mine

LEMMA RowTyped ==
  ASSUME TypeOK, NEW i \in Id, NEW new \in Row, SetRow(i, new)
  PROVE  row' \in [Id -> Row]
BY DEF TypeOK, SetRow

LEMMA WorkerTyped ==
  ASSUME TypeOK, NEW p \in Phases, NEW r \in {"ok", "rest", "error"}
  PROVE  /\ Go(p) => worker' \in Worker
         /\ Ends(r) => worker' \in Worker
<1>1. worker \in Worker
  BY DEF TypeOK
<1>2. [worker EXCEPT !.phase = p] \in Worker
  BY <1>1 DEF Worker
<1>3. [worker EXCEPT !.phase = "settle", !.temp = "none", !.result = r] \in Worker
  BY <1>1 DEF Worker, Phases, Content
<1> QED BY <1>2, <1>3 DEF Go, Ends

LEMMA IdleTyped == Idle \in Worker
BY DEF Idle, Worker, Phases, Content

LEMMA FileTyped ==
  ASSUME TypeOK, NEW i \in Id, NEW n \in Name, NEW content \in Content,
         file' = [file EXCEPT ![i][n] = content]
  PROVE  file' \in [Id -> [Name -> Content]]
BY DEF TypeOK

LEMMA PartialTyped ==
  ASSUME TypeOK, Me \in Id, NEW p \in Partial, SetPartial(p)
  PROVE  partial' \in [Id -> Partial]
BY DEF TypeOK, SetPartial

LEMMA NameTyped == 0 \in Name /\ 0 \in 0..MaxAttempts /\ MaxAttempts \in Nat
BY BoundAssumption DEF Name, MaxAttempts

LEMMA InputTyped ==
  ASSUME TypeOK, Me \in Id
  PROVE  [Mine EXCEPT !.input = source[Mine.request]] \in Row
<1>1. row[Me] \in Row /\ source[row[Me].request] \in Version
  BY DEF TypeOK, Row
<1> QED BY <1>1 DEF Row

LEMMA TypeKept ==
  ASSUME Typed, [Next]_vars
  PROVE  TypeOK'
<1> TypeOK /\ WorkerNamed /\ Attempted
  BY DEF Typed
<1> USE DEF TypeOK
<1>1. ASSUME NEW i \in Id, NEW r \in Request, Enqueue(r, i) PROVE TypeOK'
  <2>1. NewRow(r, "queued") \in Row
    BY NameTyped DEF NewRow, Row, States
  <2>2. row' \in [Id -> Row]
    BY <1>1, <2>1, RowTyped DEF Enqueue
  <2> QED BY <1>1, <2>2 DEF Enqueue, disk, outside, process
<1>2. ASSUME NEW i \in Id, Cancel(i) PROVE TypeOK'
  <2>1. [row[i] EXCEPT !.cancel = TRUE, !.state = IF @ = "queued" THEN "cancelled" ELSE @] \in Row
    BY DEF Row, States
  <2>2. row' \in [Id -> Row]
    BY <1>2, <2>1, RowTyped DEF Cancel
  <2> QED BY <1>2, <2>2 DEF Cancel, disk, outside, process
<1>3. ASSUME NEW i \in Id, Retry(i) PROVE TypeOK'
  <2>1. [row[i] EXCEPT !.state = "queued", !.cancel = FALSE] \in Row
    BY DEF Row, States
  <2>2. row' \in [Id -> Row]
    BY <1>3, <2>1, RowTyped DEF Retry
  <2>3. retries' \in 0..MaxRetries
    BY <1>3, BoundAssumption DEF Retry
  <2> QED BY <1>3, <2>2, <2>3 DEF Retry, disk, outside, process
<1>4. ASSUME NEW i \in Id, Pick(i) PROVE TypeOK'
  <2>1. worker' \in Worker
    BY <1>4, IdleTyped DEF Pick, Worker, Phases
  <2> QED BY <1>4, <2>1 DEF Pick, disk, outside, process
<1>5. CASE Claim
  <2>1. Me \in Id
    BY <1>5 DEF Claim, WorkerNamed
  <2>2. CASE Mine.state = "queued"
    <3>1. row[Me].attempts + 1 \in 0..MaxAttempts
      BY <2>1, <2>2, BoundAssumption DEF Attempted, Paid, Budget, Row, MaxAttempts
    <3>2. [Mine EXCEPT !.state = "running", !.attempts = @ + 1] \in Row
      <4>1. row[Me] \in Row
        BY <2>1
      <4> QED BY <4>1, <3>1 DEF Row, States
    <3>3. row' \in [Id -> Row]
      BY <1>5, <2>1, <2>2, <3>2, RowTyped DEF Claim
    <3>4. worker' \in Worker
      BY <1>5, <2>2, WorkerTyped DEF Claim, Phases
    <3> QED BY <1>5, <3>3, <3>4 DEF Claim, disk, outside, process
  <2>3. CASE Mine.state # "queued"
    BY <1>5, <2>3, IdleTyped DEF Claim, disk, outside, process
  <2> QED BY <2>2, <2>3
<1>6. CASE Repair
  <2>1. worker' \in Worker
    BY <1>6, WorkerTyped DEF Repair, Phases
  <2> QED BY <1>6, <2>1 DEF Repair, disk, outside, process
<1>7. CASE Fails
  <2>1. worker' \in Worker
    BY <1>7, WorkerTyped DEF Fails, Phases
  <2> QED BY <1>7, <2>1 DEF Fails, disk, outside, process
<1>8. CASE Settle
  <2>1. Me \in Id
    BY <1>8 DEF Settle, WorkerNamed
  <2>2. Settled(Mine) \in Row
    <3>1. row[Me] \in Row
      BY <2>1
    <3>2. ASSUME NEW s \in States, NEW c \in BOOLEAN
          PROVE  [Mine EXCEPT !.state = s, !.cancel = c] \in Row /\ [Mine EXCEPT !.state = s] \in Row
      BY <3>1 DEF Row
    <3> QED BY <3>2 DEF Settled, AfterError, States
  <2>3. row' \in [Id -> Row]
    BY <1>8, <2>1, <2>2, RowTyped DEF Settle
  <2> QED BY <1>8, <2>3, IdleTyped DEF Settle, disk, outside, process
<1>9. CASE Unsaved
  BY <1>9, IdleTyped DEF Unsaved, disk, outside, process
<1>10. CASE Begin
  <2>1. worker' \in Worker
    BY <1>10, WorkerTyped DEF Begin, Phases
  <2> QED BY <1>10, <2>1 DEF Begin, disk, outside, process
<1>11. CASE Describe
  <2>1. Me \in Id
    BY <1>11 DEF Describe, At, WorkerNamed
  <2>2. row' \in [Id -> Row]
    BY <1>11, <2>1, InputTyped, RowTyped DEF Describe
  <2>3. worker' \in Worker
    BY <1>11, WorkerTyped DEF Describe, Phases
  <2> QED BY <1>11, <2>2, <2>3 DEF Describe, disk, outside, process
<1>12. CASE Choose
  <2>1. Me \in Id
    BY <1>12 DEF Choose, At, WorkerNamed
  <2>2. [Mine EXCEPT !.dest = Fresh] \in Row
    <3>1. row[Me] \in Row
      BY <2>1
    <3>2. Fresh \in Name
      BY <3>1 DEF Row, Fresh, Name
    <3> QED BY <3>1, <3>2 DEF Row
  <2>3. row' \in [Id -> Row]
    BY <1>12, <2>1, <2>2, RowTyped DEF Choose
  <2>4. worker' \in Worker
    BY <1>12, WorkerTyped DEF Choose, Phases
  <2> QED BY <1>12, <2>3, <2>4 DEF Choose, disk, outside, process
<1>13. CASE Render
  <2>1. Me \in Id
    BY <1>13 DEF Render, At, WorkerNamed
  <2>2. source[Mine.request] \in Content
    BY <2>1 DEF Row, Content
  <2>3. worker' \in Worker
    BY <1>13, <2>2 DEF Render, Worker, Phases
  <2> QED BY <1>13, <2>3 DEF Render, disk, outside, process
<1>14. CASE Publish
  <2>1. Me \in Id /\ Mine.dest \in Name /\ worker.temp \in Content
    BY <1>14 DEF Publish, At, WorkerNamed, Row, Worker
  <2>2. file' \in [Id -> [Name -> Content]]
    BY <1>14, <2>1, FileTyped DEF Publish, SetFile
  <2>3. worker' \in Worker
    BY <1>14, WorkerTyped DEF Publish, Phases
  <2> QED BY <1>14, <2>2, <2>3 DEF Publish, outside, process
<1>15. CASE WriteReceipt
  <2>1. Me \in Id /\ Mine.dest \in Name
    BY <1>15 DEF WriteReceipt, At, WorkerNamed, Row
  <2>2. NewReceipt(Mine.input, worker.temp) \in Receipt
    BY <2>1 DEF NewReceipt, Receipt, Row, Worker
  <2>3. receipt' \in [Id -> [Name -> Receipt]]
    BY <1>15, <2>1, <2>2 DEF WriteReceipt
  <2>4. worker' \in Worker
    BY <1>15, WorkerTyped DEF WriteReceipt, Phases
  <2> QED BY <1>15, <2>3, <2>4 DEF WriteReceipt, outside, process
<1>16. CASE Done
  <2>1. worker' \in Worker
    BY <1>16, WorkerTyped DEF Done, Phases
  <2> QED BY <1>16, <2>1 DEF Done, disk, outside, process
<1>17. CASE Inform
  <2>1. Me \in Id
    BY <1>17 DEF Inform, At, WorkerNamed
  <2>2. row' \in [Id -> Row]
    BY <1>17, <2>1, InputTyped, RowTyped DEF Inform
  <2>3. worker' \in Worker
    BY <1>17, WorkerTyped DEF Inform, Phases
  <2> QED BY <1>17, <2>2, <2>3 DEF Inform, disk, outside, process
<1>18. CASE Resume
  <2>1. worker' \in Worker
    BY <1>18, WorkerTyped DEF Resume, Phases
  <2> QED BY <1>18, <2>1 DEF Resume, disk, outside, process
<1>19. CASE Fetch
  <2>1. Me \in Id
    BY <1>19 DEF Fetch, At, WorkerNamed
  <2>2. PICK chunk \in {Mine.input, "other"} : SetPartial(Append(partial[Me], chunk))
    BY <1>19 DEF Fetch
  <2>3. chunk \in Content
    BY <2>1 DEF Row, Content
  <2>4. Append(partial[Me], chunk) \in Partial
    <3>1. partial[Me] \in Partial /\ partial[Me].length < Chunks
      BY <1>19, <2>1 DEF Fetch, Missing
    <3> QED BY <3>1, <2>3, BoundAssumption DEF Append, Partial, Content
  <2>5. partial' \in [Id -> Partial]
    BY <2>1, <2>2, <2>4, PartialTyped
  <2> QED BY <1>19, <2>5 DEF Fetch, outside, process
<1>20. CASE Verify
  <2>1. Me \in Id
    BY <1>20 DEF Verify, At, WorkerNamed
  <2>2. Empty \in Partial
    BY BoundAssumption DEF Empty, Partial, Content
  <2>3. partial' \in [Id -> Partial] /\ file' = file /\ receipt' = receipt
    BY <1>20, <2>1, <2>2, PartialTyped DEF Verify, disk
  <2>4. worker' \in Worker
    BY <1>20, WorkerTyped DEF Verify, Phases
  <2> QED BY <1>20, <2>3, <2>4 DEF Verify, outside, process
<1>21. CASE Deliver
  <2>1. Me \in Id /\ Mine.dest \in Name /\ partial[Me].of \in Content
    BY <1>21 DEF Deliver, At, WorkerNamed, Row, Partial
  <2>2. file' \in [Id -> [Name -> Content]]
    BY <1>21, <2>1, FileTyped DEF Deliver, SetFile
  <2>3. worker' \in Worker
    BY <1>21, WorkerTyped DEF Deliver, Phases
  <2> QED BY <1>21, <2>2, <2>3 DEF Deliver, outside, process
<1>22. CASE Unlink
  <2>1. Me \in Id /\ Empty \in Partial
    BY <1>22, BoundAssumption DEF Unlink, At, WorkerNamed, Empty, Partial, Content
  <2>2. partial' \in [Id -> Partial]
    BY <1>22, <2>1, PartialTyped DEF Unlink
  <2>3. worker' \in Worker
    BY <1>22, WorkerTyped DEF Unlink, Phases
  <2> QED BY <1>22, <2>2, <2>3 DEF Unlink, outside, process
<1>23. ASSUME NEW j \in Job, Reserve(j) PROVE TypeOK'
  BY <1>23 DEF Reserve, disk, outside
<1>24. ASSUME NEW j \in Job, Release(j) PROVE TypeOK'
  BY <1>24 DEF Release, disk, outside
<1>25. CASE Shutdown
  BY <1>25, BoundAssumption DEF Shutdown, GoesDown, disk, outside
<1>26. CASE Stopped
  BY <1>26 DEF Stopped, disk, outside
<1>27. CASE Crash
  BY <1>27, BoundAssumption, IdleTyped DEF Crash, GoesDown, disk, outside
<1>28. CASE Start
  <2>1. ASSUME NEW i \in Id PROVE Recovered(row[i]) \in Row
    BY DEF Recovered, Row, States
  <2>2. row' \in [Id -> Row]
    BY <1>28, <2>1 DEF Start
  <2> QED BY <1>28, <2>2 DEF Start, disk, outside
<1>29. ASSUME NEW r \in Request, NEW v \in Version, ChangeSource(r, v) PROVE TypeOK'
  BY <1>29, BoundAssumption DEF ChangeSource, Changes, disk, process
<1>30. ASSUME NEW i \in Id, NEW n \in Name, NEW content \in {"none", "other"}, Touch(i, n, content)
       PROVE TypeOK'
  <2>1. file' \in [Id -> [Name -> Content]]
    BY <1>30, FileTyped DEF Touch, Content
  <2> QED BY <1>30, <2>1, BoundAssumption DEF Touch, Changes, process
<1>31. CASE UNCHANGED vars
  BY <1>31 DEF vars, disk, outside, process
<1> QED
  BY <1>1, <1>2, <1>3, <1>4, <1>5, <1>6, <1>7, <1>8, <1>9, <1>10, <1>11, <1>12, <1>13, <1>14,
     <1>15, <1>16, <1>17, <1>18, <1>19, <1>20, <1>21, <1>22, <1>23, <1>24, <1>25, <1>26, <1>27,
     <1>28, <1>29, <1>30, <1>31
     DEF Next, Users, Run, Rendered, Downloaded, Environment


----------------------------------------------------------------------------
\* The steps inside an execution, and those outside the service, leave alone what
\* the queue is controlled by.

SameControl ==
  /\ service' = service /\ retries' = retries /\ restarts' = restarts
  /\ \A i \in Id :
       /\ row'[i].request = row[i].request /\ row'[i].state = row[i].state
       /\ row'[i].cancel = row[i].cancel /\ row'[i].attempts = row[i].attempts
  /\ worker' = worker \/ (Executing /\ Executing' /\ worker'.id = worker.id)

Inside ==
  \/ Repair \/ Fails \/ Rendered \/ Downloaded \/ Done
  \/ \E j \in Job : Reserve(j) \/ Release(j)
  \/ \E r \in Request, v \in Version : ChangeSource(r, v)
  \/ \E i \in Id, n \in Name, content \in {"none", "other"} : Touch(i, n, content)
  \/ UNCHANGED vars

LEMMA InsideQuiet ==
  ASSUME Typed, Inside
  PROVE  SameControl
<1> WorkerNamed /\ worker \in Worker /\ row \in [Id -> Row]
  BY DEF Typed, TypeOK
<1>1. ASSUME worker.phase \notin {"idle", "picked"}, UNCHANGED <<process, retries>>,
             \E p \in Phases \ {"idle", "picked"} : worker'.phase = p, worker'.id = worker.id,
             \/ row' = row
             \/ \E v, n : row' = [row EXCEPT ![Me] = [row[Me] EXCEPT !.input = v]]
                          \/ row' = [row EXCEPT ![Me] = [row[Me] EXCEPT !.dest = n]]
      PROVE  SameControl
  <2>1. ASSUME NEW i \in Id
        PROVE  /\ row'[i].request = row[i].request /\ row'[i].state = row[i].state
               /\ row'[i].cancel = row[i].cancel /\ row'[i].attempts = row[i].attempts
    <3>1. row[i] \in Row
      OBVIOUS
    <3>2. CASE row' = row
      BY <3>2
    <3>3. ASSUME NEW v, row' = [row EXCEPT ![Me] = [row[Me] EXCEPT !.input = v]]
          PROVE  /\ row'[i].request = row[i].request /\ row'[i].state = row[i].state
                 /\ row'[i].cancel = row[i].cancel /\ row'[i].attempts = row[i].attempts
      BY <3>1, <3>3 DEF Row
    <3>4. ASSUME NEW n, row' = [row EXCEPT ![Me] = [row[Me] EXCEPT !.dest = n]]
          PROVE  /\ row'[i].request = row[i].request /\ row'[i].state = row[i].state
                 /\ row'[i].cancel = row[i].cancel /\ row'[i].attempts = row[i].attempts
      BY <3>1, <3>4 DEF Row
    <3> QED BY <1>1, <3>2, <3>3, <3>4
  <2> QED BY <1>1, <2>1 DEF SameControl, Executing, process
<1> USE DEF Go, Ends, Phases, Worker, SetRow, At
<1>2. CASE Repair
  BY <1>2, <1>1 DEF Repair
<1>3. CASE Fails
  BY <1>3, <1>1 DEF Fails
<1>4. CASE Begin
  BY <1>4, <1>1 DEF Begin
<1>5. CASE Describe
  BY <1>5, <1>1 DEF Describe
<1>6. CASE Choose
  BY <1>6, <1>1 DEF Choose
<1>7. CASE Render
  BY <1>7, <1>1 DEF Render
<1>8. CASE Publish
  BY <1>8, <1>1 DEF Publish
<1>9. CASE WriteReceipt
  BY <1>9, <1>1 DEF WriteReceipt
<1>10. CASE Done
  BY <1>10, <1>1 DEF Done
<1>11. CASE Inform
  BY <1>11, <1>1 DEF Inform
<1>12. CASE Resume
  BY <1>12, <1>1 DEF Resume
<1>13. CASE Fetch
  BY <1>13 DEF Fetch, SameControl, process
<1>14. CASE Verify
  BY <1>14, <1>1 DEF Verify
<1>15. CASE Deliver
  BY <1>15, <1>1 DEF Deliver
<1>16. CASE Unlink
  BY <1>16, <1>1 DEF Unlink
<1>17. ASSUME NEW j \in Job, Reserve(j) \/ Release(j) PROVE SameControl
  BY <1>17 DEF Reserve, Release, SameControl
<1>18. CASE (\E r \in Request, v \in Version : ChangeSource(r, v)) \/ UNCHANGED vars
            \/ (\E i \in Id, n \in Name, content \in {"none", "other"} : Touch(i, n, content))
  BY <1>18 DEF ChangeSource, Touch, SameControl, process, vars
<1> QED
  BY <1>2, <1>3, <1>4, <1>5, <1>6, <1>7, <1>8, <1>9, <1>10, <1>11, <1>12, <1>13, <1>14, <1>15,
     <1>16, <1>17, <1>18
     DEF Inside, Rendered, Downloaded

LEMMA NextSplit ==
  ASSUME [Next]_vars
  PROVE  \/ Inside
         \/ \E i \in Id : (\E r \in Request : Enqueue(r, i)) \/ Cancel(i) \/ Retry(i) \/ Pick(i)
         \/ Claim \/ Settle \/ Unsaved \/ Shutdown \/ Stopped \/ Crash \/ Start
BY DEF Next, Users, Run, Environment, Inside

LEMMA AttemptedKept ==
  ASSUME Typed, Owned, [Next]_vars
  PROVE  Attempted'
<1> TypeOK /\ WorkerNamed /\ Attempted
  BY DEF Typed
<1>n. /\ retries \in Nat /\ restarts \in Nat /\ service \in {"up", "stopping", "down"}
      /\ worker \in Worker /\ row \in [Id -> Row]
      /\ \A i \in Id : row[i].attempts \in Nat
  BY BoundAssumption DEF TypeOK, Row
<1>p. ASSUME NEW i \in Id PROVE Paid(i)
  BY DEF Attempted
<1> SUFFICES ASSUME NEW i \in Id PROVE Paid(i)'
  BY DEF Attempted
<1> USE <1>n, <1>p DEF Paid, Budget
<1>1. CASE Inside
  BY <1>1, InsideQuiet DEF SameControl, Executing
<1>2. ASSUME NEW k \in Id, NEW r \in Request, Enqueue(r, k) PROVE Paid(i)'
  BY <1>2 DEF Enqueue, SetRow, NewRow, process
<1>3. ASSUME NEW k \in Id, Cancel(k) PROVE Paid(i)'
  <2>1. row[k] \in Row
    OBVIOUS
  <2> QED BY <1>3, <2>1 DEF Cancel, SetRow, process, Row
<1>4. ASSUME NEW k \in Id, Retry(k) PROVE Paid(i)'
  <2>1. row[k] \in Row
    OBVIOUS
  <2> QED BY <1>4, <2>1 DEF Retry, SetRow, process, Row
<1>5. ASSUME NEW k \in Id, Pick(k) PROVE Paid(i)'
  BY <1>5 DEF Pick, process
<1>6. CASE Claim
  <2>1. row[Me] \in Row /\ Me \in Id
    BY <1>6 DEF Claim, WorkerNamed
  <2>2. worker'.phase # "picked"
    BY <1>6 DEF Claim, Go, Idle, Worker
  <2>3. CASE Mine.state = "queued"
    <3>1. /\ row'[Me].attempts = row[Me].attempts + 1 /\ row'[Me].state = "running"
          /\ i # Me => row'[i] = row[i]
      BY <1>6, <2>1, <2>3 DEF Claim, SetRow, Row
    <3>2. row[Me].attempts <= Budget /\ (service # "up" => row[Me].attempts + 1 <= Budget)
      BY <1>6, <2>1, <2>3 DEF Claim
    <3>3. i # Me => (row[i].state = "running" /\ service # "up" => row[i].attempts <= Budget)
      OBVIOUS
    <3> QED BY <1>6, <2>1, <2>2, <3>1, <3>2 DEF Claim, process
  <2>4. CASE Mine.state # "queued"
    BY <1>6, <2>2, <2>4 DEF Claim, process
  <2> QED BY <2>3, <2>4
<1>7. CASE Settle
  <2>1. row[Me] \in Row /\ Me \in Id /\ row[Me].state = "running"
    BY <1>7 DEF Settle, WorkerNamed, Owned, Executing
  <2>2. row'[Me].attempts = row[Me].attempts /\ (i # Me => row'[i] = row[i])
    BY <1>7, <2>1 DEF Settle, SetRow, Settled, Row
  <2>3. row'[Me].state = "queued" => service = "stopping"
    BY <1>7, <2>1 DEF Settle, SetRow, Settled, AfterError, Row
  <2>4. row'[Me].state # "running" /\ worker'.phase = "idle"
    BY <1>7, <2>1 DEF Settle, SetRow, Settled, AfterError, Row, Idle
  <2> QED BY <1>7, <2>1, <2>2, <2>3, <2>4 DEF Settle, process
<1>8. CASE Unsaved \/ Stopped
  BY <1>8 DEF Unsaved, Stopped, process, Idle, GiveUp
<1>9. CASE Shutdown
  BY <1>9 DEF Shutdown, GoesDown
<1>10. CASE Crash
  BY <1>10 DEF Crash, GoesDown, Idle
<1>11. CASE Start
  <2>1. row'[i] = Recovered(row[i]) /\ row[i] \in Row
    BY <1>11 DEF Start
  <2> QED BY <1>11, <2>1 DEF Start, Recovered, Row
<1> QED
  BY <1>1, <1>2, <1>3, <1>4, <1>5, <1>6, <1>7, <1>8, <1>9, <1>10, <1>11, NextSplit

LEMMA OwnedKept ==
  ASSUME Typed, Owned, [Next]_vars
  PROVE  (WorkerNamed /\ Owned)'
<1> TypeOK /\ WorkerNamed
  BY DEF Typed
<1>n. /\ service \in {"up", "stopping", "down"}
      /\ worker \in Worker /\ row \in [Id -> Row]
  BY DEF TypeOK
<1> USE <1>n DEF Owned, WorkerNamed, Executing
<1>1. CASE Inside
  BY <1>1, InsideQuiet DEF SameControl
<1>2. ASSUME NEW k \in Id, NEW r \in Request, Enqueue(r, k) PROVE (WorkerNamed /\ Owned)'
  BY <1>2 DEF Enqueue, SetRow, NewRow, process
<1>3. ASSUME NEW k \in Id, Cancel(k) PROVE (WorkerNamed /\ Owned)'
  <2>1. row[k] \in Row
    OBVIOUS
  <2>2. \A i \in Id : row'[i].state = "running" <=> row[i].state = "running"
    BY <1>3, <2>1 DEF Cancel, SetRow, Row
  <2> QED BY <1>3, <2>2 DEF Cancel, process
<1>4. ASSUME NEW k \in Id, Retry(k) PROVE (WorkerNamed /\ Owned)'
  <2>1. row[k] \in Row
    OBVIOUS
  <2>2. \A i \in Id : row'[i].state = "running" <=> row[i].state = "running"
    BY <1>4, <2>1 DEF Retry, SetRow, Row
  <2> QED BY <1>4, <2>2 DEF Retry, process
<1>5. ASSUME NEW k \in Id, Pick(k) PROVE (WorkerNamed /\ Owned)'
  BY <1>5 DEF Pick, process, Idle
<1>6. CASE Claim
  <2>1. row[Me] \in Row /\ Me \in Id
    BY <1>6 DEF Claim
  <2>2. CASE Mine.state = "queued"
    <3>1. row'[Me].state = "running" /\ \A i \in Id : i # Me => row'[i] = row[i]
      BY <1>6, <2>1, <2>2 DEF Claim, SetRow, Row
    <3>2. worker'.phase = "claimed" /\ worker'.id = worker.id
      BY <1>6, <2>2 DEF Claim, Go, Worker
    <3> QED BY <1>6, <2>1, <3>1, <3>2 DEF Claim, process
  <2>3. CASE Mine.state # "queued"
    BY <1>6, <2>3 DEF Claim, process, Idle
  <2> QED BY <2>2, <2>3
<1>7. CASE Settle
  <2>1. row[Me] \in Row /\ Me \in Id
    BY <1>7 DEF Settle
  <2>2. row'[Me].state # "running" /\ worker' = Idle /\ \A i \in Id : i # Me => row'[i] = row[i]
    BY <1>7, <2>1 DEF Settle, SetRow, Settled, AfterError, Row
  <2> QED BY <1>7, <2>1, <2>2 DEF Settle, process, Idle
<1>8. CASE Unsaved \/ Stopped
  BY <1>8 DEF Unsaved, Stopped, process, Idle, GiveUp
<1>9. CASE Shutdown
  BY <1>9 DEF Shutdown
<1>10. CASE Crash
  BY <1>10 DEF Crash, Idle
<1>11. CASE Start
  <2>1. \A i \in Id : row'[i].state # "running"
    BY <1>11 DEF Start, Recovered, Row
  <2> QED BY <1>11, <2>1 DEF Start, Idle
<1> QED
  BY <1>1, <1>2, <1>3, <1>4, <1>5, <1>6, <1>7, <1>8, <1>9, <1>10, <1>11, NextSplit


LEMMA UncancelledKept ==
  ASSUME Typed, Owned, Uncancelled, [Next]_vars
  PROVE  /\ Uncancelled'
         /\ \A i \in Id : row[i].cancel /\ row'[i].state = "queued" => retries' = retries + 1
<1> TypeOK /\ WorkerNamed
  BY DEF Typed
<1>n. row \in [Id -> Row]
  BY DEF TypeOK
<1> DEFINE Goal(i) ==
      /\ row'[i].state \in {"absent", "queued"} => ~row'[i].cancel
      /\ row[i].cancel /\ row'[i].state = "queued" => retries' = retries + 1
<1> SUFFICES ASSUME NEW i \in Id PROVE Goal(i)
  BY DEF Uncancelled
<1>c. row[i].state \in {"absent", "queued"} => ~row[i].cancel
  BY DEF Uncancelled
<1>r. row[i] \in Row
  BY <1>n
<1>1. CASE Inside
  BY <1>1, <1>c, InsideQuiet DEF SameControl
<1>2. ASSUME NEW k \in Id, NEW r \in Request, Enqueue(r, k) PROVE Goal(i)
  BY <1>2, <1>n, <1>c DEF Enqueue, SetRow, NewRow
<1>3. ASSUME NEW k \in Id, Cancel(k) PROVE Goal(i)
  BY <1>3, <1>n, <1>c, <1>r DEF Cancel, SetRow, Row, Unfinished
<1>4. ASSUME NEW k \in Id, Retry(k) PROVE Goal(i)
  BY <1>4, <1>n, <1>c, <1>r DEF Retry, SetRow, Row
<1>5. CASE Claim
  BY <1>5, <1>n, <1>c, <1>r DEF Claim, SetRow, Row
<1>6. CASE Settle
  <2>1. row[Me] \in Row /\ Me \in Id
    BY <1>6, <1>n DEF Settle, WorkerNamed
  <2>2. \/ row'[Me].state \notin {"absent", "queued"}
        \/ row'[Me].state = "queued" /\ row'[Me].cancel = row[Me].cancel /\ ~row[Me].cancel
    BY <1>6, <1>n, <2>1 DEF Settle, SetRow, Settled, AfterError, Row
  <2>3. i # Me => row'[i] = row[i]
    BY <1>6, <1>n, <2>1 DEF Settle, SetRow
  <2> QED BY <1>c, <2>2, <2>3
<1>7. CASE Unsaved \/ Shutdown \/ Stopped \/ Crash \/ \E k \in Id : Pick(k)
  BY <1>7, <1>c DEF Unsaved, Shutdown, Stopped, Crash, Pick
<1>8. CASE Start
  BY <1>8, <1>c, <1>r DEF Start, Recovered, Row
<1> QED
  BY <1>1, <1>2, <1>3, <1>4, <1>5, <1>6, <1>7, <1>8, NextSplit

LEMMA DistinctKept ==
  ASSUME Typed, Owned, RequestsDistinct, [Next]_vars
  PROVE  RequestsDistinct'
<1> TypeOK /\ WorkerNamed
  BY DEF Typed
<1>n. row \in [Id -> Row]
  BY DEF TypeOK
<1>s. ASSUME Unfinished' \subseteq Unfinished, \A i \in Id : row'[i].request = row[i].request
      PROVE  RequestsDistinct'
  BY <1>s DEF RequestsDistinct, Unfinished
<1>a. ASSUME NEW k \in Id, \A i \in Id : i # k => row'[i] = row[i],
             SameRequest(row'[k].request) = {}
      PROVE  RequestsDistinct'
  BY <1>a DEF RequestsDistinct, SameRequest, Unfinished
<1>1. CASE Inside
  BY <1>1, <1>s, InsideQuiet DEF SameControl, Unfinished
<1>2. ASSUME NEW k \in Id, NEW r \in Request, Enqueue(r, k) PROVE RequestsDistinct'
  <2>1. (\A i \in Id : i # k => row'[i] = row[i]) /\ row'[k].request = r
    BY <1>2, <1>n DEF Enqueue, SetRow, NewRow
  <2> QED BY <1>2, <1>a, <2>1 DEF Enqueue
<1>3. ASSUME NEW k \in Id, Cancel(k) PROVE RequestsDistinct'
  <2>1. row[k] \in Row
    BY <1>n
  <2>2. /\ \A i \in Id : i # k => row'[i] = row[i]
        /\ row'[k].request = row[k].request /\ k \in Unfinished
    BY <1>3, <1>n, <2>1 DEF Cancel, SetRow, Row
  <2> QED BY <1>s, <2>2 DEF Unfinished
<1>4. ASSUME NEW k \in Id, Retry(k) PROVE RequestsDistinct'
  <2>1. row[k] \in Row
    BY <1>n
  <2>2. (\A i \in Id : i # k => row'[i] = row[i]) /\ row'[k].request = row[k].request
    BY <1>4, <1>n, <2>1 DEF Retry, SetRow, Row
  <2> QED BY <1>4, <1>a, <2>2 DEF Retry, RetryAllowed
<1>5. CASE Claim
  <2>1. row[Me] \in Row /\ Me \in Id
    BY <1>5, <1>n DEF Claim, WorkerNamed
  <2>2. /\ \A i \in Id : row'[i].request = row[i].request
        /\ \A i \in Id : i # Me => row'[i] = row[i]
        /\ row[Me].state = "queued" \/ row'[Me] = row[Me]
    <3>1. CASE Mine.state # "queued"
      BY <1>5, <3>1 DEF Claim
    <3>2. CASE Mine.state = "queued"
      <4>1. row' = [row EXCEPT ![Me] = [Mine EXCEPT !.state = "running", !.attempts = @ + 1]]
        BY <1>5, <3>2 DEF Claim, SetRow
      <4>2. [Mine EXCEPT !.state = "running", !.attempts = @ + 1].request = Mine.request
        BY <2>1 DEF Row
      <4> QED BY <1>n, <2>1, <3>2, <4>1, <4>2
    <3> QED BY <3>1, <3>2
  <2> QED BY <1>s, <2>1, <2>2 DEF Unfinished
<1>6. CASE Settle
  <2>1. row[Me] \in Row /\ Me \in Id /\ row[Me].state = "running"
    BY <1>6, <1>n DEF Settle, WorkerNamed, Owned, Executing
  <2>2. /\ \A i \in Id : row'[i].request = row[i].request
        /\ \A i \in Id : i # Me => row'[i] = row[i]
    <3>1. Settled(Mine).request = row[Me].request
      BY <2>1 DEF Settled, Row
    <3>2. row' = [row EXCEPT ![Me] = Settled(Mine)]
      BY <1>6 DEF Settle, SetRow
    <3> QED BY <1>n, <2>1, <3>1, <3>2
  <2> QED BY <1>s, <2>1, <2>2 DEF Unfinished
<1>7. CASE Unsaved \/ Shutdown \/ Stopped \/ Crash \/ \E k \in Id : Pick(k)
  BY <1>7 DEF Unsaved, Shutdown, Stopped, Crash, Pick, RequestsDistinct, Unfinished
<1>8. CASE Start
  <2>1. \A i \in Id : row'[i].request = row[i].request
                      /\ (row'[i].state \in {"queued", "running"} => row[i].state \in {"queued", "running"})
    BY <1>8, <1>n DEF Start, Recovered, Row
  <2> QED BY <1>s, <2>1 DEF Unfinished
<1> QED
  BY <1>1, <1>2, <1>3, <1>4, <1>5, <1>6, <1>7, <1>8, NextSplit

LEMMA ControlInit == Init => ControlInv
<1> SUFFICES ASSUME Init PROVE ControlInv
  OBVIOUS
<1> DEFINE first == CHOOSE r \in Request : TRUE
<1>1. first \in Request
  BY RequestAssumption
<1>2. NewRow(first, "absent") \in Row
  BY <1>1, NameTyped DEF NewRow, Row, States
<1>3. row = [i \in Id |-> NewRow(first, "absent")]
  BY DEF Init
<1>4. TypeOK
  <2>1. NoReceipt \in Receipt /\ Empty \in Partial
    BY BoundAssumption DEF NoReceipt, NewReceipt, Receipt, Empty, Partial, Content
  <2> HIDE DEF first
  <2> QED BY <1>2, <1>3, <2>1, IdleTyped, BoundAssumption DEF Init, TypeOK, Content
<1>5. \A i \in Id : row[i].state = "absent" /\ ~row[i].cancel /\ row[i].attempts = 0
  BY <1>3 DEF NewRow
<1>6. Attempted
  <2>1. retries = 0 /\ restarts = 0 /\ worker.phase = "idle"
    BY DEF Init, Idle
  <2> QED BY <1>5, <2>1 DEF Attempted, Paid, Budget
<1>7. WorkerNamed /\ Owned
  BY <1>5 DEF Init, WorkerNamed, Owned, Executing, Idle
<1>8. RequestsDistinct /\ Uncancelled
  BY <1>5 DEF RequestsDistinct, Unfinished, Uncancelled
<1> QED BY <1>4, <1>6, <1>7, <1>8 DEF ControlInv, Typed

LEMMA ControlKept ==
  ASSUME ControlInv, [Next]_vars
  PROVE  ControlInv'
BY TypeKept, AttemptedKept, OwnedKept, DistinctKept, UncancelledKept DEF ControlInv, Typed

LEMMA ControlInvariant == Spec => []ControlInv
BY ControlInit, ControlKept, PTL DEF Spec

----------------------------------------------------------------------------
\* The variables keep their types; the number of an attempt stays within the
\* bound that the retries and the restarts pay for.
THEOREM OperationTypeCorrect == Spec => []TypeOK
<1>1. ControlInv => TypeOK
  BY DEF ControlInv, Typed
<1> QED BY <1>1, ControlInvariant, PTL

\* The same request is never waiting or running twice.
THEOREM OperationRequestsDistinct == Spec => []RequestsDistinct
<1>1. ControlInv => RequestsDistinct
  BY DEF ControlInv
<1> QED BY <1>1, ControlInvariant, PTL

\* While the service is up, exactly the worker's operation is running.
THEOREM OperationRunningOwned == Spec => []RunningOwned
<1>1. ControlInv => RunningOwned
  BY DEF ControlInv, Typed, WorkerNamed, Owned, Executing, RunningOwned
<1> QED BY <1>1, ControlInvariant, PTL

\* A cancellation that was accepted is undone by a retry only.
THEOREM OperationCancelKept == Spec => CancelKept
<1>1. ControlInv /\ [Next]_vars =>
        [\A i \in Id : row[i].cancel /\ row'[i].state = "queued" => retries' = retries + 1]_vars
  BY UncancelledKept DEF ControlInv
<1> QED BY <1>1, ControlInvariant, PTL DEF Spec, CancelKept

=============================================================================
