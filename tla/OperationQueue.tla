--------------------------- MODULE OperationQueue ---------------------------
(***************************************************************************)
(* The background operations: the persisted queue with its requests,       *)
(* cancellations and retries, the one worker that takes them (run,         *)
(* execute), and what a render or a download does to files, with a crash   *)
(* or a shutdown of the service between any two of its steps.              *)
(*                                                                         *)
(* Cleanups and recoveries are one step here: modules CleanupFiles and     *)
(* JobLifecycle have their insides. The other tasks of the service only    *)
(* reserve jobs (`busy`), and another program may change files.            *)
(***************************************************************************)
EXTENDS Naturals, FiniteSets

CONSTANTS
  Job,
  Request,      \* the requests the users can make: a job and a task each
  JobOf,        \* the job of each
  Kind,         \* "render", "download", "cleanup" or "recover"
  Version,      \* what a media file can contain
  Chunks,       \* chunks of a download
  Limit,        \* unfinished operations at most (1000)
  MaxRows,      \* bound: rows of the table
  MaxRetries,   \* bound: retries by the users
  MaxRestarts,  \* bound: how often the service goes down
  MaxChanges    \* bound: files that another program changes

ASSUME RequestAssumption ==
  /\ Request # {}
  /\ JobOf \in [Request -> Job]
  /\ Kind \in [Request -> {"render", "download", "cleanup", "recover"}]
ASSUME VersionAssumption == "none" \notin Version /\ "other" \notin Version
ASSUME BoundAssumption ==
  /\ Chunks \in Nat \ {0} /\ Limit \in Nat \ {0} /\ MaxRows \in Nat
  /\ MaxRetries \in Nat /\ MaxRestarts \in Nat /\ MaxChanges \in Nat

VARIABLES
  row,       \* the operations table, in the order of its row numbers
  file,      \* the destinations that each operation may use
  receipt,   \* the receipt beside each, *.operation.json
  partial,   \* the *.partial of each download
  source,    \* the media file, local or remote, that each request reads
  worker,    \* the operation being executed
  busy,      \* jobs that other tasks have reserved
  service,   \* "up", "stopping" (shutdown is cancelled) or "down"
  retries,   \* how many retries there were
  restarts,  \* how often the service went down
  changed,   \* how many files another program has changed
  touched    \* history: the operations whose result it changed

disk == <<file, receipt, partial>>
outside == <<source, changed, touched>>
process == <<busy, service, restarts>>
vars == <<row, disk, outside, worker, process, retries>>

----------------------------------------------------------------------------
Id == 1..MaxRows
Content == Version \cup {"none", "other"}
MaxAttempts == 1 + MaxRetries + MaxRestarts
\* Destinations: the default name, and one with the number of each attempt.
Name == 0..MaxAttempts

States == {"absent", "queued", "running", "completed", "failed", "cancelled"}
Row ==
  [request : Request, state : States, cancel : BOOLEAN, attempts : 0..MaxAttempts,
   input : Version \cup {"none"}, dest : Name]
NewRow(r, state) ==
  [request |-> r, state |-> state, cancel |-> FALSE, attempts |-> 0,
   input |-> "none", dest |-> 0]

Receipt == [source : Version \cup {"none"}, output : Content]
NewReceipt(input, output) == [source |-> input, output |-> output]
NoReceipt == NewReceipt("none", "none")

\* `of` is the content of all chunks, "other" when they differ.
Partial == [length : 0..Chunks, of : Content]
Empty == [length |-> 0, of |-> "none"]
Append(p, chunk) ==
  [length |-> p.length + 1, of |-> IF p.of \in {"none", chunk} THEN chunk ELSE "other"]

\* `temp`: what FFmpeg made.
Phases ==
  {"idle", "picked", "claimed", "hash", "choose", "render", "fetch", "link",
   "receipt", "unlink", "done", "settle"}
Worker ==
  [phase : Phases, id : Id \cup {0}, temp : Content,
   result : {"none", "ok", "rest", "error"}]
Idle == [phase |-> "idle", id |-> 0, temp |-> "none", result |-> "none"]

Terminal(i) == row[i].state \in {"completed", "failed", "cancelled"}
Unfinished == {i \in Id : row[i].state \in {"queued", "running"}}
KindOf(i) == Kind[row[i].request]
JobFor(i) == JobOf[row[i].request]
Cancellable(i) == KindOf(i) \in {"render", "download"}
SetRow(i, new) == row' = [row EXCEPT ![i] = new]

\* A render reserves its job from its beginning to its end.
Rendering ==
  /\ worker.phase \in {"hash", "choose", "render", "link", "receipt", "done"}
  /\ KindOf(worker.id) = "render"
Free(j) == j \notin busy /\ (Rendering => JobFor(worker.id) # j)
\* The worker keeps the lock of `active` from its choice to its claim.
Unlocked == worker.phase # "picked"

Me == worker.id
Mine == row[worker.id]
At(phase, kind) == service # "down" /\ worker.phase = phase /\ KindOf(worker.id) = kind
Go(phase) == worker' = [worker EXCEPT !.phase = phase]
Ends(result) == worker' = [worker EXCEPT !.phase = "settle", !.temp = "none", !.result = result]
\* The token of the operation is a child of the shutdown token.
Cancelled == Mine.cancel \/ service = "stopping"

Init ==
  /\ row = [i \in Id |-> NewRow(CHOOSE r \in Request : TRUE, "absent")]
  /\ file = [i \in Id |-> [n \in Name |-> "none"]]
  /\ receipt = [i \in Id |-> [n \in Name |-> NoReceipt]]
  /\ partial = [i \in Id |-> Empty]
  /\ \E v \in Version : source = [r \in Request |-> v]
  /\ worker = Idle /\ busy = {} /\ service = "up"
  /\ retries = 0 /\ restarts = 0 /\ changed = 0 /\ touched = {}

----------------------------------------------------------------------------
\* The requests of the users: enqueue, cancel, retry.

SameRequest(r) == {i \in Unfinished : row[i].request = r}

\* A request that is unfinished already is answered with its row: no step. A
\* batch is several of these in one transaction.
Enqueue(r, i) ==
  /\ service = "up" /\ Unlocked
  /\ row[i].state = "absent" /\ \A k \in 1..(i - 1) : row[k].state # "absent"
  /\ Kind[r] = "download" \/ Free(JobOf[r])
  /\ SameRequest(r) = {} /\ Cardinality(Unfinished) < Limit
  /\ SetRow(i, NewRow(r, "queued"))
  /\ UNCHANGED <<disk, outside, worker, process, retries>>

\* The token is cancelled in the same critical section of op_active. The
\* shutdown is not asked.
Cancel(i) ==
  /\ service # "down" /\ i \in Unfinished
  /\ row[i].state = "running" => Cancellable(i)
  /\ SetRow(i, [row[i] EXCEPT !.cancel = TRUE,
                              !.state = IF @ = "queued" THEN "cancelled" ELSE @])
  /\ UNCHANGED <<disk, outside, worker, process, retries>>

\* A defect: a retry does not look for the same request.
RetryUnlooked(i) == Cardinality(Unfinished) < Limit
RetryAllowed(i) == SameRequest(row[i].request) = {} /\ Cardinality(Unfinished) < Limit

Retry(i) ==
  /\ service = "up" /\ Unlocked /\ retries < MaxRetries
  /\ row[i].state \in {"failed", "cancelled"}
  /\ KindOf(i) = "download" \/ Free(JobFor(i))
  /\ RetryAllowed(i)
  /\ SetRow(i, [row[i] EXCEPT !.state = "queued", !.cancel = FALSE])
  /\ retries' = retries + 1
  /\ UNCHANGED <<disk, outside, worker, process>>

----------------------------------------------------------------------------
\* run: the worker takes an operation, and writes how it ended.

Ready(i) == row[i].state = "queued" /\ Free(JobFor(i))

\* The oldest that is ready.
Pick(i) ==
  /\ service = "up" /\ worker.phase = "idle"
  /\ Ready(i) /\ \A k \in 1..(i - 1) : ~Ready(k)
  /\ worker' = [Idle EXCEPT !.phase = "picked", !.id = i]
  /\ UNCHANGED <<row, disk, outside, process, retries>>

\* Meanwhile it may have been cancelled, or the service may be stopping.
Claim ==
  /\ service # "down" /\ worker.phase = "picked"
  /\ IF Mine.state = "queued"
     THEN /\ SetRow(Me, [Mine EXCEPT !.state = "running", !.attempts = @ + 1])
          /\ Go("claimed")
     ELSE UNCHANGED row /\ worker' = Idle
  /\ UNCHANGED <<disk, outside, process, retries>>

\* queued_cleanup and queued_recovery. Only a cleanup leaves a rest.
Repair ==
  /\ service # "down" /\ worker.phase = "claimed" /\ ~Cancellable(Me)
  /\ \/ Ends("ok") \/ Ends("error")
     \/ KindOf(Me) = "cleanup" /\ Ends("rest")
  /\ UNCHANGED <<row, disk, outside, process, retries>>

\* Any `?` of a render or a download, a cancelled token among them.
Fails ==
  /\ service # "down" /\ worker.phase \notin {"idle", "picked", "settle"} /\ Cancellable(Me)
  /\ Ends("error")
  /\ UNCHANGED <<row, disk, outside, process, retries>>

\* A defect: the shutdown is asked before the cancellation.
AfterErrorShutdownFirst(o) ==
  IF service = "stopping" THEN "queued" ELSE IF o.cancel THEN "cancelled" ELSE "failed"
AfterError(o) ==
  IF o.cancel THEN "cancelled" ELSE IF service = "stopping" THEN "queued" ELSE "failed"

Settled(o) ==
  IF worker.result = "error" THEN [o EXCEPT !.state = AfterError(o)]
  ELSE [o EXCEPT !.state = IF worker.result = "rest" THEN "failed" ELSE "completed",
                 !.cancel = FALSE]

Settle ==
  /\ service # "down" /\ worker.phase = "settle"
  /\ SetRow(Me, Settled(Mine))
  /\ worker' = Idle
  /\ UNCHANGED <<disk, outside, process, retries>>

\* A defect: the worker does not wait for the store.
GiveUpAtOnce == TRUE
GiveUp == service = "stopping"

\* The store refuses the row until the service stops.
Unsaved ==
  /\ service # "down" /\ worker.phase = "settle" /\ GiveUp
  /\ worker' = Idle
  /\ UNCHANGED <<row, disk, outside, process, retries>>

----------------------------------------------------------------------------
\* execute and render: an export, a clip or a preview.

Begin ==
  /\ At("claimed", "render") /\ service = "up" /\ JobFor(Me) \notin busy
  /\ Go("hash")
  /\ UNCHANGED <<row, disk, outside, process, retries>>

SameInput(o) == o.input \in {"none", source[o.request]}

Describe ==
  /\ At("hash", "render") /\ ~Cancelled /\ SameInput(Mine)
  /\ SetRow(Me, [Mine EXCEPT !.input = source[Mine.request]])
  /\ Go("choose")
  /\ UNCHANGED <<disk, outside, process, retries>>

Here == file[Me][Mine.dest]
\* A file under the name and the receipt beside it: nothing of this input, the
\* result of an interrupted attempt, or that, but changed since. A defect: any
\* file counts as the result.
EarlierByName == IF Here = "none" THEN "none" ELSE "result"
Earlier ==
  IF Here = "none" \/ receipt[Me][Mine.dest].source # Mine.input THEN "none"
  ELSE IF receipt[Me][Mine.dest].output = Here THEN "result" ELSE "changed"

\* The next name of a render, when its name is taken.
Fresh == IF Here = "none" THEN Mine.dest ELSE Mine.attempts

Choose ==
  /\ At("choose", "render")
  /\ \/ Earlier = "result" /\ ~Cancelled /\ UNCHANGED row /\ Go("done")
     \/ Earlier = "none" /\ SetRow(Me, [Mine EXCEPT !.dest = Fresh]) /\ Go("render")
  /\ UNCHANGED <<disk, outside, process, retries>>

\* FFmpeg reads the source again, which may have changed.
Render ==
  /\ At("render", "render") /\ ~Cancelled /\ Here = "none"
  /\ worker' = [worker EXCEPT !.phase = "link", !.temp = source[Mine.request]]
  /\ UNCHANGED <<row, disk, outside, process, retries>>

SetFile(content) == file' = [file EXCEPT ![Me][Mine.dest] = content]
\* hard_link refuses a name that is taken. A defect: rename does not.
LinkableAlways == TRUE
Linkable == Here = "none"

Publish ==
  /\ At("link", "render") /\ Linkable
  /\ SetFile(worker.temp)
  /\ Go("receipt")
  /\ UNCHANGED <<row, receipt, partial, outside, process, retries>>

WriteReceipt ==
  /\ At("receipt", "render")
  /\ receipt' = [receipt EXCEPT ![Me][Mine.dest] = NewReceipt(Mine.input, worker.temp)]
  /\ Go("done")
  /\ UNCHANGED <<row, file, partial, outside, process, retries>>

\* The bytes of the job, its manifest and the event are written.
Done ==
  /\ service # "down" /\ worker.phase = "done"
  /\ Ends("ok")
  /\ UNCHANGED <<row, disk, outside, process, retries>>

----------------------------------------------------------------------------
\* download: a file of a job on another computer.

SetPartial(p) == partial' = [partial EXCEPT ![Me] = p]
\* A defect: a chunk more.
MissingOneMore == partial[Me].length <= Chunks
Missing == partial[Me].length < Chunks

\* The remote service hashes its file, and the row gets the hash.
Inform ==
  /\ At("claimed", "download") /\ ~Cancelled /\ SameInput(Mine)
  /\ SetRow(Me, [Mine EXCEPT !.input = source[Mine.request]])
  /\ Go("choose")
  /\ UNCHANGED <<disk, outside, process, retries>>

Resume ==
  /\ At("choose", "download")
  /\ \/ Here = "none" /\ Go("fetch")
     \/ Here = Mine.input /\ ~Cancelled /\ Go("done")
  /\ UNCHANGED <<row, disk, outside, process, retries>>

\* The remote service refuses a chunk of a file that is not the one it hashed;
\* one that changes under the read, or is written in part, is another content.
Fetch ==
  /\ At("fetch", "download") /\ ~Cancelled
  /\ Missing /\ source[Mine.request] = Mine.input
  /\ \E chunk \in {Mine.input, "other"} : SetPartial(Append(partial[Me], chunk))
  /\ UNCHANGED <<row, file, receipt, outside, worker, process, retries>>

\* A defect: the received bytes are not hashed.
VerifiedByLength == partial[Me].length = Chunks
Verified == partial[Me].of = Mine.input

Verify ==
  /\ At("fetch", "download") /\ ~Cancelled /\ partial[Me].length = Chunks
  /\ IF Verified THEN UNCHANGED disk /\ Go("link")
     ELSE SetPartial(Empty) /\ UNCHANGED <<file, receipt>> /\ Ends("error")
  /\ UNCHANGED <<row, outside, process, retries>>

Deliver ==
  /\ At("link", "download") /\ Linkable
  /\ SetFile(partial[Me].of)
  /\ Go("unlink")
  /\ UNCHANGED <<row, receipt, partial, outside, process, retries>>

Unlink ==
  /\ At("unlink", "download")
  /\ SetPartial(Empty)
  /\ Go("done")
  /\ UNCHANGED <<row, file, receipt, outside, process, retries>>

----------------------------------------------------------------------------
\* Around the worker.

Reserve(j) ==
  /\ service = "up" /\ Unlocked /\ Free(j)
  /\ busy' = busy \cup {j}
  /\ UNCHANGED <<row, disk, outside, worker, service, restarts, retries>>

Release(j) ==
  /\ service # "down" /\ Unlocked /\ j \in busy
  /\ busy' = busy \ {j}
  /\ UNCHANGED <<row, disk, outside, worker, service, restarts, retries>>

GoesDown == restarts < MaxRestarts /\ restarts' = restarts + 1

Shutdown ==
  /\ service = "up" /\ GoesDown
  /\ service' = "stopping"
  /\ UNCHANGED <<row, disk, outside, worker, busy, retries>>

Stopped ==
  /\ service = "stopping" /\ worker.phase = "idle"
  /\ service' = "down" /\ busy' = {}
  /\ UNCHANGED <<row, disk, outside, worker, restarts, retries>>

Crash ==
  /\ \/ service = "up" /\ GoesDown
     \/ service = "stopping" /\ UNCHANGED restarts
  /\ service' = "down" /\ worker' = Idle /\ busy' = {}
  /\ UNCHANGED <<row, disk, outside, retries>>

\* recover_operations. A defect: it leaves the rows as they are.
RecoveredNot(o) == o
Recovered(o) ==
  IF o.state = "running" THEN [o EXCEPT !.state = IF o.cancel THEN "cancelled" ELSE "queued"]
  ELSE o

Start ==
  /\ service = "down"
  /\ row' = [i \in Id |-> Recovered(row[i])]
  /\ service' = "up"
  /\ UNCHANGED <<disk, outside, worker, busy, restarts, retries>>

Changes == changed < MaxChanges /\ changed' = changed + 1

\* The source is another file now.
ChangeSource(r, v) ==
  /\ Changes /\ v # source[r]
  /\ source' = [source EXCEPT ![r] = v]
  /\ UNCHANGED <<row, disk, touched, worker, process, retries>>

\* A file is removed from, replaced at or put under the name of a result.
Touch(i, n, content) ==
  /\ Changes /\ row[i].state # "absent" /\ file[i][n] # content
  /\ file' = [file EXCEPT ![i][n] = content]
  /\ touched' = touched \cup {i}
  /\ UNCHANGED <<row, receipt, partial, source, worker, process, retries>>

----------------------------------------------------------------------------
Users ==
  \E i \in Id : (\E r \in Request : Enqueue(r, i)) \/ Cancel(i) \/ Retry(i)

Rendered == Begin \/ Describe \/ Choose \/ Render \/ Publish \/ WriteReceipt
Downloaded == Inform \/ Resume \/ Fetch \/ Verify \/ Deliver \/ Unlink

Run ==
  \/ \E i \in Id : Pick(i)
  \/ Claim \/ Repair \/ Fails \/ Settle \/ Unsaved
  \/ Rendered \/ Downloaded \/ Done

Environment ==
  \/ \E j \in Job : Reserve(j) \/ Release(j)
  \/ Shutdown \/ Stopped \/ Crash \/ Start
  \/ \E r \in Request, v \in Version : ChangeSource(r, v)
  \/ \E i \in Id, n \in Name, content \in {"none", "other"} : Touch(i, n, content)

Next == Users \/ Run \/ Environment

\* The worker's steps end: FFmpeg and the connection do, and the store accepts
\* a row in the end. A task gives its job back, and the service comes back.
Fairness ==
  /\ WF_vars(Run) /\ WF_vars(Stopped) /\ WF_vars(Start)
  /\ \A j \in Job : WF_vars(Release(j))

Spec == Init /\ [][Next]_vars /\ Fairness

----------------------------------------------------------------------------
TypeOK ==
  /\ row \in [Id -> Row]
  /\ file \in [Id -> [Name -> Content]] /\ receipt \in [Id -> [Name -> Receipt]]
  /\ partial \in [Id -> Partial]
  /\ source \in [Request -> Version] /\ worker \in Worker
  /\ busy \in SUBSET Job /\ service \in {"up", "stopping", "down"}
  /\ retries \in 0..MaxRetries /\ restarts \in 0..MaxRestarts
  /\ changed \in 0..MaxChanges /\ touched \in SUBSET Id

\* The same request is never waiting or running twice, whatever was retried,
\* requeued by a shutdown or recovered ("already waiting or running").
RequestsDistinct ==
  \A i, k \in Unfinished : row[i].request = row[k].request => i = k

\* While the service is up, exactly the operation of the worker is running: no
\* row is left running by the worker, and none ends under it.
RunningOwned ==
  service = "up" =>
    {i \in Id : row[i].state = "running"} =
      IF worker.phase \in {"idle", "picked"} THEN {} ELSE {Me}

\* A cancellation that was accepted is never forgotten: through an error, a
\* shutdown, a crash or a store that refuses the row, only a retry revives it.
CancelKept ==
  [][\A i \in Id : row[i].cancel /\ row'[i].state = "queued" => retries' = retries + 1]_vars

\* What a download has published has the bytes of the input that its first
\* attempt recorded, whatever was resumed, changed or broken on the way.
DownloadVerified ==
  \A i \in Id \ touched :
    row[i].state # "absent" /\ KindOf(i) = "download" => file[i][0] \in {"none", row[i].input}

\* A completed operation has its result, and a render the receipt of it for the
\* recorded input, also when an earlier attempt made it.
Backed(i) ==
  LET result == file[i][row[i].dest] IN
  /\ result # "none"
  /\ KindOf(i) = "render" => receipt[i][row[i].dest] = NewReceipt(row[i].input, result)

CompletedBacked ==
  \A i \in Id \ touched : row[i].state = "completed" /\ Cancellable(i) => Backed(i)

\* README: "Ambiguous files are preserved under their original names": the
\* service never overwrites or removes a file under a result's name.
PublishedKept ==
  [][\A i \in Id, n \in Name :
       file[i][n] # "none" /\ file'[i][n] # file[i][n] => changed' = changed + 1]_vars

\* Unless the jobs stay reserved, every waiting operation comes to an end.
Settles ==
  <>[](busy = {}) => \A i \in Id : row[i].state = "queued" ~> Terminal(i)

=============================================================================
