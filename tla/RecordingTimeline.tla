-------------------------- MODULE RecordingTimeline --------------------------
(***************************************************************************)
(* What a live recording knows of its own holes. Every attempt notes when  *)
(* it started and when media last came (timeline.rs); what lies between    *)
(* two attempts is a gap of the row. A loop and the end of the recording   *)
(* ask the broadcast's playlist for the media of a gap (fill_gaps,         *)
(* recovery.rs) while attempts go on, stops come and the process crashes.  *)
(* The end of the recording (finish) reads the row twice and then writes   *)
(* the verdict.                                                            *)
(*                                                                         *)
(* Instants are seconds; the media of the second from t is that of t. An   *)
(* abstraction: what is received in a second is taken for the media of     *)
(* that second. The code knows the time of the receipt only and asks the   *)
(* playlist for the times of the broadcast by it; latency and recordings   *)
(* from the beginning, where the two differ, are not modelled.             *)
(***************************************************************************)
EXTENDS Naturals, FiniteSets, FiniteSetsExt

CONSTANTS
  MaxAttempts,  \* bound: attempts of the recording
  Bounds,       \* bounds: the clock, attempts, troubles and rounds of the backup
  Shortest,     \* the shortest gap that is asked for (3)
  Longest       \* gaps from here on are not asked for (3600)

ASSUME TimelineAssumption ==
  /\ MaxAttempts \in Nat \ {0} /\ Shortest \in Nat /\ Longest \in Nat
  /\ Bounds \subseteq
       [time : Nat \ {0}, attempts : 0..MaxAttempts, troubles : Nat, rounds : Nat]

VARIABLES
  bound,   \* what is left of the behaviour's bounds
  time,
  live,    \* the broadcast goes on
  up,      \* the process runs
  row,     \* the job
  task,    \* the recorder's task: where it stands, what it holds
  filler,  \* the one recovery that has the permit: for whom, the gaps it was given
  listed,  \* the loop beside the captures has the job in its list
  media,   \* history: <<attempt, second>>, what was received
  durable  \* media in the ledger of its attempt (checkpoint)

timelineVars == <<bound, time, live, up, row, task, filler, listed, media, durable>>

Time == 1..bound.time
Attempt == 1..MaxAttempts
Never == 0
Final == {"completed", "partial", "stopped", "failed"}

\* A gap is known by the attempt it follows.
NoGap == [status |-> "none", from |-> Never, to |-> Never, evidence |-> {}]
NewRow ==
  [state |-> "waiting", stop |-> FALSE, attempt |-> 0, uncertain |-> FALSE, last |-> Never,
   outputs |-> {},
   attempts |-> [n \in Attempt |-> [start |-> Never, last |-> Never, end |-> Never]],
   gaps |-> [n \in Attempt |-> NoGap]]
NoTask == [phase |-> "idle", clean |-> FALSE, sound |-> TRUE, outputs |-> {}, read |-> <<>>]
NoFiller == [by |-> "none", gaps |-> {}, read |-> <<>>]

TimelineInit ==
  /\ bound \in Bounds
  /\ time = 1 /\ live = TRUE /\ up = TRUE /\ row = NewRow /\ task = NoTask /\ filler = NoFiller
  /\ listed = FALSE
  /\ media = {} /\ durable = {}

TimelineTypeOK ==
  /\ row.state \in Final \cup {"waiting", "recording", "reconnecting", "finalizing"}
  /\ row.attempt \in 0..MaxAttempts /\ row.outputs \subseteq {"attempt", "gap"} \X Attempt
  /\ \A n \in Attempt :
       /\ row.gaps[n].status \in {"none", "unrecovered", "collected"}
       /\ row.gaps[n].from <= row.gaps[n].to /\ row.gaps[n].evidence \subseteq Time
  /\ task.phase \in {"idle", "capturing", "ended", "deciding", "verifying", "filling", "merging",
                     "reading", "writing"}
  /\ filler.by \in {"none", "loop", "finish"} /\ filler.gaps \subseteq Attempt
  /\ listed \in BOOLEAN
  /\ durable \subseteq media

----------------------------------------------------------------------------
\* timeline.rs

Gaps(r) == {n \in Attempt : r.gaps[n].status # "none"}
Length(g) == g.to - g.from
Fillable(r) ==
  {n \in Gaps(r) : r.gaps[n].status = "unrecovered" /\ Length(r.gaps[n]) \in Shortest..(Longest - 1)}

\* Where the hole before an attempt begins, as the row knows it.
HoleStart(r, n) ==
  LET before == r.attempts[n] IN
  IF before.last # Never THEN before.last
  ELSE IF r.last # Never THEN r.last
  ELSE IF before.end # Never THEN before.end ELSE before.start
Gap(from, to) == [status |-> "unrecovered", from |-> from, to |-> to, evidence |-> {}]

NoteAttemptStart(r, n, at) ==
  LET from == HoleStart(r, n - 1)
      marked == IF n > 1 /\ (at - from >= 1 \/ r.uncertain)
                THEN [r EXCEPT !.gaps[n - 1] = Gap(from, at)] ELSE r
  IN [marked EXCEPT !.attempts[n].start = at]
NoteAttemptEnd(r, n, at) == [r EXCEPT !.attempts[n].end = at]

\* A defect: the delay until the first media of an attempt is not counted.
NoteMediaAtStart(r, n, at) == [r EXCEPT !.attempts[n].last = at, !.last = at]
\* The first media of an attempt ends the gap before it.
NoteMedia(r, n, at) ==
  LET first == r.attempts[n].last = Never /\ n > 1 /\ n - 1 \in Gaps(r)
      ended == IF first THEN [r EXCEPT !.gaps[n - 1].to = at] ELSE r
  IN [ended EXCEPT !.attempts[n].last = at, !.last = at]

\* mark_gap_fill, and the file among the outputs.
Filled(r, n, got) ==
  LET named == [r EXCEPT !.outputs = @ \cup {<<"gap", n>>}, !.uncertain = TRUE] IN
  IF r.gaps[n].status # "unrecovered" THEN named
  ELSE [named EXCEPT !.gaps[n].status = "collected", !.gaps[n].evidence = got]

----------------------------------------------------------------------------
\* recovery.rs: a playlist is the seconds it has, in order.

Contiguous(s) == \A t \in Time : (\E a, b \in s : a < t /\ t < b) => t \in s
Overlapping(playlist, from, to) == {t \in playlist : t < to /\ t + 1 > from}

\* What is selected for an interval, or nothing. A defect: the end is not checked.
SelectedOpenEnded(playlist, from, to) ==
  LET s == Overlapping(playlist, from, to) IN
  IF to > from /\ Contiguous(s) /\ s # {} /\ Min(s) <= from THEN {s} ELSE {}
Selected(playlist, from, to) ==
  LET s == Overlapping(playlist, from, to) IN
  IF to > from /\ Contiguous(s) /\ s # {} /\ Min(s) <= from /\ Max(s) + 1 >= to THEN {s} ELSE {}
Parsed(playlist) == Contiguous(playlist)

----------------------------------------------------------------------------
\* The recorder (run_job, capture.rs).

At(phase) == up /\ task.phase = phase
Here == UNCHANGED <<bound, time, live, up, filler, listed, media, durable>>
Go(phase) == task' = [task EXCEPT !.phase = phase]

Trouble == bound.troubles > 0 /\ bound' = [bound EXCEPT !.troubles = @ - 1]
Troubled == Trouble /\ UNCHANGED <<time, live, up, filler, listed, media, durable>>

FinishWith(clean) ==
  /\ task' = [NoTask EXCEPT !.phase = "verifying", !.clean = clean]
  /\ row' = [row EXCEPT !.state = "finalizing"]

\* The next attempt, when the inspection says that the broadcast goes on.
Due == At("idle") /\ row.state \in {"waiting", "reconnecting"} /\ ~row.stop
BeginAttempt ==
  /\ Due /\ live /\ row.attempt < bound.attempts
  /\ LET n == row.attempt + 1
         begun == [row EXCEPT !.attempt = n, !.state = "recording", !.uncertain = @ \/ n > 1]
     IN row' = NoteAttemptStart(begun, n, time)
  /\ Go("capturing") /\ Here
BroadcastOver ==
  /\ Due /\ ~live
  /\ IF row.attempt > 0 THEN FinishWith(FALSE)
     ELSE row' = [row EXCEPT !.state = "failed"] /\ UNCHANGED task
  /\ Here

Receive ==
  /\ At("capturing") /\ live /\ row.state = "recording"
  /\ row' = NoteMedia(row, row.attempt, time)
  /\ media' = media \cup {<<row.attempt, time>>}
  /\ UNCHANGED <<bound, time, live, up, task, filler, listed, durable>>
\* checkpoint: closed fragments are synced and go into the ledger.
Checkpoint ==
  /\ At("capturing") /\ durable' = media /\ durable' # durable
  /\ UNCHANGED <<bound, time, live, up, row, task, filler, listed, media>>
\* The engine reports a loss, or a segment lacks a track.
LossReported ==
  /\ At("capturing") /\ row' = [row EXCEPT !.uncertain = TRUE] /\ row' # row
  /\ UNCHANGED task /\ Troubled
\* The engine has the media it wants and merges its tracks.
EngineMerges ==
  /\ At("capturing") /\ row.state = "recording" /\ row' = [row EXCEPT !.state = "finalizing"]
  /\ UNCHANGED task /\ Here
\* Cleanly; or interrupted by a stop, a stall, a full disk, an error.
CaptureEnds ==
  /\ At("capturing")
  /\ \E clean \in BOOLEAN : task' = [task EXCEPT !.phase = "ended", !.clean = clean /\ ~row.stop]
  /\ durable' = media
  /\ UNCHANGED <<bound, time, live, up, row, filler, listed, media>>
AttemptEnds ==
  /\ At("ended") /\ row' = NoteAttemptEnd(row, row.attempt, time) /\ Go("deciding") /\ Here

Reconnect ==
  /\ row' = [row EXCEPT !.state = "reconnecting", !.uncertain = TRUE] /\ task' = NoTask
Decide ==
  /\ At("deciding") /\ Here
  /\ \/ row.stop /\ FinishWith(FALSE)
     \/ ~row.stop /\ task.clean /\ ~live /\ FinishWith(TRUE)
     \/ ~row.stop /\ Reconnect  \* ended early, or the inspection fails
     \/ ~row.stop /\ FinishWith(FALSE)  \* after the last retry

\* finish
Verify ==
  /\ At("verifying")
  /\ \E sound \in BOOLEAN :
       /\ task' = [task EXCEPT !.phase = "filling", !.sound = sound]
       /\ row' = [row EXCEPT !.uncertain = @ \/ ~sound]
  /\ Here
\* discover_outputs and salvage_attempt: of every attempt that has closed media,
\* or of none for which it fails.
Merge ==
  /\ At("merging")
  /\ \E got \in SUBSET {m[1] : m \in durable} :
       task' = [task EXCEPT !.phase = "reading", !.outputs = {<<"attempt", n>> : n \in got}]
  /\ UNCHANGED row /\ Here
ReadForVerdict ==
  /\ At("reading") /\ task' = [task EXCEPT !.phase = "writing", !.read = row]
  /\ UNCHANGED row /\ Here
Evidence(r) == {<<"gap", n>> : n \in {k \in Attempt : r.gaps[k].status = "collected"}}
Verdict(outputs) ==
  IF /\ task.sound /\ task.clean /\ ~task.read.stop /\ ~task.read.uncertain
     /\ task.read.attempt = 1 /\ Gaps(task.read) = {} /\ outputs # {}
  THEN "completed"
  ELSE IF task.read.stop THEN "stopped" ELSE IF row.attempt > 0 THEN "partial" ELSE "failed"
WriteVerdict ==
  /\ At("writing")
  /\ LET outputs == task.outputs \cup Evidence(task.read) IN
     row' = [row EXCEPT !.state = Verdict(outputs), !.outputs = outputs,
                        !.uncertain = @ \/ Gaps(task.read) # {}]
  /\ task' = NoTask /\ Here
\* Any error of the task.
TaskFails ==
  /\ up /\ task.phase # "idle" /\ (task.phase = "filling" => filler.by # "finish")
  /\ row' = [row EXCEPT !.state =
               IF row.attempt > 0 /\ (row.state = "finalizing" \/ row.stop) THEN "partial" ELSE "failed"]
  /\ task' = NoTask /\ Troubled

----------------------------------------------------------------------------
\* fill_gaps: with the permit, from a copy of the gaps.

Fills(by) == filler' = [by |-> by, gaps |-> Fillable(row), read |-> row.gaps]
Elsewhere == UNCHANGED <<bound, time, live, up, task, listed, media, durable>>
\* recover_gaps lists the jobs that record; it comes to this one when it is done
\* with those before it, whatever the job is doing by then.
LoopLists ==
  /\ up /\ ~listed /\ filler.by # "loop"
  /\ row.state = "recording" /\ ~row.stop /\ Fillable(row) # {}
  /\ listed' = TRUE /\ UNCHANGED <<bound, time, live, up, row, task, filler, media, durable>>
LoopTakes ==
  /\ up /\ listed /\ listed' = FALSE
  /\ IF filler.by = "none" /\ ~row.stop /\ Fillable(row) # {} THEN Fills("loop")
     ELSE UNCHANGED filler
  /\ UNCHANGED <<bound, time, live, up, row, task, media, durable>>
FinishTakes ==
  /\ At("filling") /\ filler.by # "finish"
  /\ IF filler.by = "none" /\ ~row.stop /\ Fillable(row) # {}
     THEN Fills("finish") /\ UNCHANGED task
     ELSE Go("merging") /\ UNCHANGED filler
  /\ UNCHANGED <<bound, time, live, up, row, listed, media, durable>>
\* One gap: what the playlist has of it, or an error, or a stop.
FillOne ==
  /\ up /\ filler.gaps # {} /\ ~row.stop
  /\ LET n == Min(filler.gaps)
         gap == filler.read[n]
         found == UNION {Selected(p, gap.from, gap.to) :
                           p \in {s \in SUBSET (1..(time - 1)) : Parsed(s)}}
     IN \/ \E got \in found : row' = Filled(row, n, got)
        \/ UNCHANGED row
  /\ filler' = [filler EXCEPT !.gaps = @ \ {Min(@)}]
  /\ Elsewhere
FillEnds ==
  /\ up /\ filler.by # "none" /\ (filler.gaps = {} \/ row.stop)
  /\ filler' = NoFiller
  /\ IF filler.by = "finish" THEN Go("merging") ELSE UNCHANGED task
  /\ UNCHANGED <<bound, time, live, up, row, listed, media, durable>>

----------------------------------------------------------------------------
\* The users, the process, the world.

Stop ==
  /\ up /\ row.state \notin Final /\ ~row.stop
  /\ row' = [row EXCEPT !.stop = TRUE, !.state =
               IF task.phase # "idle" THEN @ ELSE IF row.attempt > 0 THEN "finalizing" ELSE "stopped"]
  /\ UNCHANGED task /\ Troubled
\* The scheduler finishes what was stopped between attempts.
FinishStopped ==
  /\ At("idle") /\ row.attempt > 0 /\ row.state = "finalizing" /\ row.stop
  /\ FinishWith(FALSE) /\ Here
\* A user has what is there repaired.
Repair ==
  /\ At("idle") /\ row.attempt > 0 /\ row.state \in Final
  /\ FinishWith(FALSE) /\ Troubled
Retry ==
  /\ At("idle") /\ row.state \in Final
  /\ row' = [row EXCEPT !.state = "waiting", !.stop = FALSE]
  /\ UNCHANGED task /\ Troubled

\* recover_interrupted at the start.
Crash ==
  /\ up /\ up' = FALSE /\ task' = NoTask /\ filler' = NoFiller /\ listed' = FALSE
  /\ Trouble
  /\ UNCHANGED <<time, live, row, media, durable>>
Start ==
  /\ ~up /\ up' = TRUE
  /\ row' = IF row.state \in Final \/ (row.state = "finalizing" /\ row.stop) THEN row
            ELSE [row EXCEPT !.uncertain = TRUE, !.state =
                    IF ~row.stop THEN "waiting"
                    ELSE IF row.attempt > 0 THEN "finalizing" ELSE "stopped"]
  /\ UNCHANGED <<bound, time, live, task, filler, listed, media, durable>>

Tick ==
  /\ time < bound.time /\ time' = time + 1
  /\ UNCHANGED <<bound, live, up, row, task, filler, listed, media, durable>>
BroadcastEnds ==
  /\ live /\ live' = FALSE
  /\ UNCHANGED <<bound, time, up, row, task, filler, listed, media, durable>>

TimelineSteps ==
  \/ BeginAttempt \/ BroadcastOver \/ Receive \/ Checkpoint \/ LossReported \/ EngineMerges \/ CaptureEnds
  \/ AttemptEnds \/ Decide \/ Verify \/ Merge \/ ReadForVerdict \/ WriteVerdict \/ TaskFails
  \/ LoopLists \/ LoopTakes \/ FinishTakes \/ FillOne \/ FillEnds \/ Stop \/ FinishStopped \/ Repair \/ Retry
  \/ Start \/ Tick \/ BroadcastEnds

----------------------------------------------------------------------------
\* Properties

\* What was received last before an attempt, and first from it on.
LastBefore(n) == {Max({m[2] : m \in x}) : x \in {{m \in media : m[1] <= n}} \ {{}}}
FirstAfter(n) == {Min({m[2] : m \in x}) : x \in {{m \in media : m[1] > n}} \ {{}}}

\* Every hole in the reception between two attempts is inside a gap of the row:
\* over crashes, attempts that receive nothing, manual retries and recoveries
\* (note_attempt_start, note_media_received).
HolesListed ==
  \A n \in Attempt :
    \A a \in LastBefore(n), b \in FirstAfter(n) :
      b > a => \E k \in Gaps(row) : row.gaps[k].from <= a /\ row.gaps[k].to >= b

\* A gap counts as collected only with media of all that was missing when the next
\* attempt started, from the last that was received before it (fill_gaps,
\* select_segments). The outage ends later, with the first media of an attempt: that
\* rest is CollectedIsWhole's.
CollectedIsHeld ==
  \A n \in Attempt :
    row.gaps[n].status = "collected" =>
      \A a \in LastBefore(n) : a..(row.attempts[n + 1].start - 1) \subseteq row.gaps[n].evidence

\* Together: no outage between attempts is forgotten, and none is closed without
\* media of its part before the next attempt.
OutagesAccounted == HolesListed /\ CollectedIsHeld

\* What a test says of a gap and the desktop shows of it: it lasts until the first
\* media of the next attempt, the delay after the attempt's start included, and it
\* is collected when the playlist had all of it (note_media_received, mark_gap_fill).
CollectedIsWhole ==
  \A n \in Attempt :
    row.gaps[n].status = "collected" =>
      row.gaps[n].from..(row.gaps[n].to - 1) \subseteq row.gaps[n].evidence

=============================================================================
