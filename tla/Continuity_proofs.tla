-------------------------- MODULE Continuity_proofs --------------------------
(***************************************************************************)
(* For every extent of a recording, over any number of attempts, rounds,   *)
(* crashes and losses of the volume: the backup names only what it has,    *)
(* and no outage between two attempts is forgotten or closed without the   *)
(* media of its part before the next attempt.                              *)
(*                                                                         *)
(* Of the backup, the invariant says how far a round has got. What the     *)
(* recorder does to the ledgers meanwhile does not matter, because the     *)
(* round lists the copy that it has gone through.                          *)
(*                                                                         *)
(* Of the timeline, it says what the row knows of the media (MediaOK) and  *)
(* that there is a gap after each attempt but the last, which begins no    *)
(* later than the media before it ended and ends no earlier than the media *)
(* of the next attempt began (GapsOK); a recovery works on copies that     *)
(* begin where the gaps of the row do (FillerOK).                          *)
(***************************************************************************)
EXTENDS Continuity, TLAPS, WellFoundedInduction

----------------------------------------------------------------------------
\* The backup.

Shape ==
  /\ mirror = [phase |-> mirror.phase, left |-> mirror.left, attempt |-> mirror.attempt,
               frozen |-> mirror.frozen, todo |-> mirror.todo, outputs |-> mirror.outputs,
               final |-> mirror.final]
  /\ backup = [files |-> backup.files, results |-> backup.results,
               ledger |-> backup.ledger, outputs |-> backup.outputs]
Progress ==
  /\ mirror.phase = "copying" => mirror.frozen \ mirror.todo \subseteq backup.files
  /\ mirror.phase = "outputs" => mirror.outputs \ mirror.todo \subseteq backup.results
MirrorInv == Shape /\ Progress /\ MirrorBacked

LEMMA MirrorInvInit == Init => MirrorInv
BY DEF Init, BackupInit, NoRound, MirrorInv, Shape, Progress, MirrorBacked

LEMMA MirrorInvStep == MirrorInv /\ [Next]_vars => MirrorInv'
<1> SUFFICES ASSUME MirrorInv, [Next]_vars PROVE MirrorInv'
  OBVIOUS
<1> USE DEF MirrorInv, Shape, Progress, MirrorBacked
<1>1. CASE UNCHANGED backupVars
  BY <1>1 DEF backupVars
<1>2. CASE Killed
  BY <1>2 DEF Killed, NoRound
<1>3. CASE BeginRound
  BY <1>3 DEF BeginRound, NoRound
<1>4. CASE ReadLedger
  <2>1. PICK n \in mirror.left :
          mirror' = [mirror EXCEPT !.phase = "copying", !.left = @ \ {n}, !.attempt = n,
                                   !.frozen = LedgerOf(n), !.todo = LedgerOf(n)]
    BY <1>4 DEF ReadLedger
  <2>2. UNCHANGED backup
    BY <1>4 DEF ReadLedger
  <2> QED
    BY <2>1, <2>2
<1>5. CASE CopyFile
  <2>1. PICK f \in mirror.todo :
          /\ Mirroring("copying") /\ Onto([backup EXCEPT !.files = @ \cup {f}])
          /\ Round("copying", mirror.todo \ {f})
    BY <1>5 DEF CopyFile
  <2> QED
    BY <2>1 DEF Mirroring, Onto, Round
<1>6. CASE CopyOutput
  <2>1. PICK o \in mirror.todo :
          /\ Mirroring("outputs") /\ Onto([backup EXCEPT !.results = @ \cup {o}])
          /\ Round("outputs", mirror.todo \ {o})
    BY <1>6 DEF CopyOutput
  <2> QED
    BY <2>1 DEF Mirroring, Onto, Round
<1>7. CASE PublishLedger
  BY <1>7 DEF PublishLedger, Mirroring, Onto, Round, Listed
<1>8. CASE LedgersRead
  BY <1>8 DEF LedgersRead, Mirroring, Round
<1>9. CASE PublishRow
  BY <1>9 DEF PublishRow, Mirroring, Onto, Round
<1>10. CASE RoundFails
  BY <1>10 DEF RoundFails, Round
<1>11. CASE Report
  BY <1>11 DEF Report, NoRound
<1>12. CASE Unplug \/ Plug
  BY <1>12 DEF Unplug, Plug
<1>13. CASE ListFolders
  BY <1>13 DEF ListFolders, Mirroring
<1> QED
  BY <1>1, <1>2, <1>3, <1>4, <1>5, <1>6, <1>7, <1>8, <1>10, <1>11, <1>12, <1>13, <1>9
  DEF Next, Recording, MirrorSteps, vars

\* The backup's ledger and its row name only files whose copies were verified,
\* whatever is recorded, stopped or lost while a round goes on
\* (mirror_committed, mirror_job).
THEOREM BackupIsBacked == Spec => []MirrorBacked
<1>1. MirrorInv => MirrorBacked
  BY DEF MirrorInv
<1> QED
  BY <1>1, MirrorInvInit, MirrorInvStep, PTL DEF Spec

----------------------------------------------------------------------------
\* The timeline.

\* The least of some naturals is one of them.
LEMMA LeastOne ==
  ASSUME NEW S \in SUBSET Nat, S # {}
  PROVE  Min(S) \in S /\ \A y \in S : Min(S) =< y
<1> DEFINE R == OpToRel(<, Nat)
<1>1. \A x, y \in Nat : y < x => <<y, x>> \in R
  BY DEF OpToRel
<1>2. IsWellFoundedOn(R, Nat)
  BY NatLessThanWellFounded
<1> HIDE DEF R
<1>3. PICK x \in S : \A y \in S : ~(<<y, x>> \in R)
  BY <1>2, WFMin
<1>4. ASSUME NEW y \in S PROVE x =< y
  <2>1. x \in Nat /\ y \in Nat
    OBVIOUS
  <2>2. ~(y < x)
    BY <1>1, <1>3, <2>1
  <2> QED
    BY <2>1, <2>2
<1> QED
  BY <1>4 DEF Min

\* And the greatest, when they are bounded: it is their least upper bound.
LEMMA GreatestOne ==
  ASSUME NEW S \in SUBSET Nat, S # {}, NEW b \in Nat, \A y \in S : y =< b
  PROVE  Max(S) \in S /\ \A y \in S : y =< Max(S)
<1> DEFINE B == {x \in Nat : \A y \in S : y =< x}
           m == Min(B)
<1>1. m \in B /\ \A x \in B : m =< x
  <2>1. B \in SUBSET Nat /\ b \in B
    OBVIOUS
  <2> HIDE DEF B
  <2> QED
    BY <2>1, LeastOne
<1> HIDE DEF m
<1>2. m \in S
  <2> SUFFICES ASSUME m \notin S PROVE FALSE
    OBVIOUS
  <2>1. m \in Nat /\ \A y \in S : y \in Nat /\ y < m
    BY <1>1
  <2>2. m - 1 \in Nat /\ \A y \in S : y =< m - 1
    <3>1. PICK y \in S : y \in Nat /\ y < m
      BY <2>1
    <3> QED
      BY <2>1, <3>1
  <2>3. m - 1 \in B
    BY <2>2
  <2>4. m <= m - 1
    BY <2>3, <1>1
  <2> QED
    BY <2>1, <2>4
<1>3. \A y \in S : m >= y
  BY <1>1
<1> QED
  BY <1>2, <1>3 DEF Max

\* What is selected of a playlist for an interval has all of it
\* (select_segments).
LEMMA SelectedCovers ==
  ASSUME bound.time \in Nat, NEW p \in SUBSET Time, NEW from \in Nat, NEW to \in Nat,
         NEW s \in Selected(p, from, to)
  PROVE  s \subseteq Time /\ from..(to - 1) \subseteq s
<1>1. /\ s \subseteq Time /\ s # {} /\ Contiguous(s)
      /\ Min(s) <= from /\ Max(s) + 1 >= to
  BY DEF Selected, Overlapping
<1>2. Min(s) \in s
  BY <1>1, LeastOne DEF Time
<1>3. Max(s) \in s
  <2>1. s \subseteq Nat /\ \A y \in s : y =< bound.time
    BY <1>1 DEF Time
  <2> QED
    BY <1>1, <2>1, GreatestOne
<1>4. Min(s) \in Time /\ Max(s) \in Time
  BY <1>1, <1>2, <1>3
<1>5. ASSUME NEW x \in from..(to - 1) PROVE x \in s
  <2>1. CASE x = Min(s) \/ x = Max(s)
    BY <2>1, <1>2, <1>3
  <2>2. CASE x # Min(s) /\ x # Max(s)
    <3>1. x \in Time /\ Min(s) < x /\ x < Max(s)
      BY <2>2, <1>1, <1>4 DEF Time
    <3> QED
      BY <3>1, <1>1, <1>2, <1>3 DEF Contiguous
  <2> QED
    BY <2>1, <2>2
<1> QED
  BY <1>1, <1>5

----------------------------------------------------------------------------
BoundOK ==
  /\ bound \in [time : Nat \ {0}, attempts : 0..MaxAttempts, troubles : Nat, rounds : Nat]
  /\ time \in Time

Outputs == {"attempt", "gap"} \X Attempt
States == Final \cup {"waiting", "recording", "reconnecting", "finalizing"}
AttemptRow == [start : Nat, last : Nat, end : Nat]
GapRow ==
  [status : {"none", "unrecovered", "collected"}, from : Nat, to : Nat, evidence : SUBSET Nat]
Row ==
  [state : States, stop : BOOLEAN, attempt : 0..MaxAttempts, uncertain : BOOLEAN, last : Nat,
   outputs : SUBSET Outputs, attempts : [Attempt -> AttemptRow], gaps : [Attempt -> GapRow]]
Task ==
  [phase : {"idle", "capturing", "ended", "deciding", "verifying", "filling", "merging",
            "reading", "writing"},
   clean : BOOLEAN, sound : BOOLEAN, outputs : SUBSET Outputs, read : Row \cup {<<>>}]

RowOK == row \in Row
TaskOK ==
  /\ task \in Task
  /\ task.phase \in {"capturing", "ended", "deciding"} => row.attempt # 0

\* What the row knows of the times lies in the past.
TimesOK ==
  /\ row.last <= time
  /\ \A n \in Attempt :
       /\ row.attempts[n].start <= time /\ row.attempts[n].last <= time /\ row.attempts[n].end <= time
       /\ row.gaps[n].from <= row.gaps[n].to /\ row.gaps[n].to <= time
       /\ row.gaps[n].evidence \subseteq Time

MediaOK ==
  /\ media \subseteq (1..row.attempt) \X (1..time) /\ durable \subseteq media
  /\ \A n \in Attempt :
       IF row.attempts[n].last = Never THEN \A m \in media : m[1] # n
       ELSE <<n, row.attempts[n].last>> \in media
  /\ IF row.last = Never THEN media = {} ELSE \E m \in media : m[2] = row.last

GapsOK ==
  /\ \A n \in Attempt : row.gaps[n].status # "none" <=> n + 1 <= row.attempt
  /\ \A n \in Attempt :
       n + 1 <= row.attempt =>
         /\ row.attempts[n + 1].start <= row.gaps[n].to
         /\ (\E m \in media : m[1] <= n) => \E m \in media : m[1] <= n /\ row.gaps[n].from <= m[2]
         /\ (\E m \in media : m[1] = n + 1) => \E m \in media : m[1] = n + 1 /\ m[2] <= row.gaps[n].to
         /\ row.gaps[n].status = "collected" =>
              row.gaps[n].from..(row.attempts[n + 1].start - 1) \subseteq row.gaps[n].evidence

Filler ==
  [by : {"none", "loop", "finish"}, gaps : SUBSET Attempt,
   read : [Attempt -> GapRow] \cup {<<>>}]
FillerOK ==
  /\ filler \in Filler
  /\ filler.gaps # {} => filler.read \in [Attempt -> GapRow]
  /\ \A n \in filler.gaps :
       /\ n + 1 <= row.attempt /\ filler.read[n].from = row.gaps[n].from
       /\ row.attempts[n + 1].start <= filler.read[n].to

TimelineInv == BoundOK /\ RowOK /\ TaskOK /\ TimesOK /\ MediaOK /\ GapsOK /\ FillerOK

\* Most steps move neither the times nor the media.
Unmoved ==
  /\ row'.attempt = row.attempt /\ row'.last = row.last
  /\ row'.attempts = row.attempts /\ row'.gaps = row.gaps
  /\ media' = media /\ durable' \subseteq media
  /\ bound'.time = bound.time /\ time' \in {time, time + 1}
LEMMA TimesStay ==
  ASSUME TimelineInv, Unmoved
  PROVE  /\ TimesOK' /\ MediaOK' /\ GapsOK'
         /\ filler' = filler => FillerOK'
         /\ filler' = NoFiller => FillerOK'
<1> USE TimelineAssumption DEF TimelineInv, Unmoved
<1>0. time \in Nat /\ time' \in Nat /\ time <= time' /\ Time' = Time
  BY DEF BoundOK, Time
<1>1. TimesOK'
  <2>1. row.last \in Nat
    BY DEF RowOK, Row
  <2>2. ASSUME NEW n \in Attempt
        PROVE  /\ row.attempts[n].start <= time' /\ row.attempts[n].last <= time'
               /\ row.attempts[n].end <= time' /\ row.gaps[n].to <= time'
    <3>1. row.attempts[n] \in AttemptRow /\ row.gaps[n] \in GapRow
      BY DEF RowOK, Row
    <3>2. /\ row.attempts[n].start \in Nat /\ row.attempts[n].last \in Nat
          /\ row.attempts[n].end \in Nat /\ row.gaps[n].to \in Nat
      BY <3>1 DEF AttemptRow, GapRow
    <3> QED
      BY <3>2, <1>0 DEF TimesOK
  <2> QED
    BY <1>0, <2>1, <2>2 DEF TimesOK
<1>2. MediaOK'
  <2>1. media' \subseteq (1..row'.attempt) \X (1..time')
    BY <1>0 DEF MediaOK
  <2> QED
    BY <2>1 DEF MediaOK
<1>3. GapsOK'
  BY DEF GapsOK
<1>4. filler' = filler => FillerOK'
  BY DEF FillerOK
<1>5. filler' = NoFiller => FillerOK'
  BY DEF FillerOK, Filler, NoFiller
<1> QED
  BY <1>1, <1>2, <1>3, <1>4, <1>5

LEMMA BoundsHold ==
  ASSUME BoundOK, Trouble \/ bound' = bound, time' \in {time, time + 1},
         time' = time \/ time < bound.time
  PROVE  BoundOK' /\ bound'.time = bound.time
<1>1. bound' \in [time : Nat \ {0}, attempts : 0..MaxAttempts, troubles : Nat, rounds : Nat]
      /\ bound'.time = bound.time
  BY DEF BoundOK, Trouble
<1> QED
  BY <1>1 DEF BoundOK, Time

Rest == RowOK' /\ TaskOK' /\ BoundOK'
Fixed ==
  /\ row'.attempt = row.attempt /\ row'.last = row.last
  /\ row'.attempts = row.attempts /\ row'.gaps = row.gaps
LEMMA QuietSteps ==
  ASSUME TimelineInv,
         \/ BroadcastOver \/ Checkpoint \/ LossReported \/ EngineMerges \/ CaptureEnds \/ Decide
         \/ Verify \/ Merge \/ ReadForVerdict \/ WriteVerdict \/ TaskFails \/ Stop \/ FinishStopped
         \/ Repair \/ Retry \/ Crash \/ Start \/ Tick \/ BroadcastEnds
  PROVE  Unmoved /\ Rest /\ filler' \in {filler, NoFiller}
<1> SUFFICES /\ RowOK' /\ TaskOK'
             /\ Fixed
  <2>1. /\ Trouble \/ bound' = bound
        /\ time' \in {time, time + 1} /\ (time' = time \/ time < bound.time)
        /\ media' = media /\ durable' \in {durable, media} /\ filler' \in {filler, NoFiller}
    BY DEF BroadcastOver, Checkpoint, LossReported, EngineMerges, CaptureEnds, Decide, Verify, Merge,
      ReadForVerdict, WriteVerdict, TaskFails, Stop, FinishStopped, Repair, Retry, Crash, Start, Tick,
      BroadcastEnds, Here, Troubled
  <2>2. BoundOK' /\ bound'.time = bound.time
    BY <2>1, BoundsHold DEF TimelineInv
  <2> QED
    BY <2>1, <2>2 DEF Unmoved, Fixed, Rest, MediaOK, TimelineInv
<1>0. RowOK /\ TaskOK
  BY DEF TimelineInv
<1> USE <1>0 DEF Fixed, At, Go, RowOK, Row, TaskOK, Task
<1>1. CASE BroadcastOver
  <2>1. CASE row.attempt > 0 /\ FinishWith(FALSE)
    BY <2>1 DEF FinishWith, NoTask, States
  <2>2. CASE row' = [row EXCEPT !.state = "failed"] /\ UNCHANGED task
    BY <2>2 DEF States, Final
  <2> QED
    BY <1>1, <2>1, <2>2 DEF BroadcastOver
<1>2. CASE Checkpoint
  BY <1>2 DEF Checkpoint
<1>3. CASE LossReported
  BY <1>3 DEF LossReported
<1>4. CASE EngineMerges
  BY <1>4 DEF EngineMerges, States
<1>5. CASE CaptureEnds
  BY <1>5 DEF CaptureEnds
<1>6. CASE Decide
  <2>1. CASE Reconnect
    BY <2>1 DEF Reconnect, NoTask, States
  <2>2. ASSUME NEW clean \in BOOLEAN, FinishWith(clean) PROVE RowOK' /\ TaskOK' /\ Fixed
    BY <2>2 DEF FinishWith, NoTask, States
  <2> QED
    BY <1>6, <2>1, <2>2 DEF Decide
<1>7. CASE Verify
  <2>1. PICK sound \in BOOLEAN :
          /\ task' = [task EXCEPT !.phase = "filling", !.sound = sound]
          /\ row' = [row EXCEPT !.uncertain = @ \/ ~sound]
    BY <1>7 DEF Verify
  <2>2. (row.uncertain \/ ~sound) \in BOOLEAN
    BY <2>1
  <2>3. RowOK'
    BY <2>1, <2>2
  <2>4. TaskOK' /\ Fixed
    BY <2>1
  <2> QED
    BY <2>3, <2>4
<1>8. CASE Merge
  <2>1. PICK got \in SUBSET {m[1] : m \in durable} :
          task' = [task EXCEPT !.phase = "reading", !.outputs = {<<"attempt", n>> : n \in got}]
    BY <1>8 DEF Merge
  <2>2. ASSUME NEW n \in got PROVE n \in Attempt
    <3>1. PICK m \in durable : n = m[1]
      BY <2>1
    <3>2. m \in (1..row.attempt) \X (1..time)
      BY <3>1 DEF TimelineInv, MediaOK
    <3>3. m[1] \in 1..row.attempt /\ row.attempt \in 0..MaxAttempts
      BY <3>2
    <3> QED
      BY <3>1, <3>3, TimelineAssumption DEF Attempt
  <2>3. {<<"attempt", n>> : n \in got} \subseteq Outputs
    BY <2>2 DEF Outputs
  <2> QED
    BY <2>1, <2>3, <1>8 DEF Merge
<1>9. CASE ReadForVerdict
  BY <1>9 DEF ReadForVerdict
<1>10. CASE WriteVerdict
  <2> DEFINE outputs == task.outputs \cup Evidence(task.read)
  <2>1. outputs \subseteq Outputs
    BY DEF Evidence, Outputs
  <2>2. Verdict(outputs) \in Final
    BY DEF Verdict, States, Final
  <2>3. /\ row' = [row EXCEPT !.state = Verdict(outputs), !.outputs = outputs,
                              !.uncertain = @ \/ Gaps(task.read) # {}]
        /\ task' = NoTask /\ Here
    BY <1>10 DEF WriteVerdict
  <2> HIDE DEF outputs
  <2> QED
    BY <2>1, <2>2, <2>3 DEF NoTask, States
<1>11. CASE TaskFails
  BY <1>11 DEF TaskFails, NoTask, States, Final
<1>12. CASE Stop
  BY <1>12 DEF Stop, States, Final
<1>13. CASE FinishStopped
  BY <1>13 DEF FinishStopped, FinishWith, NoTask, States
<1>14. CASE Repair
  BY <1>14 DEF Repair, FinishWith, NoTask, States
<1>15. CASE Retry
  BY <1>15 DEF Retry, States
<1>16. CASE Crash
  BY <1>16 DEF Crash, NoTask
<1>17. CASE Start
  <2> DEFINE s == IF ~row.stop THEN "waiting" ELSE IF row.attempt > 0 THEN "finalizing" ELSE "stopped"
  <2>1. s \in States
    BY DEF States, Final
  <2>2. task' = task /\ (row' = row \/ row' = [row EXCEPT !.uncertain = TRUE, !.state = s])
    BY <1>17 DEF Start
  <2> HIDE DEF s
  <2>3. CASE row' = row
    BY <2>2, <2>3
  <2>4. CASE row' = [row EXCEPT !.uncertain = TRUE, !.state = s]
    BY <2>1, <2>2, <2>4
  <2> QED
    BY <2>2, <2>3, <2>4
<1>18. CASE Tick
  BY <1>18 DEF Tick
<1>19. CASE BroadcastEnds
  BY <1>19 DEF BroadcastEnds
<1> QED
  BY <1>1, <1>2, <1>3, <1>4, <1>5, <1>6, <1>7, <1>8, <1>9, <1>10, <1>11, <1>12, <1>13, <1>14, <1>15,
     <1>16, <1>17, <1>18, <1>19

\* A recovery begins with the gaps of the row.
LEMMA FillsFillable ==
  ASSUME TimelineInv, row' = row, NEW by \in {"loop", "finish"}, Fills(by)
  PROVE  FillerOK'
<1> USE DEF TimelineInv
<1>1. filler' = [by |-> by, gaps |-> Fillable(row), read |-> row.gaps]
  BY DEF Fills
<1>2. row.gaps \in [Attempt -> GapRow]
  BY DEF RowOK, Row
<1>3. ASSUME NEW n \in Fillable(row)
      PROVE  n \in Attempt /\ n + 1 <= row.attempt /\ row.attempts[n + 1].start <= row.gaps[n].to
  BY <1>3 DEF Fillable, Gaps, GapsOK
<1>4. filler' \in Filler
  BY <1>1, <1>2, <1>3 DEF Filler
<1> QED
  BY <1>1, <1>2, <1>3, <1>4 DEF FillerOK

LEMMA FillerSteps ==
  ASSUME TimelineInv, LoopLists \/ LoopTakes \/ FinishTakes \/ FillEnds
  PROVE  Unmoved /\ Rest /\ FillerOK'
<1>1. /\ row' = row /\ bound' = bound /\ time' = time /\ media' = media /\ durable' = durable
      /\ filler' = filler \/ filler' = NoFiller \/ \E by \in {"loop", "finish"} : Fills(by)
      /\ UNCHANGED task \/ Go("merging")
  BY DEF LoopLists, LoopTakes, FinishTakes, FillEnds, Elsewhere, TimelineInv
<1>2. Unmoved
  BY <1>1 DEF Unmoved, TimelineInv, MediaOK
<1>3. RowOK' /\ TaskOK' /\ BoundOK'
  <2>1. RowOK' /\ BoundOK'
    BY <1>1 DEF TimelineInv, RowOK, Row, BoundOK, Time
  <2>2. TaskOK'
    BY <1>1 DEF TimelineInv, TaskOK, Task, Go
  <2> QED
    BY <2>1, <2>2
<1> QED
  BY <1>1, <1>2, <1>3, TimesStay, FillsFillable DEF Rest

\* The media of one gap, from a copy of it: whatever else happened to the gap
\* meanwhile, the copy begins where it does and goes beyond the outage.
LEMMA FillOneStep ==
  ASSUME TimelineInv, FillOne
  PROVE  TimelineInv'
<1> USE DEF TimelineInv
<1> DEFINE n == Min(filler.gaps)
           gap == filler.read[n]
           found == UNION {Selected(p, gap.from, gap.to) :
                             p \in {s \in SUBSET (1..(time - 1)) : Parsed(s)}}
<1>1. /\ UNCHANGED <<bound, time, media, durable, task>>
      /\ filler.gaps # {} /\ filler' = [filler EXCEPT !.gaps = @ \ {n}]
      /\ (\E got \in found : row' = Filled(row, n, got)) \/ row' = row
  BY DEF FillOne, Elsewhere
<1>2. n \in filler.gaps /\ n \in Attempt /\ filler.read \in [Attempt -> GapRow]
  <2>1. filler.gaps \in SUBSET Nat /\ filler.read \in [Attempt -> GapRow] /\ filler.gaps \subseteq Attempt
    BY <1>1 DEF FillerOK, Filler, Attempt
  <2> QED
    BY <1>1, <2>1, LeastOne
<1>3. gap.from \in Nat /\ gap.to \in Nat /\ gap.from = row.gaps[n].from
      /\ row.attempts[n + 1].start <= gap.to /\ n + 1 <= row.attempt
  BY <1>2 DEF FillerOK, GapRow
<1>4. ASSUME NEW got \in found
      PROVE  got \subseteq Time /\ row.gaps[n].from..(row.attempts[n + 1].start - 1) \subseteq got
  <2>1. PICK p \in SUBSET (1..(time - 1)) : got \in Selected(p, gap.from, gap.to)
    OBVIOUS
  <2>2. p \in SUBSET Time /\ bound.time \in Nat
    BY DEF BoundOK, Time
  <2>3. got \subseteq Time /\ gap.from..(gap.to - 1) \subseteq got
    BY <2>1, <2>2, <1>3, SelectedCovers
  <2>4. row.attempts[n + 1].start \in Nat
    <3>1. row.attempt \in 0..MaxAttempts /\ row.attempts \in [Attempt -> AttemptRow]
      BY DEF RowOK, Row
    <3> HIDE DEF n
    <3>2. n + 1 \in Attempt
      BY <1>2, <1>3, <3>1, TimelineAssumption DEF Attempt
    <3>3. row.attempts[n + 1] \in AttemptRow
      BY <3>1, <3>2
    <3> QED
      BY <3>3 DEF AttemptRow
  <2> QED
    BY <1>3, <2>3, <2>4
<1> HIDE DEF n, gap, found
<1>5. filler' \in Filler /\ filler'.gaps \subseteq filler.gaps /\ filler'.read = filler.read
  BY <1>1 DEF FillerOK, Filler
<1>6. CASE row' = row
  <2>1. Unmoved /\ RowOK' /\ TaskOK' /\ BoundOK'
    BY <1>1, <1>6 DEF Unmoved, MediaOK, RowOK, Row, TaskOK, Task, BoundOK, Time
  <2>2. FillerOK'
    BY <1>5, <1>6 DEF FillerOK
  <2> QED
    BY <2>1, <2>2, TimesStay
<1>7. ASSUME NEW got \in found, row' = Filled(row, n, got) PROVE TimelineInv'
  <2>1. /\ row'.attempt = row.attempt /\ row'.last = row.last /\ row'.attempts = row.attempts
        /\ row' \in Row /\ row'.gaps \in [Attempt -> GapRow]
    <3> DEFINE named == [row EXCEPT !.outputs = @ \cup {<<"gap", n>>}, !.uncertain = TRUE]
    <3>1. <<"gap", n>> \in Outputs
      BY <1>2 DEF Outputs
    <3>2. /\ named \in Row
          /\ named.attempt = row.attempt /\ named.last = row.last
          /\ named.attempts = row.attempts /\ named.gaps = row.gaps
      BY <3>1 DEF RowOK, Row
    <3>3. got \in SUBSET Nat
      BY <1>4 DEF Time
    <3>4. CASE row' = named
      BY <3>2, <3>4 DEF Row
    <3>5. CASE row' = [named EXCEPT !.gaps[n].status = "collected", !.gaps[n].evidence = got]
      <4> HIDE DEF named
      <4>1. named.gaps \in [Attempt -> GapRow] /\ named.gaps[n] \in GapRow
        BY <1>2, <3>2 DEF Row
      <4>2. [named.gaps[n] EXCEPT !.status = "collected", !.evidence = got] \in GapRow
        BY <3>3, <4>1 DEF GapRow
      <4> DEFINE g == [named.gaps[n] EXCEPT !.status = "collected", !.evidence = got]
                 gs == [named.gaps EXCEPT ![n] = g]
      <4>3. row' = [named EXCEPT !.gaps = gs]
        BY <1>2, <3>2, <3>5, <4>1 DEF Row, GapRow
      <4>4. gs \in [Attempt -> GapRow]
        <5> HIDE DEF g
        <5> QED
          BY <4>1, <4>2 DEF g
      <4> HIDE DEF gs
      <4> QED
        BY <3>2, <4>3, <4>4 DEF Row
    <3> QED
      BY <1>7, <3>4, <3>5 DEF Filled
  <2>2. ASSUME NEW k \in Attempt
        PROVE  /\ row'.gaps[k].from = row.gaps[k].from /\ row'.gaps[k].to = row.gaps[k].to
               /\ row'.gaps[k].status = "none" <=> row.gaps[k].status = "none"
               /\ \/ row'.gaps[k].status = row.gaps[k].status
                     /\ row'.gaps[k].evidence = row.gaps[k].evidence
                  \/ k = n /\ row'.gaps[k].status = "collected" /\ row'.gaps[k].evidence = got
    BY <1>2, <1>7 DEF Filled, RowOK, Row, GapRow
  <2>3. BoundOK' /\ TaskOK' /\ Time' = Time
    BY <1>1, <2>1 DEF BoundOK, TaskOK, Task, Time
  <2>4. TimesOK'
    BY <1>1, <1>4, <2>1, <2>2, <2>3 DEF TimesOK
  <2>5. MediaOK'
    BY <1>1, <2>1 DEF MediaOK
  <2>6. GapsOK'
    BY <1>1, <1>4, <2>1, <2>2 DEF GapsOK
  <2>7. FillerOK'
    BY <1>5, <2>1, <2>2 DEF FillerOK, Filler
  <2> QED
    BY <2>1, <2>3, <2>4, <2>5, <2>6, <2>7 DEF RowOK
<1> QED
  BY <1>1, <1>6, <1>7

LEMMA AttemptEndsStep ==
  ASSUME TimelineInv, AttemptEnds
  PROVE  TimelineInv'
<1> USE DEF TimelineInv
<1> DEFINE n == row.attempt
           ended == [row.attempts EXCEPT ![n] = [row.attempts[n] EXCEPT !.end = time]]
<1>1. /\ UNCHANGED <<bound, time, filler, media, durable>> /\ task' = [task EXCEPT !.phase = "deciding"]
      /\ row' = NoteAttemptEnd(row, n, time) /\ task.phase = "ended"
  BY DEF AttemptEnds, Here, Go, At
<1>2. n \in Attempt /\ time \in Nat
  BY <1>1, TimelineAssumption DEF TaskOK, RowOK, Row, Attempt, BoundOK, Time
<1>3. row.attempts \in [Attempt -> AttemptRow] /\ row.attempts[n] \in AttemptRow
  BY <1>2 DEF RowOK, Row
<1>4. row' = [row EXCEPT !.attempts = ended]
  BY <1>1, <1>2, <1>3 DEF NoteAttemptEnd, RowOK, Row
<1>5. /\ ended \in [Attempt -> AttemptRow]
      /\ \A k \in Attempt : /\ ended[k].start = row.attempts[k].start /\ ended[k].last = row.attempts[k].last
                            /\ ended[k].end <= row.attempts[k].end \/ ended[k].end = time
  BY <1>2, <1>3 DEF AttemptRow
<1> HIDE DEF ended
<1>6. /\ RowOK' /\ row'.attempts = ended /\ row'.attempt = row.attempt /\ row'.last = row.last
      /\ row'.gaps = row.gaps
  BY <1>4, <1>5 DEF RowOK, Row
<1>7. TaskOK' /\ BoundOK' /\ Time' = Time
  BY <1>1, <1>6 DEF TaskOK, Task, BoundOK, Time
<1>8. TimesOK'
  <2>1. ASSUME NEW k \in Attempt PROVE ended[k].end <= time
    BY <1>2, <1>3, <1>5 DEF TimesOK, AttemptRow
  <2> QED
    BY <1>1, <1>5, <1>6, <1>7, <2>1 DEF TimesOK
<1>9. MediaOK'
  BY <1>1, <1>5, <1>6 DEF MediaOK
<1>10. ASSUME NEW k \in Attempt, k + 1 <= row.attempt
       PROVE  ended[k + 1].start = row.attempts[k + 1].start
  <2>1. k + 1 \in Attempt
    BY <1>2, <1>10, TimelineAssumption DEF Attempt
  <2> QED
    BY <1>5, <2>1
<1>11. GapsOK'
  BY <1>1, <1>6, <1>10 DEF GapsOK
<1>12. FillerOK'
  BY <1>1, <1>6, <1>10 DEF FillerOK, Filler
<1> QED
  BY <1>6, <1>7, <1>8, <1>9, <1>11, <1>12

\* The first media of an attempt ends the gap before it.
LEMMA ReceiveStep ==
  ASSUME TimelineInv, Receive
  PROVE  TimelineInv'
<1> USE DEF TimelineInv
<1> DEFINE n == row.attempt
           first == row.attempts[n].last = Never /\ n > 1 /\ n - 1 \in Gaps(row)
           noted == [row.attempts EXCEPT ![n] = [row.attempts[n] EXCEPT !.last = time]]
           ended == [row.gaps EXCEPT ![n - 1] = [row.gaps[n - 1] EXCEPT !.to = time]]
           gaps == IF first THEN ended ELSE row.gaps
<1>1. /\ UNCHANGED <<bound, time, filler, task, durable>> /\ media' = media \cup {<<n, time>>}
      /\ row' = NoteMedia(row, n, time) /\ task.phase = "capturing"
  BY DEF Receive, At
<1>2. n \in Attempt /\ time \in Nat /\ time > 0
  BY <1>1, TimelineAssumption DEF TaskOK, RowOK, Row, Attempt, BoundOK, Time
<1>3. row.attempts \in [Attempt -> AttemptRow] /\ row.attempts[n] \in AttemptRow
      /\ row.gaps \in [Attempt -> GapRow]
  BY <1>2 DEF RowOK, Row
<1>4. row' = [row EXCEPT !.attempts = noted, !.gaps = gaps, !.last = time]
  <2>1. CASE first
    BY <1>1, <1>2, <1>3, <2>1 DEF NoteMedia, RowOK, Row
  <2>2. CASE ~first
    BY <1>1, <1>2, <1>3, <2>2 DEF NoteMedia, RowOK, Row
  <2> QED
    BY <2>1, <2>2
<1>5. /\ noted \in [Attempt -> AttemptRow]
      /\ \A k \in Attempt : /\ noted[k].start = row.attempts[k].start /\ noted[k].end = row.attempts[k].end
                            /\ noted[k].last = IF k = n THEN time ELSE row.attempts[k].last
  BY <1>2, <1>3 DEF AttemptRow
<1>6. /\ gaps \in [Attempt -> GapRow]
      /\ \A k \in Attempt : /\ gaps[k].from = row.gaps[k].from /\ gaps[k].status = row.gaps[k].status
                            /\ gaps[k].evidence = row.gaps[k].evidence
                            /\ gaps[k].to = IF first /\ k = n - 1 THEN time ELSE row.gaps[k].to
  <2>1. CASE first
    <3>1. n - 1 \in Attempt
      BY <2>1, <1>2, TimelineAssumption DEF Attempt, Gaps
    <3>2. row.gaps[n - 1] \in GapRow
      BY <3>1, <1>3
    <3>3. [row.gaps[n - 1] EXCEPT !.to = time] \in GapRow
      BY <3>2, <1>2 DEF GapRow
    <3> QED
      BY <2>1, <3>1, <3>2, <3>3, <1>3 DEF GapRow
  <2>2. CASE ~first
    BY <2>2, <1>3
  <2> QED
    BY <2>1, <2>2
<1>7. first <=> row.attempts[n].last = Never /\ n > 1
  BY <1>2, TimelineAssumption DEF GapsOK, Gaps, Attempt
<1> HIDE DEF noted, ended, gaps, first
<1>8. /\ RowOK' /\ row'.attempts = noted /\ row'.attempt = row.attempt /\ row'.last = time
      /\ row'.gaps = gaps
  BY <1>2, <1>4, <1>5, <1>6 DEF RowOK, Row
<1>9. TaskOK' /\ BoundOK' /\ Time' = Time
  BY <1>1, <1>8 DEF TaskOK, Task, BoundOK, Time
<1>10. TimesOK'
  <2>1. ASSUME NEW k \in Attempt
        PROVE  /\ noted[k].last <= time /\ gaps[k].from <= gaps[k].to /\ gaps[k].to <= time
    <3>1. row.gaps[k].from \in Nat /\ row.gaps[k].to \in Nat
      BY <1>3 DEF GapRow
    <3> QED
      BY <3>1, <1>2, <1>5, <1>6 DEF TimesOK
  <2> QED
    BY <1>1, <1>2, <1>5, <1>6, <1>8, <1>9, <2>1 DEF TimesOK
<1>11. MediaOK'
  <2>1. media' \subseteq (1..row'.attempt) \X (1..time')
    BY <1>1, <1>2, <1>8 DEF MediaOK, Attempt
  <2>2. ASSUME NEW k \in Attempt
        PROVE  IF noted[k].last = Never THEN \A m \in media' : m[1] # k
               ELSE <<k, noted[k].last>> \in media'
    <3>1. CASE k = n
      <4>1. noted[k].last = time /\ <<k, time>> \in media'
        BY <1>1, <1>5, <3>1
      <4> QED
        BY <4>1, <1>2 DEF Never
    <3>2. CASE k # n
      <4>1. noted[k].last = row.attempts[k].last
        BY <1>5, <3>2
      <4>2. \A m \in media' : m[1] = k => m \in media
        BY <1>1, <3>2
      <4> QED
        BY <4>1, <4>2, <1>1 DEF MediaOK
    <3> QED
      BY <3>1, <3>2
  <2>3. \E m \in media' : m[2] = time
    <3>1. <<n, time>> \in media' /\ <<n, time>>[2] = time
      BY <1>1
    <3> QED
      BY <3>1
  <2>4. durable' \subseteq media'
    BY <1>1 DEF MediaOK
  <2>5. row'.last # Never
    BY <1>2, <1>8 DEF Never
  <2> QED
    BY <1>8, <2>1, <2>2, <2>3, <2>4, <2>5 DEF MediaOK, Never
<1>12. ASSUME NEW k \in Attempt, k + 1 <= row.attempt
       PROVE  noted[k + 1].start = row.attempts[k + 1].start
  <2>1. k + 1 \in Attempt
    BY <1>2, <1>12, TimelineAssumption DEF Attempt
  <2> QED
    BY <1>5, <2>1
<1>13. ASSUME NEW k \in Attempt, k + 1 <= row.attempt
       PROVE  /\ noted[k + 1].start <= gaps[k].to
              /\ (\E m \in media' : m[1] <= k) => \E m \in media' : m[1] <= k /\ gaps[k].from <= m[2]
              /\ (\E m \in media' : m[1] = k + 1) => \E m \in media' : m[1] = k + 1 /\ m[2] <= gaps[k].to
              /\ gaps[k].status = "collected" =>
                   gaps[k].from..(noted[k + 1].start - 1) \subseteq gaps[k].evidence
  <2>1. k \in Nat /\ n \in Nat /\ k < n
    BY <1>2, <1>13 DEF Attempt
  <2>2. noted[k + 1].start <= gaps[k].to
    <3>1. k + 1 \in Attempt
      BY <1>2, <1>13, TimelineAssumption DEF Attempt
    <3>2. row.attempts[k + 1].start <= time
      BY <3>1 DEF TimesOK
    <3> QED
      BY <3>2, <1>6, <1>12, <1>13 DEF GapsOK
  <2>3. (\E m \in media' : m[1] <= k) => \E m \in media' : m[1] <= k /\ gaps[k].from <= m[2]
    <3>1. \A m \in media' : m[1] <= k => m \in media
      BY <1>1, <2>1
    <3> QED
      BY <3>1, <1>1, <1>6, <1>13 DEF GapsOK
  <2>4. (\E m \in media' : m[1] = k + 1) => \E m \in media' : m[1] = k + 1 /\ m[2] <= gaps[k].to
    <3>1. CASE k + 1 # n
      <4>1. \A m \in media' : m[1] = k + 1 => m \in media
        BY <1>1, <3>1
      <4>2. gaps[k].to = row.gaps[k].to
        BY <1>6, <3>1, <2>1
      <4> QED
        BY <4>1, <4>2, <1>1, <1>13 DEF GapsOK
    <3>2. CASE k + 1 = n /\ first
      <4>1. gaps[k].to = time
        BY <1>6, <3>2, <2>1
      <4>2. <<k + 1, time>> \in media'
        BY <1>1, <3>2
      <4> QED
        BY <4>1, <4>2, <1>2
    <3>3. CASE k + 1 = n /\ ~first
      <4>1. row.attempts[n].last # Never
        BY <3>3, <1>2, <1>7, <2>1 DEF Attempt
      <4>2. \E m \in media : m[1] = n
        BY <4>1, <1>2 DEF MediaOK
      <4>3. \E m \in media : m[1] = n /\ m[2] <= gaps[k].to
        BY <4>2, <3>3, <1>6, <1>13 DEF GapsOK
      <4> QED
        BY <4>3, <1>1, <3>3
    <3> QED
      BY <3>1, <3>2, <3>3
  <2>5. gaps[k].status = "collected" =>
          gaps[k].from..(noted[k + 1].start - 1) \subseteq gaps[k].evidence
    BY <1>6, <1>12, <1>13 DEF GapsOK
  <2> QED
    BY <2>2, <2>3, <2>4, <2>5
<1>14. GapsOK'
  BY <1>6, <1>8, <1>13 DEF GapsOK
<1>15. FillerOK'
  BY <1>1, <1>6, <1>8, <1>12 DEF FillerOK, Filler
<1> QED
  BY <1>8, <1>9, <1>10, <1>11, <1>14, <1>15

\* An attempt after the first leaves a gap behind it, from the last media that
\* the row knows of.
LEMMA BeginAttemptStep ==
  ASSUME TimelineInv, BeginAttempt
  PROVE  TimelineInv'
<1> USE DEF TimelineInv
<1> DEFINE n == row.attempt + 1
           begun == [row EXCEPT !.attempt = n, !.state = "recording", !.uncertain = @ \/ n > 1]
           from == HoleStart(begun, n - 1)
           noted == [row.attempts EXCEPT ![n] = [row.attempts[n] EXCEPT !.start = time]]
           gaps == IF n > 1 THEN [row.gaps EXCEPT ![n - 1] = Gap(from, time)] ELSE row.gaps
<1>1. /\ UNCHANGED <<bound, time, filler, media, durable>>
      /\ task' = [task EXCEPT !.phase = "capturing"]
      /\ row' = NoteAttemptStart(begun, n, time) /\ row.attempt < bound.attempts
  BY DEF BeginAttempt, Here, Go
<1>2. n \in Attempt /\ time \in Nat /\ time > 0 /\ row.attempt \in Nat
  BY <1>1, TimelineAssumption DEF RowOK, Row, Attempt, BoundOK, Time
<1>3. row.attempts \in [Attempt -> AttemptRow] /\ row.attempts[n] \in AttemptRow
      /\ row.gaps \in [Attempt -> GapRow] /\ row.last \in Nat
  BY <1>2 DEF RowOK, Row
<1>4. /\ begun \in Row /\ begun.attempts = row.attempts /\ begun.gaps = row.gaps /\ begun.last = row.last
      /\ begun.attempt = n /\ (n > 1 => begun.uncertain)
  <2>1. n \in 0..MaxAttempts /\ (row.uncertain \/ n > 1) \in BOOLEAN /\ "recording" \in States
    BY <1>2, TimelineAssumption DEF States, Attempt
  <2> DEFINE u == row.uncertain \/ n > 1
  <2>2. begun = [row EXCEPT !.attempt = n, !.state = "recording", !.uncertain = u] /\ u \in BOOLEAN
    BY <2>1
  <2>3. n > 1 => u = TRUE
    OBVIOUS
  <2> HIDE DEF u, n, begun
  <2> QED
    BY <2>1, <2>2, <2>3 DEF RowOK, Row
<1> HIDE DEF begun
<1>5. ASSUME n > 1
      PROVE  /\ n - 1 \in Attempt /\ from \in Nat /\ from <= time
             /\ media # {} => \E m \in media : from <= m[2]
  <2>1. n - 1 \in Attempt
    BY <1>2, <1>5, TimelineAssumption DEF Attempt
  <2>2. row.attempts[n - 1] \in AttemptRow
    BY <1>3, <2>1
  <2>3. from \in {row.attempts[n - 1].last, row.last, row.attempts[n - 1].end, row.attempts[n - 1].start}
    BY <1>4 DEF HoleStart
  <2>4. from \in Nat /\ from <= time
    BY <1>2, <1>3, <2>1, <2>2, <2>3 DEF AttemptRow, TimesOK
  <2>5. ASSUME media # {} PROVE \E m \in media : from <= m[2]
    <3>1. row.last # Never /\ \E m \in media : m[2] = row.last
      BY <2>5 DEF MediaOK
    <3>2. CASE row.attempts[n - 1].last = Never
      <4>1. from = row.last
        BY <1>4, <3>1, <3>2 DEF HoleStart
      <4> QED
        BY <4>1, <3>1, <1>3
    <3>3. CASE row.attempts[n - 1].last # Never
      <4>1. from = row.attempts[n - 1].last
        BY <1>4, <3>3 DEF HoleStart
      <4>2. <<n - 1, row.attempts[n - 1].last>> \in media
        BY <2>1, <3>3 DEF MediaOK
      <4> QED
        BY <4>1, <4>2, <2>4
    <3> QED
      BY <3>2, <3>3
  <2> QED
    BY <2>1, <2>4, <2>5
<1> HIDE DEF from
<1>6. row' = [begun EXCEPT !.attempts = noted, !.gaps = gaps]
  <2>1. CASE n > 1
    <3>1. row' = [[begun EXCEPT !.gaps[n - 1] = Gap(from, time)] EXCEPT !.attempts[n].start = time]
      BY <1>1, <1>4, <2>1 DEF NoteAttemptStart, from
    <3> QED
      BY <3>1, <1>2, <1>3, <1>4, <2>1 DEF Row
  <2>2. CASE ~(n > 1)
    BY <1>1, <1>2, <1>3, <1>4, <2>2 DEF NoteAttemptStart, Row
  <2> QED
    BY <2>1, <2>2
<1>7. /\ noted \in [Attempt -> AttemptRow]
      /\ \A k \in Attempt : /\ noted[k].start = IF k = n THEN time ELSE row.attempts[k].start
                            /\ noted[k].end = row.attempts[k].end
                            /\ noted[k].last = row.attempts[k].last
  BY <1>2, <1>3 DEF AttemptRow
<1>8. /\ gaps \in [Attempt -> GapRow]
      /\ \A k \in Attempt : gaps[k] = IF n > 1 /\ k = n - 1 THEN Gap(from, time) ELSE row.gaps[k]
  <2>1. CASE n > 1
    <3>1. Gap(from, time) \in GapRow
      BY <2>1, <1>2, <1>5 DEF Gap, GapRow
    <3> QED
      BY <2>1, <3>1, <1>3, <1>5
  <2>2. CASE ~(n > 1)
    BY <2>2, <1>3
  <2> QED
    BY <2>1, <2>2
<1> HIDE DEF noted, gaps
<1>9. /\ RowOK' /\ row'.attempts = noted /\ row'.attempt = n /\ row'.last = row.last /\ row'.gaps = gaps
  BY <1>4, <1>6, <1>7, <1>8 DEF RowOK, Row
<1>10. TaskOK' /\ BoundOK' /\ Time' = Time
  BY <1>1, <1>2, <1>9 DEF TaskOK, Task, BoundOK, Time
<1>11. TimesOK'
  <2>1. ASSUME NEW k \in Attempt
        PROVE  /\ noted[k].start <= time /\ gaps[k].from <= gaps[k].to /\ gaps[k].to <= time
               /\ gaps[k].evidence \subseteq Time
    <3>1. noted[k].start <= time
      BY <1>2, <1>7 DEF TimesOK
    <3>2. CASE n > 1 /\ k = n - 1
      BY <3>1, <3>2, <1>2, <1>5, <1>8 DEF Gap
    <3>3. CASE ~(n > 1 /\ k = n - 1)
      BY <3>1, <3>3, <1>8 DEF TimesOK
    <3> QED
      BY <3>2, <3>3
  <2> QED
    BY <1>1, <1>7, <1>9, <1>10, <2>1 DEF TimesOK
<1>12. MediaOK'
  <2>1. media' \subseteq (1..row'.attempt) \X (1..time')
    BY <1>1, <1>2, <1>9 DEF MediaOK
  <2> QED
    BY <1>1, <1>7, <1>9, <2>1 DEF MediaOK
<1>13. ASSUME NEW k \in Attempt PROVE gaps[k].status # "none" <=> k + 1 <= n
  <2>1. CASE n > 1 /\ k = n - 1
    BY <2>1, <1>2, <1>8 DEF Gap
  <2>2. CASE ~(n > 1 /\ k = n - 1)
    <3>1. gaps[k] = row.gaps[k] /\ k \in Nat /\ k > 0
      BY <2>2, <1>8 DEF Attempt
    <3>2. k + 1 <= n <=> k + 1 <= row.attempt
      BY <2>2, <3>1, <1>2
    <3> QED
      BY <3>1, <3>2 DEF GapsOK
  <2> QED
    BY <2>1, <2>2
<1>14. ASSUME NEW k \in Attempt, k + 1 <= n, k # n - 1
       PROVE  k + 1 <= row.attempt /\ gaps[k] = row.gaps[k]
              /\ noted[k + 1].start = row.attempts[k + 1].start
  <2>1. k \in Nat /\ k + 1 <= row.attempt /\ k + 1 # n
    BY <1>2, <1>14 DEF Attempt
  <2>2. k + 1 \in Attempt
    BY <1>2, <2>1, TimelineAssumption DEF Attempt
  <2> QED
    BY <2>1, <2>2, <1>7, <1>8, <1>14
<1>15. ASSUME NEW k \in Attempt, k + 1 <= n
       PROVE  /\ noted[k + 1].start <= gaps[k].to
              /\ (\E m \in media : m[1] <= k) => \E m \in media : m[1] <= k /\ gaps[k].from <= m[2]
              /\ (\E m \in media : m[1] = k + 1) => \E m \in media : m[1] = k + 1 /\ m[2] <= gaps[k].to
              /\ gaps[k].status = "collected" =>
                   gaps[k].from..(noted[k + 1].start - 1) \subseteq gaps[k].evidence
  <2>1. CASE k # n - 1
    BY <2>1, <1>14, <1>15 DEF GapsOK
  <2>2. CASE k = n - 1
    <3>1. n > 1 /\ k + 1 = n /\ k = row.attempt
      BY <2>2, <1>2 DEF Attempt
    <3>2. gaps[k] = Gap(from, time) /\ noted[k + 1].start = time
      BY <3>1, <1>2, <1>7, <1>8
    <3>3. ASSUME NEW m \in media PROVE m[1] \in Nat /\ m[1] <= k /\ m[1] # k + 1
      <4>1. m \in (1..row.attempt) \X (1..time)
        BY DEF MediaOK
      <4>2. m[1] \in 1..row.attempt
        BY <4>1
      <4> QED
        BY <4>2, <3>1, <1>2
    <3>4. ~\E m \in media : m[1] = k + 1
      BY <3>3
    <3> QED
      BY <3>1, <3>2, <3>3, <3>4, <1>2, <1>5 DEF Gap
  <2> QED
    BY <2>1, <2>2
<1>16. GapsOK'
  BY <1>1, <1>9, <1>13, <1>15 DEF GapsOK
<1>17. FillerOK'
  <2>1. ASSUME NEW k \in filler.gaps
        PROVE  /\ k + 1 <= n /\ filler.read[k].from = gaps[k].from
               /\ noted[k + 1].start <= filler.read[k].to
    <3>1. k \in Attempt /\ k + 1 <= row.attempt /\ k # n - 1 /\ k + 1 <= n
      BY <1>2 DEF FillerOK, Filler, Attempt
    <3> QED
      BY <3>1, <1>14 DEF FillerOK
  <2> QED
    BY <1>1, <1>9, <2>1 DEF FillerOK, Filler
<1> QED
  BY <1>9, <1>10, <1>11, <1>12, <1>16, <1>17

----------------------------------------------------------------------------
LEMMA TimelineInvInit == Init => TimelineInv
<1> SUFFICES ASSUME Init PROVE TimelineInv
  OBVIOUS
<1> USE TimelineAssumption DEF Init, TimelineInit
<1>1. BoundOK /\ time = 1
  BY DEF BoundOK, Time
<1>2. RowOK
  BY DEF RowOK, Row, NewRow, NoGap, Never, AttemptRow, GapRow, States
<1>3. TaskOK
  BY DEF TaskOK, Task, NoTask
<1>4. TimesOK
  BY <1>1 DEF TimesOK, NewRow, NoGap, Never
<1>5. MediaOK /\ GapsOK
  BY DEF MediaOK, GapsOK, NewRow, NoGap, Never, Attempt
<1>6. FillerOK
  BY DEF FillerOK, Filler, NoFiller
<1> QED
  BY <1>1, <1>2, <1>3, <1>4, <1>5, <1>6 DEF TimelineInv

LEMMA TimelineInvStep == TimelineInv /\ [Next]_vars => TimelineInv'
<1> SUFFICES ASSUME TimelineInv, [Next]_vars PROVE TimelineInv'
  OBVIOUS
<1>1. CASE UNCHANGED timelineVars
  <2>1. Unmoved /\ filler' = filler /\ row' = row /\ task' = task /\ bound' = bound /\ time' = time
    BY <1>1 DEF timelineVars, Unmoved, TimelineInv, MediaOK
  <2>2. RowOK' /\ TaskOK' /\ BoundOK'
    BY <2>1 DEF TimelineInv, RowOK, Row, TaskOK, Task, BoundOK, Time
  <2> QED
    BY <2>1, <2>2, TimesStay DEF TimelineInv
<1>2. CASE BeginRound \/ Unplug
  <2>1. /\ UNCHANGED <<time, row, task, filler, media, durable>>
        /\ \/ bound.rounds > 0 /\ bound' = [bound EXCEPT !.rounds = bound.rounds - 1]
           \/ Trouble
    BY <1>2 DEF BeginRound, Unplug
  <2>2. BoundOK' /\ bound'.time = bound.time
    BY <2>1 DEF TimelineInv, BoundOK, Trouble, Time
  <2>3. Unmoved /\ RowOK' /\ TaskOK'
    BY <2>1, <2>2 DEF TimelineInv, Unmoved, RowOK, Row, TaskOK, Task, MediaOK
  <2> QED
    BY <2>1, <2>2, <2>3, TimesStay DEF TimelineInv
<1>3. ASSUME Unmoved /\ Rest /\ (filler' \in {filler, NoFiller} \/ FillerOK') PROVE TimelineInv'
  BY <1>3, TimesStay DEF TimelineInv, Rest
<1>4. CASE Crash
  BY <1>3, <1>4, QuietSteps
<1>5. CASE TimelineSteps
  BY <1>3, <1>5, QuietSteps, FillerSteps, FillOneStep, AttemptEndsStep, ReceiveStep, BeginAttemptStep
  DEF TimelineSteps
<1> QED
  BY <1>1, <1>2, <1>4, <1>5
  DEF Next, Recording, Killed, MirrorSteps, ListFolders, ReadLedger, LedgersRead, CopyFile, CopyOutput, PublishLedger,
    PublishRow, RoundFails, Report, Plug, Apart, vars

\* Between the last media before an attempt and the first from then on there is
\* a gap: the one before the first attempt since that received anything.
LEMMA HolesAreListed == TimelineInv => HolesListed
<1> SUFFICES ASSUME TimelineInv, NEW n \in Attempt, NEW a \in LastBefore(n), NEW b \in FirstAfter(n)
             PROVE  \E k \in Gaps(row) : row.gaps[k].from <= a /\ row.gaps[k].to >= b
  BY DEF HolesListed
<1> USE DEF TimelineInv
<1>1. ASSUME NEW m \in media PROVE m[1] \in 1..row.attempt /\ m[2] \in 1..time /\ m[1] \in Attempt
  <2>1. m \in (1..row.attempt) \X (1..time) /\ row.attempt \in 0..MaxAttempts
    BY DEF MediaOK, RowOK, Row
  <2> QED
    BY <2>1, TimelineAssumption DEF Attempt
<1>2. time \in Nat /\ n \in Nat /\ n > 0
  BY DEF BoundOK, Time, Attempt
<1>3. a \in Nat /\ (\E m \in media : m[1] <= n) /\ \A m \in media : m[1] <= n => m[2] <= a
  <2> DEFINE X == {m \in media : m[1] <= n}
             S == {m[2] : m \in X}
  <2>1. X # {} /\ a = Max(S)
    BY DEF LastBefore
  <2>2. S \in SUBSET Nat /\ S # {} /\ \A y \in S : y =< time
    BY <1>1, <2>1
  <2> HIDE DEF S
  <2>3. a \in S /\ \A y \in S : y =< a
    BY <1>2, <2>1, <2>2, GreatestOne
  <2> QED
    BY <2>1, <2>2, <2>3 DEF S
<1>4. b \in Nat /\ (\E m \in media : m[1] > n) /\ \A m \in media : m[1] > n => b <= m[2]
  <2> DEFINE X == {m \in media : m[1] > n}
             S == {m[2] : m \in X}
  <2>1. X # {} /\ b = Min(S)
    BY DEF FirstAfter
  <2>2. S \in SUBSET Nat /\ S # {}
    BY <1>1, <2>1
  <2> HIDE DEF S
  <2>3. b \in S /\ \A y \in S : b =< y
    BY <2>1, <2>2, LeastOne
  <2> QED
    BY <2>1, <2>2, <2>3 DEF S
<1> DEFINE T == {m[1] : m \in {x \in media : x[1] > n}}
           next == Min(T)
<1>5. next \in T /\ \A y \in T : next =< y
  <2>1. T \in SUBSET Nat /\ T # {}
    BY <1>1, <1>4
  <2> HIDE DEF T
  <2> QED
    BY <2>1, LeastOne
<1> HIDE DEF next
<1>6. PICK m \in media : m[1] = next /\ next > n
  BY <1>5
<1>7. next \in 1..row.attempt /\ next \in Attempt /\ next - 1 \in Attempt
  <2>1. next \in 1..row.attempt /\ next \in Attempt
    BY <1>1, <1>6
  <2>2. next \in Nat /\ next > n
    BY <1>6, <2>1, TimelineAssumption DEF Attempt
  <2> QED
    BY <1>2, <2>1, <2>2, TimelineAssumption DEF Attempt
<1>8. next - 1 \in Gaps(row)
  <2>1. next - 1 + 1 <= row.attempt
    BY <1>7
  <2> QED
    BY <1>7, <2>1 DEF Gaps, GapsOK
<1>9. row.gaps[next - 1].from \in Nat /\ row.gaps[next - 1].to \in Nat
  BY <1>7 DEF RowOK, Row, GapRow
<1>10. row.gaps[next - 1].from <= a
  <2>1. \E x \in media : x[1] <= next - 1
    BY <1>1, <1>2, <1>3, <1>6, <1>7
  <2>2. PICK x \in media : x[1] <= next - 1 /\ row.gaps[next - 1].from <= x[2]
    BY <1>7, <2>1 DEF GapsOK
  <2>3. x[1] <= n
    <3>1. x[1] > n => x[1] \in T
      OBVIOUS
    <3> HIDE DEF T
    <3>2. x[1] \in Nat /\ next \in Nat /\ ~(next =< x[1])
      BY <1>1, <1>7, <2>2
    <3> QED
      BY <1>2, <1>5, <3>1, <3>2
  <2> QED
    BY <1>1, <1>3, <1>9, <2>2, <2>3
<1>11. row.gaps[next - 1].to >= b
  <2>1. PICK x \in media : x[1] = next /\ x[2] <= row.gaps[next - 1].to
    <3>1. next - 1 + 1 = next /\ next <= row.attempt
      BY <1>7
    <3> QED
      BY <1>6, <1>7, <3>1 DEF GapsOK
  <2>2. b <= x[2]
    BY <1>4, <1>6, <2>1
  <2> QED
    BY <1>1, <1>4, <1>9, <2>1, <2>2
<1> QED
  BY <1>8, <1>10, <1>11

\* A collected gap begins at or before the last media, so its evidence, which
\* has all from its beginning to the next attempt, has all of the outage.
LEMMA CollectedIsCovered == TimelineInv => CollectedIsHeld
<1> SUFFICES ASSUME TimelineInv, NEW n \in Attempt, row.gaps[n].status = "collected",
                    NEW a \in LastBefore(n)
             PROVE  a..(row.attempts[n + 1].start - 1) \subseteq row.gaps[n].evidence
  BY DEF CollectedIsHeld
<1> USE DEF TimelineInv
<1>1. ASSUME NEW m \in media PROVE m[2] \in 1..time
  <2>1. m \in (1..row.attempt) \X (1..time)
    BY DEF MediaOK
  <2> QED
    BY <2>1
<1>2. a \in Nat /\ (\E m \in media : m[1] <= n) /\ \A m \in media : m[1] <= n => m[2] <= a
  <2> DEFINE X == {m \in media : m[1] <= n}
             S == {m[2] : m \in X}
  <2>1. X # {} /\ a = Max(S)
    BY DEF LastBefore
  <2>2. time \in Nat
    BY DEF BoundOK, Time
  <2>3. S \in SUBSET Nat /\ S # {} /\ \A y \in S : y =< time
    BY <1>1, <2>1, <2>2
  <2> HIDE DEF S
  <2>4. a \in S /\ \A y \in S : y =< a
    BY <2>1, <2>2, <2>3, GreatestOne
  <2> QED
    BY <2>1, <2>3, <2>4 DEF S
<1>3. n + 1 <= row.attempt
  BY DEF GapsOK
<1>4. row.gaps[n].from..(row.attempts[n + 1].start - 1) \subseteq row.gaps[n].evidence
  BY <1>3 DEF GapsOK
<1>5. PICK m \in media : m[1] <= n /\ row.gaps[n].from <= m[2]
  BY <1>2, <1>3 DEF GapsOK
<1>6. row.gaps[n].from \in Nat
  BY DEF RowOK, Row, GapRow
<1>7. row.gaps[n].from <= a
  BY <1>1, <1>2, <1>5, <1>6
<1>8. row.attempts[n + 1].start \in Nat
  <2>1. row.attempt \in 0..MaxAttempts /\ row.attempts \in [Attempt -> AttemptRow]
    BY DEF RowOK, Row
  <2>2. n + 1 \in Attempt
    BY <1>3, <2>1, TimelineAssumption DEF Attempt
  <2>3. row.attempts[n + 1] \in AttemptRow
    BY <2>1, <2>2
  <2> QED
    BY <2>3 DEF AttemptRow
<1> QED
  BY <1>2, <1>4, <1>6, <1>7, <1>8

\* Every hole in the reception between two attempts lies in a gap of the row, and
\* a gap counts as collected only with all that was missing when the next attempt
\* started, from the last media before it: for any
\* number of attempts, over crashes, attempts without media, stops, repairs and
\* manual retries, while recoveries run beside the capture and its end
\* (note_attempt_start, note_media_received, fill_gaps, select_segments).
THEOREM OutagesAreAccounted == Spec => []OutagesAccounted
<1>1. TimelineInv => OutagesAccounted
  BY HolesAreListed, CollectedIsCovered DEF OutagesAccounted
<1> QED
  BY <1>1, TimelineInvInit, TimelineInvStep, PTL DEF Spec

=============================================================================
