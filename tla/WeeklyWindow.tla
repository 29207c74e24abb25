---------------------------- MODULE WeeklyWindow ----------------------------
(***************************************************************************)
(* The weekly window of a channel's rules (WeeklyWindow::occurrence):      *)
(* which occurrence of the window an instant falls in. Instants are local  *)
(* times of the window's fixed UTC offset, a day and a minute of that day. *)
(***************************************************************************)
EXTENDS Integers

CONSTANTS
  DayLength,  \* minutes of a day (1440)
  WeekLength  \* days of a week (7)

ASSUME CalendarAssumption == DayLength \in Nat \ {0} /\ WeekLength \in Nat \ {0}

Minute == 0..(DayLength - 1)
Instant == [day : Int, minute : Minute]
Weekday(day) == day % WeekLength
Before(a, b) == a.day < b.day \/ (a.day = b.day /\ a.minute < b.minute)

\* What validate accepts.
Window ==
  [weekdays : (SUBSET (0..(WeekLength - 1))) \ {{}}, start : Minute, end : Minute]

\* An end at or before the start is on the following day.
Overnight(w) == w.end <= w.start

\* The occurrence that starts on a day.
Interval(w, day) ==
  [start |-> [day |-> day, minute |-> w.start],
   stop |-> [day |-> IF Overnight(w) THEN day + 1 ELSE day, minute |-> w.end]]

\* The day on which the occurrence that contains the instant starts, if there is one.
StartDays(w, at) ==
  {d \in {at.day - 1, at.day} :
     \/ d = at.day - 1 /\ Overnight(w) /\ at.minute < w.end
     \/ d = at.day /\ at.minute >= w.start /\ (Overnight(w) \/ at.minute < w.end)}

\* Nothing, or the one occurrence that the instant falls in.
Occurrence(w, at) ==
  {Interval(w, d) : d \in {x \in StartDays(w, at) : Weekday(x) \in w.weekdays}}

----------------------------------------------------------------------------
\* The reference: all occurrences of a window, and those that an instant is in.
Occurrences(w) == {Interval(w, d) : d \in {x \in Int : Weekday(x) \in w.weekdays}}
Within(i, at) == ~Before(at, i.start) /\ Before(at, i.stop)

=============================================================================
