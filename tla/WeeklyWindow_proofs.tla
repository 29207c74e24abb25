------------------------ MODULE WeeklyWindow_proofs ------------------------
(***************************************************************************)
(* The occurrence that the code computes from the clock is the one of the  *)
(* window's occurrences that the instant lies in, and there is at most     *)
(* one.                                                                    *)
(***************************************************************************)
EXTENDS WeeklyWindow, TLAPS

\* The code looks at one day only, today or the day before.
LEMMA StartDayIsWithin ==
  ASSUME NEW w \in Window, NEW at \in Instant, NEW d \in Int
  PROVE  d \in StartDays(w, at) <=> Within(Interval(w, d), at)
  BY CalendarAssumption, SMT
     DEF Window, Instant, Minute, StartDays, Within, Interval, Before, Overnight

\* Occurrence of automation.rs is right across midnight, on the first and on
\* the last minute, and for equal endpoints (24 hours).
THEOREM OccurrenceIsTheInterval ==
  ASSUME NEW w \in Window, NEW at \in Instant
  PROVE  Occurrence(w, at) = {i \in Occurrences(w) : Within(i, at)}
<1>1. \A d \in StartDays(w, at) : d \in Int
  BY DEF StartDays, Instant
<1> QED
  BY <1>1, StartDayIsWithin DEF Occurrence, Occurrences

\* Two occurrences of one window never overlap: a broadcast is within one at
\* most, and the key that monitor makes of its start is unambiguous.
THEOREM OccurrenceUnique ==
  ASSUME NEW w \in Window, NEW at \in Instant,
         NEW i \in Occurrence(w, at), NEW k \in Occurrence(w, at)
  PROVE  i = k
<1>1. \A d, e \in StartDays(w, at) : d = e
  BY CalendarAssumption, SMT DEF Window, Instant, Minute, StartDays, Overnight
<1> QED
  BY <1>1 DEF Occurrence

=============================================================================
