---------------------------- MODULE MCContinuity ----------------------------
EXTENDS Continuity

Upto(seconds, attempts, troubles, rounds) ==
  [time |-> seconds, attempts |-> attempts, troubles |-> troubles, rounds |-> rounds]

\* Long outages with a crash, a stop, a repair or a retry; an attempt that receives
\* nothing between two others; the same after a crash; and the backup, once with
\* a crash or without its volume, once over two attempts, once in two rounds.
Extents ==
  {Upto(4, 2, 1, 0), Upto(3, 3, 0, 0), Upto(2, 3, 1, 0), Upto(2, 1, 1, 1), Upto(2, 2, 0, 1), Upto(2, 1, 0, 2)}

\* The first media of an attempt comes a second after its start.
LateMedia == {Upto(4, 2, 0, 0)}

=============================================================================
