-------------------------- MODULE MCOperationQueue --------------------------
EXTENDS OperationQueue, TLC

CONSTANTS j1, render, download, cleanup, v1, v2

\* All of one job: a render excludes the others where it reserves the job.
Jobs == [r \in Request |-> j1]
Kinds ==
  [r \in Request |-> CASE r = render -> "render" [] r = download -> "download" [] r = cleanup -> "cleanup"]

----------------------------------------------------------------------------
\* Two instances in one: the operations among each other, and the files of one.

VARIABLE extent  \* the bounds of a behaviour

Upto(requests, rows, again, changes) ==
  [requests |-> requests, rows |-> rows, retries |-> again, changes |-> changes]
Extents == {Upto({render, download, cleanup}, 2, 1, 0), Upto({render, download}, 1, 2, 2)}

\* Only users and other programs take the steps that this keeps from happening, so
\* it does not touch the fairness. What a request reads that is not made is left alone.
Within ==
  /\ \A i \in Id : row[i].state # "absent" => i <= extent.rows /\ row[i].request \in extent.requests
  /\ \A r \in Request \ extent.requests : source[r] = v1
  /\ retries <= extent.retries /\ changed <= extent.changes
\* The versions are alike, so one of them comes first.
MCInit == extent \in Extents /\ Init /\ source = [r \in Request |-> v1]
MCNext == Next /\ UNCHANGED extent /\ Within'
MCSpec == MCInit /\ [][MCNext]_<<vars, extent>> /\ Fairness

=============================================================================
