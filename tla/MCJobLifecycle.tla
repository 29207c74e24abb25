--------------------------- MODULE MCJobLifecycle ---------------------------
EXTENDS JobLifecycle, TLC

\* The tasks of a run are interchangeable: no action or property names one.
TaskSymmetry == Permutations(Task)
=============================================================================
