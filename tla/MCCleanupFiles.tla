--------------------------- MODULE MCCleanupFiles ---------------------------
EXTENDS CleanupFiles, TLC

CONSTANTS f1, f2, f3, d1, d2

\* Two segments of one attempt, which are alike, and one of another.
Folders == f1 :> d1 @@ f2 :> d1 @@ f3 :> d2
Alike == Permutations({f1, f2})

\* One of the two: it has a companion in its folder and one in another.
OneOfTwo == {{f1}, {f2}}

=============================================================================
