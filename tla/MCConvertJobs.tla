--------------------------- MODULE MCConvertJobs ---------------------------
(* Instances of ConvertJobs for TLC. *)
EXTENDS ConvertJobs, TLC

CONSTANTS p1, p2, a1, a2, a3

\* One path and two ids: what was moved away leaves its path to another row.
OnePathTwice == (a1 :> p1) @@ (a2 :> p1)
\* Two paths that compete for a job and a slot.
TwoPathsOneTwice == (a1 :> p1) @@ (a2 :> p1) @@ (a3 :> p2)
=============================================================================
