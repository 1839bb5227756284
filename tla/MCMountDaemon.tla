--------------------------- MODULE MCMountDaemon ---------------------------
(* Instances of MountDaemon for TLC. *)
EXTENDS MountDaemon, TLC

CONSTANTS p1, p2, a1, a2, a3

\* One path, and ids for two lives of it: purge and rediscovery.
OnePathTwice == (a1 :> p1) @@ (a2 :> p1)
OnePathOnce == (a1 :> p1)
\* Two paths that compete for slots.
TwoPaths == (a1 :> p1) @@ (a2 :> p2)

ChildSymmetry == Permutations(Children)
=============================================================================
