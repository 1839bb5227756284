---------------------------- MODULE MCMountNames ----------------------------
(* MountNames on a small instance. *)
EXTENDS MountNames, TLC

CONSTANTS a, b, zip

\* Two archives of the same base name, in different directories.
SameName == [i \in {a, b} |-> zip]
=============================================================================
