--------------------------- MODULE MCHooksRunner ---------------------------
(* Instances of HooksRunner for TLC.                                       *)
EXTENDS HooksRunner

CONSTANTS h1, h2

Sorted == <<h1, h2>>
AnyMode == [parallel : BOOLEAN, stop : BOOLEAN]

=============================================================================
