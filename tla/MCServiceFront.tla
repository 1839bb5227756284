--------------------------- MODULE MCServiceFront ---------------------------
(* ServiceFront on small instances. *)
EXTENDS ServiceFront

CONSTANTS t1, p1, p2, hot

\* The second is one day, and is written so.
SomeTexts == {[amount |-> 90, unit |-> "m"], [amount |-> 24, unit |-> "h"]}
=============================================================================
