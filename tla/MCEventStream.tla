--------------------------- MODULE MCEventStream ---------------------------
(* Instances of EventStream for TLC. *)
EXTENDS EventStream, TLC

CONSTANTS up, touched, failed

\* touched differs from up only in fields no one watches (last_seen_at).
Watches == (up :> up) @@ (touched :> up) @@ (failed :> failed)
=============================================================================
