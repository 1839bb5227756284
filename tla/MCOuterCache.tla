---------------------------- MODULE MCOuterCache ----------------------------
(* Instances of OuterCache for TLC.                                        *)
EXTENDS OuterCache

CONSTANTS d, e

\* One daemon with its cleaner, or two processes that only use the cache.
AloneOrUsers == {[users |-> {d}, cleaners |-> {d}],
                 [users |-> {d, e}, cleaners |-> {}]}

=============================================================================
