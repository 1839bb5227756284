------------------------------ MODULE Durations ------------------------------
(***************************************************************************)
(* Durations of the configuration: a number of seconds in memory, a text   *)
(* with a unit in the file, in the API and in the settings form.  Here the *)
(* number counts milliseconds, and a text is an amount and its unit;       *)
(* "fraction" is a text in seconds with decimals, its amount in            *)
(* thousandths.                                                            *)
(***************************************************************************)
EXTENDS Integers

Units == {"ms", "s", "m", "h", "d", "fraction"}

Millis == [ms |-> 1, s |-> 1000, m |-> 60000, h |-> 3600000, d |-> 86400000,
           fraction |-> 1]

Texts == [amount : Nat, unit : Units]

ParseDuration(t) == t.amount * Millis[t.unit]

\* Mutant: whole minutes pass for hours.
UnitOfMinutes(v) ==
    IF v # 0 /\ v % Millis.m = 0 THEN "h" ELSE "s"

\* The first that fits, the largest first.
UnitOf(v) ==
    IF v = 0 THEN "s"
    ELSE IF v < 1000 THEN "ms"
    ELSE IF v % Millis.d = 0 THEN "d"
    ELSE IF v % Millis.h = 0 THEN "h"
    ELSE IF v % Millis.m = 0 THEN "m"
    ELSE IF v % Millis.s = 0 THEN "s"
    ELSE "fraction"

FormatDuration(v) == [amount |-> v \div Millis[UnitOf(v)], unit |-> UnitOf(v)]
=============================================================================
