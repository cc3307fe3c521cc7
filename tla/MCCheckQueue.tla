---------------------------- MODULE MCCheckQueue ----------------------------
(* CheckQueue with two workers and blocks of up to four checks, one bad.   *)
EXTENDS CheckQueue

CONSTANTS w1, w2, c1, c2, c3, c4

MCWorkers == {w1, w2}
MCChecks == {c1, c2, c3, c4}
MCGood == {c1, c2, c3}

=============================================================================
