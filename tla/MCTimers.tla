------------------------------ MODULE MCTimers ------------------------------
(* Timers with two timer ids, delays up to 2 and lateness up to 3.           *)
EXTENDS Timers

CONSTANTS t1, t2

MCTask == {t1, t2}
MCTimer == {t1, t2}
=============================================================================
