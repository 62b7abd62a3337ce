----------------------------- MODULE MCMpvLink ------------------------------
(* Values of the constants of MpvLink for TLC: two tasks, two properties.   *)
EXTENDS MpvLink, TLC

CONSTANTS m1, m2
Callers == {m1, m2}
Props == {"time-pos", "duration"}
=============================================================================
