------------------------------ MODULE MCServer ------------------------------
(* Values of the constants of Server for TLC.                                *)
EXTENDS Server, TLC

CONSTANTS p1, p2, w1, s1
Procs == {p1, p2}
Workers == {w1}
Songs == {s1}
Symmetry == Permutations(Procs)
=============================================================================
