------------------------------ MODULE MCLibrary -----------------------------
(* Values of the constants of Library for TLC.                               *)
EXTENDS Library

CONSTANTS t1, t2, v1, f
Tasks == {t1, t2}
OneVideo == {v1}
Files == {f}
OneName == [v \in Video |-> f]
=============================================================================
