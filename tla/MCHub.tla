------------------------------- MODULE MCHub --------------------------------
(* Values of the constants of Hub for TLC: two browsers at one address, one  *)
(* failed login allowed, two names an administrator might choose.            *)
EXTENDS Hub, TLC

CONSTANTS c1, c2, u1, u2, i1
Conns == {c1, c2}
Usernames == {u1, u2}
Uids == {i1}
Symmetry == Permutations(Conns) \cup Permutations(Usernames)
=============================================================================
