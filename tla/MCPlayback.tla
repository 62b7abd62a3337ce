----------------------------- MODULE MCPlayback -----------------------------
(* Values of the constants of Playback for TLC.  Background slots and        *)
(* clients are interchangeable, the tracks are not: a fetch returns t2.      *)
EXTENDS PlaybackSerial, TLC

CONSTANTS t1, t2

AllOps == ClientOps
Fetched == {<<t2>>}
Sym == Permutations(Client) \cup Permutations(Bg)
=============================================================================
