---------------------------- MODULE MCDownloads -----------------------------
(* Values of the constants of Downloads for TLC.  Two task slots are enough *)
(* to show a second download, if the flag were to let one through.          *)
EXTENDS Downloads, TLC

CONSTANTS d1, d2
Jobs == {d1, d2}
=============================================================================
