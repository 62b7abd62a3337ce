---------------------------- MODULE SerialPlayer ----------------------------
(***************************************************************************)
(* What the playback controller promises about playing, with no commands,  *)
(* modes or failures in it: requests to play a track are taken up one at a *)
(* time and each at most once; the track shown is the one the attempt in   *)
(* progress is for, until the next attempt begins or the display is        *)
(* cleared; and mpv is only ever given the track of the attempt in         *)
(* progress.  Playback implements it (PlaybackSerial).                     *)
(***************************************************************************)
CONSTANTS Task, Track, NoTrack, NoTask

VARIABLES
    wanted,   \* the track each task wants to play or is playing
    player,   \* the task whose attempt is in progress
    shown,    \* the track shown as current
    loaded    \* the file mpv has

vars == <<wanted, player, shown, loaded>>

Init ==
    /\ wanted = [t \in Task |-> NoTrack]
    /\ player = NoTask
    /\ shown = NoTrack
    /\ loaded = NoTrack

(* Requests are made and never altered; they end when their attempt does or *)
(* when they are withdrawn, and that frees the player.  The display may be  *)
(* cleared at any time (a stop, a step back).                               *)
Requests ==
    /\ wanted' \in [Task -> Track \cup {NoTrack}]
    /\ \A t \in Task : wanted[t] # NoTrack => wanted'[t] \in {wanted[t], NoTrack}
    /\ player' = IF player # NoTask /\ wanted'[player] = NoTrack THEN NoTask ELSE player
    /\ shown' \in {shown, NoTrack}
    /\ UNCHANGED loaded

Begin ==
    \E t \in Task :
        /\ player = NoTask /\ wanted[t] # NoTrack
        /\ player' = t
        /\ shown' = wanted[t]
        /\ UNCHANGED <<wanted, loaded>>

Load ==
    /\ player # NoTask
    /\ loaded' = wanted[player]
    /\ UNCHANGED <<wanted, player, shown>>

FileEnds ==
    /\ loaded # NoTrack
    /\ loaded' = NoTrack
    /\ UNCHANGED <<wanted, player, shown>>

Next == Requests \/ Begin \/ Load \/ FileEnds

Spec == Init /\ [][Next]_vars
=============================================================================
