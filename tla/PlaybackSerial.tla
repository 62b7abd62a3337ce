--------------------------- MODULE PlaybackSerial ---------------------------
(* Playback implements SerialPlayer: a task wants the track of its pending   *)
(* or running play_track, and the player is the holder of _play_lock.        *)
EXTENDS Playback

wanted == [t \in Task |-> IF task[t].pc = "want" \/ InPlay(t) THEN task[t].arg ELSE NoTrack]

Serial == INSTANCE SerialPlayer
            WITH wanted <- wanted, player <- playLock, shown <- current, loaded <- mpvTrack

(* Whatever the tasks do, and wherever they are cancelled, tracks are played *)
(* one attempt at a time, each request at most once, and what is shown and   *)
(* what mpv gets belongs to the attempt in progress.                         *)
PlaysSerially == Serial!Spec
=============================================================================
