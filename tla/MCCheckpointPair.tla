-------------------------- MODULE MCCheckpointPair --------------------------
(* Three cursors, one of them too large, and a generation counter of width 5 *)
(* so that ErrCheckpointFull at ^uint64(0) is reached.                       *)
EXTENDS CheckpointPair

CONSTANTS s1, s2, big

MCStates == {s1, s2, big}
MCOversize == {big}
=============================================================================
