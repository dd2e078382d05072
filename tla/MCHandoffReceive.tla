-------------------------- MODULE MCHandoffReceive --------------------------
(* Small instances of HandoffReceive for TLC.                              *)
EXTENDS HandoffReceive

CONSTANTS epoch1, epoch2, promptA, promptB, none

MCScopes == {epoch1, epoch2}
MCPrompts == {promptA, promptB}
=============================================================================
