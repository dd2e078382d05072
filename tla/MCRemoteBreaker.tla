-------------------------- MODULE MCRemoteBreaker ---------------------------
(* Small instances of RemoteBreaker for TLC.                               *)
EXTENDS RemoteBreaker

CONSTANTS r1, r2, r3, noRequest

MCRequests == {r1, r2, r3}
MCPair == {r1, r2}
=============================================================================
