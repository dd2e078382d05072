-------------------------- MODULE MCDecodeBatcher ---------------------------
(* Small instances of DecodeBatcher for TLC.                               *)
EXTENDS DecodeBatcher

CONSTANTS noIndex, noResult

MCThree == 0..2
MCOutcomes == {"ok", "err"}
MCOk == {"ok"}
=============================================================================
