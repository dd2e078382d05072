-------------------------- MODULE MCVerifierGateway --------------------------
(* A small instance of VerifierGateway for TLC.                            *)
EXTENDS VerifierGateway

CONSTANTS i1, i2, f1

MCIds == {i1, i2}
MCFrags == {f1}
OneFragment == {{f1}}
=============================================================================
