--------------------------- MODULE MCKvpackStore ---------------------------
(* A local publication and an import of the same chunk content.            *)
EXTENDS KvpackStore, FiniteSetsExt

MCContent == [k1 |-> <<"a">>, i1 |-> <<"a">>]
MCManifestOf == [k1 |-> "mk", i1 |-> "m1"]

-----------------------------------------------------------------------------
(* What the store offers is there: whatever the catalog offers to readers   *)
(* is on disk, and reserved_bytes, against which reserve_upload admits, is  *)
(* the reservations of the uploads in flight, whichever publications,       *)
(* aborts, quarantines and restarts came before.                            *)
StoreExact ==
    /\ ReadableHasFile
    /\ tenant.reserved = FoldSet(LAMBDA k, sum : sum + Expected(k), 0, InFlight)
=============================================================================
