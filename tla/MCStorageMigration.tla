------------------------- MODULE MCStorageMigration -------------------------
(* Small instances of StorageMigration for TLC.                            *)
EXTENDS StorageMigration

CONSTANTS t1, t2, none

MCOneTask == {t1}
MCTwoTasks == {t1, t2}
=============================================================================
