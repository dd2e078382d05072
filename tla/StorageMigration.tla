-------------------------- MODULE StorageMigration --------------------------
(***************************************************************************)
(* Migration of one session to the storage tier and back under one         *)
(* transfer id: run_storage_transfer and run_storage_restore, which run as *)
(* blocking tasks and may overlap, the outgoing journal, the payload file, *)
(* and the file the shell scripts keep on the storage node.                *)
(*                                                                         *)
(* Only where the session is matters here, not what is in it: mem, disk,   *)
(* file and remote say whether the record, the saved bundle, the payload   *)
(* file and the storage node's file exist.  A record in memory may be busy *)
(* whenever somebody looks.  An ssh command may fail after it has had its  *)
(* effect.                                                                 *)
(***************************************************************************)
EXTENDS Naturals

CONSTANTS Tasks,     \* blocking tasks of this transfer
          Modes,     \* modes asked for: "move", "copy"
          MaxFaults, \* bound: failed commands and restarts
          None

Acked == {"destination_committed", "destination_committed_source_retained"}
Restored == {"source_restored", "source_restored_remote_retained"}
Kept == Acked \cup Restored \cup {"completed"}
Status == Kept \cup {"starting", "prepared", "transferring", "ambiguous"}
PCs == {"idle", "first", "delete", "mark", "cleanup", "export", "journal", "update", "store", "ack",
        "last", "fail", "restore", "fetch", "install", "restored", "forget", "forgotten", "kept"}

VARIABLES mem, disk, file, remote, \* where the session exists
          out,                     \* journal: None, or a record
          pc,                      \* of every task
          faults

places == <<mem, disk, file, remote>>
vars == <<places, out, pc, faults>>

TypeOK ==
    /\ places \in BOOLEAN \X BOOLEAN \X BOOLEAN \X BOOLEAN
    /\ out \in [status : Status, mode : Modes, material : BOOLEAN, deleted : BOOLEAN] \cup {None}
    /\ pc \in [Tasks -> PCs]
    /\ faults \in 0..MaxFaults

(* A session with committed state that has been saved.                     *)
Init ==
    /\ mem = TRUE /\ disk = TRUE /\ file = FALSE /\ remote = FALSE
    /\ out = None
    /\ pc = [t \in Tasks |-> "idle"]
    /\ faults = 0

Goto(t, l) == pc' = [pc EXCEPT ![t] = l]

Update(t, s, deleted, l) ==
    /\ out' = [out EXCEPT !.status = s, !.deleted = deleted]
    /\ Goto(t, l)
    /\ UNCHANGED <<places, faults>>

-----------------------------------------------------------------------------
(* run_storage_transfer                                                    *)

Migrate(t) ==
    /\ pc[t] = "idle"
    /\ IF out = None
       THEN /\ mem
            /\ \E m \in Modes : out' = [status |-> "starting", mode |-> m, material |-> FALSE,
                                        deleted |-> FALSE]
       ELSE UNCHANGED out
    /\ Goto(t, "first")
    /\ UNCHANGED <<places, faults>>

Reconcile(t) ==
    /\ pc[t] \in {"first", "last"}
    /\ \/ out.status = "completed" /\ Goto(t, "cleanup") /\ UNCHANGED <<out, places, faults>>
       \/ /\ out.status \in Acked /\ out.mode = "move"
          /\ Goto(t, "delete") /\ UNCHANGED <<out, places, faults>>
       \/ /\ out.status \in Acked /\ out.mode = "copy"
          /\ Update(t, "completed", FALSE, "cleanup")
       \/ /\ out.status \notin Acked \cup {"completed"}
          /\ Goto(t, IF pc[t] = "first" THEN "export" ELSE "cleanup")
          /\ UNCHANGED <<out, places, faults>>

(* delete_after_transfer; the error path keeps the source.                 *)
DeleteAfterTransfer(t) ==
    /\ pc[t] = "delete"
    /\ \/ /\ out.status \in Acked /\ ~out.deleted
          /\ mem' = FALSE
          /\ disk' = (disk /\ ~mem)
          /\ Goto(t, "mark")
       \/ /\ mem \/ out.status \notin Acked \/ out.deleted
          /\ Goto(t, "kept") /\ UNCHANGED <<mem, disk>>
    /\ UNCHANGED <<file, remote, out, faults>>

MarkCompleted(t) == pc[t] = "mark" /\ Update(t, "completed", TRUE, "cleanup")

MarkRetained(t) ==
    pc[t] = "kept" /\ Update(t, "destination_committed_source_retained", FALSE, "cleanup")

(* remove_transfer_payload once the source is deleted.                     *)
Cleanup(t) ==
    /\ pc[t] = "cleanup"
    /\ file' = (file /\ ~out.deleted)
    /\ Goto(t, "idle")
    /\ UNCHANGED <<mem, disk, remote, out, faults>>

(* resume_export, or begin_export, which writes the payload file first.    *)
Export(t) ==
    /\ pc[t] = "export"
    /\ \/ out.material /\ file /\ Goto(t, "update") /\ UNCHANGED file
       \/ /\ ~(out.material /\ file) /\ out.status = "starting" /\ mem
          /\ file' = TRUE /\ Goto(t, "journal")
       \/ ~(out.material /\ file) /\ Goto(t, "fail") /\ UNCHANGED file
    /\ UNCHANGED <<mem, disk, remote, out, faults>>

JournalExport(t) ==
    /\ pc[t] = "journal"
    /\ out' = [out EXCEPT !.status = "prepared", !.material = TRUE, !.deleted = FALSE]
    /\ Goto(t, "update")
    /\ UNCHANGED <<places, faults>>

UpdateTransferring(t) == pc[t] = "update" /\ Update(t, "transferring", FALSE, "store")

(* mutant: a failed command is taken for success                           *)
StoreUnchecked(t) ==
    /\ pc[t] = "store"
    /\ remote' \in {TRUE, remote}
    /\ Goto(t, "ack")
    /\ UNCHANGED <<mem, disk, file, out, faults>>

(* scp, then STORAGE_COMMIT, which accepts a file that is there already.   *)
Store(t) ==
    /\ pc[t] = "store"
    /\ \/ file /\ remote' = TRUE /\ Goto(t, "ack") /\ UNCHANGED faults
       \/ /\ file => faults < MaxFaults
          /\ faults' = IF file THEN faults + 1 ELSE faults
          /\ remote' \in {remote, remote \/ file}
          /\ Goto(t, "fail")
    /\ UNCHANGED <<mem, disk, file, out>>

Ack(t) == pc[t] = "ack" /\ Update(t, "destination_committed", FALSE, "last")

(* record_transfer_failure                                                 *)
Fail(t) ==
    /\ pc[t] = "fail"
    /\ out' = IF out.status \in Kept THEN out ELSE [out EXCEPT !.status = "ambiguous"]
    /\ Goto(t, "idle")
    /\ UNCHANGED <<places, faults>>

-----------------------------------------------------------------------------
(* run_storage_restore                                                     *)

Restore(t) ==
    /\ pc[t] = "idle" /\ out # None
    /\ Goto(t, "restore")
    /\ UNCHANGED <<places, out, faults>>

(* A completed transfer is left alone; a restored one only forgets the     *)
(* remote file.                                                            *)
RestoreStatus(t) ==
    /\ pc[t] = "restore"
    /\ Goto(t, CASE out.status = "completed" -> "idle"
                 [] out.status \in Restored -> "forget"
                 [] OTHER -> "fetch")
    /\ UNCHANGED <<places, out, faults>>

(* scp_from and adopt_export_payload, which needs the journal's digest.    *)
Fetch(t) ==
    /\ pc[t] = "fetch"
    /\ \/ remote /\ out.material /\ file' = TRUE /\ Goto(t, "install") /\ UNCHANGED faults
       \/ ~(remote /\ out.material) /\ Goto(t, "fail") /\ UNCHANGED <<file, faults>>
       \/ faults < MaxFaults /\ faults' = faults + 1 /\ Goto(t, "fail") /\ UNCHANGED file
    /\ UNCHANGED <<mem, disk, remote, out>>

(* restore_export: the bundle file, then the record.                       *)
RestoreExport(t) ==
    /\ pc[t] = "install"
    /\ \/ file /\ mem' = TRUE /\ disk' = TRUE /\ Goto(t, "restored")
       \/ (mem \/ ~file) /\ Goto(t, "fail") /\ UNCHANGED <<mem, disk>>
    /\ UNCHANGED <<file, remote, out, faults>>

SourceRestored(t) == pc[t] = "restored" /\ Update(t, "source_restored", FALSE, "forget")

(* STORAGE_DELETE, for a move.                                             *)
Forget(t) ==
    /\ pc[t] = "forget"
    /\ \/ /\ out.mode = "copy" /\ Goto(t, "forgotten") /\ UNCHANGED <<remote, faults>>
       \/ /\ out.mode = "move"
          /\ remote' = FALSE /\ Goto(t, "forgotten") /\ UNCHANGED faults
       \/ /\ out.mode = "move" /\ faults < MaxFaults /\ faults' = faults + 1
          /\ remote' \in {remote, FALSE} /\ Goto(t, "idle")
    /\ \/ pc'[t] = "forgotten" /\ UNCHANGED out
       \/ /\ pc'[t] = "idle"
          /\ out' = [out EXCEPT !.status = "source_restored_remote_retained", !.deleted = FALSE]
    /\ UNCHANGED <<mem, disk, file>>

Forgotten(t) == pc[t] = "forgotten" /\ Update(t, "completed", FALSE, "idle")

-----------------------------------------------------------------------------
Restart ==
    /\ faults < MaxFaults
    /\ faults' = faults + 1
    /\ mem' = FALSE
    /\ pc' = [t \in Tasks |-> "idle"]
    /\ UNCHANGED <<disk, file, remote, out>>

(* The operator restores the saved bundle by POST restore.                 *)
LocalRestore ==
    /\ ~mem /\ disk
    /\ mem' = TRUE
    /\ UNCHANGED <<disk, file, remote, out, pc, faults>>

Run(t) ==
    \/ Reconcile(t) \/ DeleteAfterTransfer(t) \/ MarkCompleted(t) \/ MarkRetained(t) \/ Cleanup(t)
    \/ Export(t) \/ JournalExport(t) \/ UpdateTransferring(t) \/ Store(t) \/ Ack(t) \/ Fail(t)
    \/ RestoreStatus(t) \/ Fetch(t) \/ RestoreExport(t) \/ SourceRestored(t) \/ Forget(t)
    \/ Forgotten(t)

Next ==
    \/ \E t \in Tasks : Migrate(t) \/ Restore(t) \/ Run(t)
    \/ Restart \/ LocalRestore

Spec == Init /\ [][Next]_vars

-----------------------------------------------------------------------------
(* "The destination durably commits before a move can delete the source":  *)
(* wherever a restart or a failed command strikes, the saved session is on *)
(* disk here or on the storage node.                                       *)
NeverLost == disk \/ remote
=============================================================================
