-------------------------- MODULE SessionMigration --------------------------
(***************************************************************************)
(* Migration of one session between two decoders under one transfer id:    *)
(* run_decode_transfer on the source, the prepare, payload and commit      *)
(* handlers on the destination, the durable transfer journals and payload  *)
(* files of both, and the generations, saves, restores and restarts that   *)
(* happen meanwhile.                                                       *)
(*                                                                         *)
(* Every SessionStore call of a run is a step, two where it writes two     *)
(* files.  An HTTP call is an element of calls: its handler may run before *)
(* or after its caller has given up on it.  The content of a session is a  *)
(* version, made by commits; an exported payload is a number.              *)
(***************************************************************************)
EXTENDS Naturals

CONSTANTS Tasks,      \* spawn_blocking tasks running this transfer
          Modes,      \* modes asked for: "move", "copy"
          MaxVersion, \* bound: commits explored, on both sides
          MaxPayload, \* bound: payloads exported
          MaxFaults,  \* bound: lost calls and restarts
          Absent      \* no record, file, journal or caller

Acked == {"destination_committed", "destination_committed_source_retained"}
OutStatus == Acked \cup {"starting", "prepared", "transferring", "ambiguous", "completed"}
IncStatus == {"prepared", "uploaded", "committed"}
Waiting == {"preparing", "uploading", "committing"}
PCs == Waiting \cup {"idle", "first", "delete", "mark", "retain", "export", "begin", "journal",
                     "update", "prepare", "upload", "commit", "query", "ack", "last", "fail"}
Versions == 0..MaxVersion
Payloads == 1..MaxPayload
Calls == [by : Tasks \cup {Absent}, op : {"prepare", "upload", "streaming", "commit", "journal"},
          payload : Payloads \cup {Absent}]

VARIABLES srcRec, srcDisk, \* the session at the source: record, saved bundle
          dstRec, dstDisk, \* the same at the destination
          out,             \* outgoing journal
          outFile,         \* <transfer>.payload at the source
          inc,             \* incoming journal
          task,            \* program counter and payload of every task
          calls,           \* HTTP calls not answered yet
          content,         \* the version every payload was exported from
          exported,        \* the number of payloads
          version,         \* the last version committed
          faults,
          landed           \* history: payloads the destination has installed

srcVars == <<srcRec, srcDisk>>
dstVars == <<dstRec, dstDisk, inc, landed>>
bounds == <<content, exported, version, faults>>
migrationVars == <<srcVars, dstVars, out, outFile, task, calls, bounds>>

Record == [version : Versions, busy : BOOLEAN]
Outgoing == [status : OutStatus, mode : Modes, payload : Payloads \cup {Absent}, deleted : BOOLEAN]
Incoming == [status : IncStatus, payload : Payloads]
Task == [pc : PCs, payload : Payloads \cup {Absent}]

ASSUME MigrationAssumption ==
    /\ Modes \subseteq {"move", "copy"}
    /\ MaxVersion \in Nat /\ MaxPayload \in Nat /\ MaxFaults \in Nat
    /\ Absent \notin Nat \cup Tasks \cup Record \cup Outgoing \cup Incoming

MigrationTypeOK ==
    /\ srcRec \in Record \cup {Absent} /\ dstRec \in Record \cup {Absent}
    /\ srcDisk \in Versions \cup {Absent} /\ dstDisk \in Versions \cup {Absent}
    /\ out \in Outgoing \cup {Absent}
    /\ outFile \in Payloads \cup {Absent}
    /\ inc \in Incoming \cup {Absent}
    /\ task \in [Tasks -> Task]
    /\ calls \subseteq Calls
    /\ content \in [Payloads -> Versions]
    /\ exported \in 0..MaxPayload
    /\ version \in Versions
    /\ faults \in 0..MaxFaults
    /\ landed \subseteq Payloads

(* The session has one committed revision; it may have been saved.         *)
MigrationInit ==
    /\ srcRec = [version |-> 0, busy |-> FALSE] /\ srcDisk \in {0, Absent}
    /\ dstRec = Absent /\ dstDisk = Absent
    /\ out = Absent /\ outFile = Absent /\ inc = Absent
    /\ task = [t \in Tasks |-> [pc |-> "idle", payload |-> Absent]]
    /\ calls = {}
    /\ content = [p \in Payloads |-> 0]
    /\ exported = 0
    /\ version = 0
    /\ faults = 0
    /\ landed = {}

Goto(t, l) == task' = [task EXCEPT ![t].pc = l]

-----------------------------------------------------------------------------
(* The source                                                              *)

(* session_migrate: a new transfer id is registered, a known one resumed.  *)
Migrate(t) ==
    /\ task[t].pc = "idle"
    /\ IF out = Absent
       THEN /\ srcRec # Absent /\ ~srcRec.busy
            /\ \E m \in Modes :
                  out' = [status |-> "starting", mode |-> m, payload |-> Absent, deleted |-> FALSE]
       ELSE UNCHANGED out
    /\ Goto(t, "first")
    /\ UNCHANGED <<srcVars, dstVars, outFile, calls, bounds>>

(* reconcile_outgoing_after_ack, before the transfer and after it.         *)
Reconcile(t) ==
    /\ task[t].pc \in {"first", "last"}
    /\ \/ /\ out.status = "completed"
          /\ Goto(t, "idle") /\ UNCHANGED out
       \/ /\ out.status \in Acked /\ out.mode = "move"
          /\ Goto(t, "delete") /\ UNCHANGED out
       \/ /\ out.status \in Acked /\ out.mode = "copy"
          /\ Goto(t, "idle")
          /\ out' = [out EXCEPT !.status = "completed", !.deleted = FALSE]
       \/ /\ out.status \notin Acked \cup {"completed"}
          /\ Goto(t, IF task[t].pc = "first" THEN "export" ELSE "idle") /\ UNCHANGED out
    /\ UNCHANGED <<srcVars, dstVars, outFile, calls, bounds>>

(* delete_after_transfer: a session that is not in memory counts as gone.  *)
DeleteAfterTransfer(t) ==
    /\ task[t].pc = "delete"
    /\ IF out.status \in Acked /\ ~out.deleted /\ (srcRec # Absent => ~srcRec.busy)
       THEN /\ srcRec' = Absent
            /\ srcDisk' = IF srcRec = Absent THEN srcDisk ELSE Absent
            /\ Goto(t, "mark")
       ELSE Goto(t, "retain") /\ UNCHANGED srcVars
    /\ UNCHANGED <<dstVars, out, outFile, calls, bounds>>

MarkCompleted(t) ==
    /\ task[t].pc = "mark"
    /\ out' = [out EXCEPT !.status = "completed", !.deleted = TRUE]
    /\ Goto(t, "idle")
    /\ UNCHANGED <<srcVars, dstVars, outFile, calls, bounds>>

MarkRetained(t) ==
    /\ task[t].pc = "retain"
    /\ out' = [out EXCEPT !.status = "destination_committed_source_retained", !.deleted = FALSE]
    /\ Goto(t, "idle")
    /\ UNCHANGED <<srcVars, dstVars, outFile, calls, bounds>>

(* mutant: only a transfer that was never started is exported              *)
ExportFresh(t) ==
    /\ task[t].pc = "export"
    /\ IF out.status = "starting" THEN Goto(t, "begin") ELSE Goto(t, "fail")
    /\ UNCHANGED <<srcVars, dstVars, out, outFile, calls, bounds>>

(* resume_export, or begin_export for a transfer without material.         *)
Export(t) ==
    /\ task[t].pc = "export"
    /\ IF out.payload # Absent /\ outFile = out.payload
       THEN task' = [task EXCEPT ![t] = [pc |-> "update", payload |-> out.payload]]
       ELSE Goto(t, IF out.status = "starting" THEN "begin" ELSE "fail")
    /\ UNCHANGED <<srcVars, dstVars, out, outFile, calls, bounds>>

(* begin_export clones the bundle and writes the payload file ...          *)
BeginExport(t) ==
    /\ task[t].pc = "begin"
    /\ IF out.status = "starting" /\ out.payload = Absent /\ srcRec # Absent /\ ~srcRec.busy
       THEN /\ exported < MaxPayload
            /\ exported' = exported + 1
            /\ content' = [content EXCEPT ![exported'] = srcRec.version]
            /\ outFile' = exported'
            /\ task' = [task EXCEPT ![t] = [pc |-> "journal", payload |-> exported']]
       ELSE Goto(t, "fail") /\ UNCHANGED <<content, exported, outFile>>
    /\ UNCHANGED <<srcVars, dstVars, out, calls, version, faults>>

(* ... then the journal.                                                   *)
JournalExport(t) ==
    /\ task[t].pc = "journal"
    /\ out' = [status |-> "prepared", mode |-> out.mode, payload |-> task[t].payload,
               deleted |-> FALSE]
    /\ Goto(t, "update")
    /\ UNCHANGED <<srcVars, dstVars, outFile, calls, bounds>>

UpdateTransferring(t) ==
    /\ task[t].pc = "update"
    /\ out' = [out EXCEPT !.status = "transferring", !.deleted = FALSE]
    /\ Goto(t, "prepare")
    /\ UNCHANGED <<srcVars, dstVars, outFile, calls, bounds>>

Call(t, op, p, l) ==
    /\ calls' = calls \cup {[by |-> t, op |-> op, payload |-> p]}
    /\ Goto(t, l)
    /\ UNCHANGED <<srcVars, dstVars, out, outFile, bounds>>

SendPrepare(t) == task[t].pc = "prepare" /\ Call(t, "prepare", task[t].payload, "preparing")

(* The file that is uploaded is the one found under the payload's path.    *)
SendUpload(t) == task[t].pc = "upload" /\ Call(t, "upload", outFile, "uploading")

SendCommit(t) == task[t].pc = "commit" /\ Call(t, "commit", task[t].payload, "committing")

(* A call fails at its caller, whatever becomes of it.                     *)
Timeout(t) ==
    /\ task[t].pc \in Waiting
    /\ faults < MaxFaults
    /\ faults' = faults + 1
    /\ calls' = {[c EXCEPT !.by = IF @ = t THEN Absent ELSE @] : c \in calls}
    /\ Goto(t, IF task[t].pc = "preparing" THEN "fail" ELSE "query")
    /\ UNCHANGED <<srcVars, dstVars, out, outFile, content, exported, version>>

(* mutant: any answer to the query is taken for success                    *)
QueryOptimistic(t) ==
    /\ task[t].pc = "query"
    /\ Goto(t, "ack")
    /\ UNCHANGED <<srcVars, dstVars, out, outFile, calls, bounds>>

(* remote_transfer_status after a failed upload or commit.                 *)
Query(t) ==
    /\ task[t].pc = "query"
    /\ Goto(t, IF inc # Absent /\ inc.status = "committed" THEN "ack" ELSE "fail")
    /\ UNCHANGED <<srcVars, dstVars, out, outFile, calls, bounds>>

QueryFails(t) ==
    /\ task[t].pc = "query"
    /\ faults < MaxFaults
    /\ faults' = faults + 1
    /\ Goto(t, "fail")
    /\ UNCHANGED <<srcVars, dstVars, out, outFile, calls, content, exported, version>>

AckTransfer(t) ==
    /\ task[t].pc = "ack"
    /\ out' = [out EXCEPT !.status = "destination_committed", !.deleted = FALSE]
    /\ Goto(t, "last")
    /\ UNCHANGED <<srcVars, dstVars, outFile, calls, bounds>>

(* record_transfer_failure                                                 *)
Fail(t) ==
    /\ task[t].pc = "fail"
    /\ out' = IF out.status \in Acked \cup {"completed"} THEN out
              ELSE [out EXCEPT !.status = "ambiguous"]
    /\ Goto(t, "idle")
    /\ UNCHANGED <<srcVars, dstVars, outFile, calls, bounds>>

-----------------------------------------------------------------------------
(* The destination                                                         *)

(* The handler answers its caller, if it still waits.                      *)
Reply(c, l) ==
    /\ calls' = calls \ {c}
    /\ task' = IF c.by = Absent THEN task ELSE [task EXCEPT ![c.by].pc = l]

Proceed(c, op) == calls' = (calls \ {c}) \cup {[c EXCEPT !.op = op]} /\ UNCHANGED task

(* prepare_import: an id is never bound to a second payload.               *)
PrepareImport(c) ==
    /\ c \in calls /\ c.op = "prepare"
    /\ \/ /\ inc = Absent
          /\ inc' = [status |-> "prepared", payload |-> c.payload]
          /\ Reply(c, "upload")
       \/ /\ inc # Absent /\ inc.payload = c.payload
          /\ Reply(c, IF inc.status = "committed" THEN "ack" ELSE "upload")
          /\ UNCHANGED inc
       \/ /\ inc # Absent /\ inc.payload # c.payload
          /\ Reply(c, "fail")
          /\ UNCHANGED inc
    /\ UNCHANGED <<srcVars, dstRec, dstDisk, landed, out, outFile, bounds>>

(* payload_path is asked before the body is streamed ...                   *)
PayloadPath(c) ==
    /\ c \in calls /\ c.op = "upload"
    /\ IF inc # Absent /\ inc.status # "committed" THEN Proceed(c, "streaming") ELSE Reply(c, "query")
    /\ UNCHANGED <<srcVars, dstVars, out, outFile, bounds>>

(* ... and accept_payload after it: the status is set whatever it was.     *)
AcceptPayload(c) ==
    /\ c \in calls /\ c.op = "streaming"
    /\ IF c.payload = inc.payload
       THEN Reply(c, "commit") /\ inc' = [inc EXCEPT !.status = "uploaded"]
       ELSE Reply(c, "query") /\ UNCHANGED inc
    /\ UNCHANGED <<srcVars, dstRec, dstDisk, landed, out, outFile, bounds>>

Importing == inc # Absent /\ inc.status = "uploaded" /\ (dstRec # Absent => ~dstRec.busy)

(* commit_import installs the bundle, file and record, ...                 *)
CommitImport(c) ==
    /\ c \in calls /\ c.op = "commit"
    /\ \/ /\ inc # Absent /\ inc.status = "committed"
          /\ Reply(c, "ack") /\ UNCHANGED dstVars
       \/ /\ Importing
          /\ dstDisk' = content[inc.payload]
          /\ dstRec' = [version |-> dstDisk', busy |-> FALSE]
          /\ landed' = landed \cup {inc.payload}
          /\ Proceed(c, "journal") /\ UNCHANGED inc
       \/ /\ inc # Absent => inc.status # "committed" /\ ~Importing
          /\ Reply(c, "query") /\ UNCHANGED dstVars
    /\ UNCHANGED <<srcVars, out, outFile, bounds>>

(* ... then writes the journal.                                            *)
JournalImport(c) ==
    /\ c \in calls /\ c.op = "journal"
    /\ inc' = [inc EXCEPT !.status = "committed"]
    /\ Reply(c, "ack")
    /\ UNCHANGED <<srcVars, dstRec, dstDisk, landed, out, outFile, bounds>>

-----------------------------------------------------------------------------
(* What happens to the session meanwhile                                   *)

SrcBegin ==
    /\ srcRec # Absent /\ ~srcRec.busy /\ version < MaxVersion
    /\ srcRec' = [srcRec EXCEPT !.busy = TRUE]
    /\ UNCHANGED <<srcDisk, dstVars, out, outFile, task, calls, bounds>>

SrcCommit ==
    /\ srcRec # Absent /\ srcRec.busy /\ version < MaxVersion
    /\ version' = version + 1
    /\ srcRec' = [version |-> version', busy |-> FALSE]
    /\ UNCHANGED <<srcDisk, dstVars, out, outFile, task, calls, content, exported, faults>>

SrcAbort ==
    /\ srcRec # Absent /\ srcRec.busy
    /\ srcRec' = [srcRec EXCEPT !.busy = FALSE]
    /\ UNCHANGED <<srcDisk, dstVars, out, outFile, task, calls, bounds>>

SrcRestart ==
    /\ faults < MaxFaults
    /\ faults' = faults + 1
    /\ srcRec' = Absent
    /\ task' = [t \in Tasks |-> [pc |-> "idle", payload |-> Absent]]
    /\ calls' = {[c EXCEPT !.by = Absent] : c \in calls}
    /\ UNCHANGED <<srcDisk, dstVars, out, outFile, content, exported, version>>

SrcRestore ==
    /\ srcRec = Absent /\ srcDisk # Absent
    /\ srcRec' = [version |-> srcDisk, busy |-> FALSE]
    /\ UNCHANGED <<srcDisk, dstVars, out, outFile, task, calls, bounds>>

DstBegin ==
    /\ dstRec # Absent /\ ~dstRec.busy /\ version < MaxVersion
    /\ dstRec' = [dstRec EXCEPT !.busy = TRUE]
    /\ UNCHANGED <<srcVars, dstDisk, inc, landed, out, outFile, task, calls, bounds>>

DstCommit ==
    /\ dstRec # Absent /\ dstRec.busy /\ version < MaxVersion
    /\ version' = version + 1
    /\ dstRec' = [version |-> version', busy |-> FALSE]
    /\ UNCHANGED <<srcVars, dstDisk, inc, landed, out, outFile, task, calls, content, exported, faults>>

DstAbort ==
    /\ dstRec # Absent /\ dstRec.busy
    /\ dstRec' = [dstRec EXCEPT !.busy = FALSE]
    /\ UNCHANGED <<srcVars, dstDisk, inc, landed, out, outFile, task, calls, bounds>>

(* A call whose handler dies fails at its caller.                          *)
DstRestart ==
    /\ faults < MaxFaults
    /\ faults' = faults + 1
    /\ dstRec' = Absent
    /\ calls' = {}
    /\ task' = [t \in Tasks |-> [task[t] EXCEPT !.pc =
                 CASE @ = "preparing" -> "fail"
                   [] @ \in {"uploading", "committing"} -> "query"
                   [] OTHER -> @]]
    /\ UNCHANGED <<srcVars, dstDisk, inc, landed, out, outFile, content, exported, version>>

DstRestore ==
    /\ dstRec = Absent /\ dstDisk # Absent
    /\ dstRec' = [version |-> dstDisk, busy |-> FALSE]
    /\ UNCHANGED <<srcVars, dstDisk, inc, landed, out, outFile, task, calls, bounds>>

Source(t) ==
    \/ Reconcile(t) \/ DeleteAfterTransfer(t) \/ MarkCompleted(t) \/ MarkRetained(t)
    \/ Export(t) \/ BeginExport(t) \/ JournalExport(t) \/ UpdateTransferring(t)
    \/ SendPrepare(t) \/ SendUpload(t) \/ SendCommit(t)
    \/ Query(t) \/ AckTransfer(t) \/ Fail(t)

Handle(c) ==
    \/ PrepareImport(c) \/ PayloadPath(c) \/ AcceptPayload(c)
    \/ CommitImport(c) \/ JournalImport(c)

Retry(t) == out # Absent /\ out.status # "completed" /\ Migrate(t)

MigrationNext ==
    \/ \E t \in Tasks : Migrate(t) \/ Source(t) \/ Timeout(t) \/ QueryFails(t)
    \/ \E c \in Calls : Handle(c)
    \/ SrcBegin \/ SrcCommit \/ SrcAbort \/ SrcRestart \/ SrcRestore
    \/ DstBegin \/ DstCommit \/ DstAbort \/ DstRestart \/ DstRestore

MigrationSpec == MigrationInit /\ [][MigrationNext]_migrationVars

(* Threads and handlers run; the operator, told that the transfer is not   *)
(* completed, asks for it again.                                           *)
Fairness ==
    /\ \A t \in Tasks : WF_migrationVars(Source(t)) /\ WF_migrationVars(Retry(t))
    /\ WF_migrationVars(\E c \in Calls : Handle(c))

MigrationFairSpec == MigrationSpec /\ Fairness

-----------------------------------------------------------------------------
Landed == landed # {} /\ dstDisk # Absent

Believed ==
    \/ out # Absent /\ out.status \in Acked \cup {"completed"}
    \/ \E t \in Tasks : task[t].pc \in {"ack", "last", "delete", "mark", "retain"}

(* "The destination durably commits before a move can delete the source":  *)
(* a source that believes in the acknowledgement, and a run about to act   *)
(* on it, is right; restarts, lost calls and late ones notwithstanding.    *)
DestinationFirst == Believed => Landed

(* The session comes to rest on both sides, and one run at a time works on *)
(* the transfer: two that overlap may each export a payload and leave the  *)
(* id bound to the one that the other has overwritten.                     *)
AtRest == (srcRec # Absent => ~srcRec.busy) /\ (dstRec # Absent => ~dstRec.busy)
OneRun == \A t, u \in Tasks : task[t].pc # "idle" /\ task[u].pc # "idle" => t = u

(* resume_export and the journals: once the payload of a transfer is in    *)
(* the journal, calls that are lost, restarts of either side and           *)
(* generations that hold the session only delay it, as long as the session *)
(* comes to rest and the operator retries once a run has ended.            *)
ResumesToEnd ==
    <>[]AtRest /\ []OneRun
        => ((out # Absent /\ out.payload # Absent /\ outFile = out.payload)
              ~> (out # Absent /\ out.status = "completed"))
=============================================================================
