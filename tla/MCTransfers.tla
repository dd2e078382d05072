---------------------------- MODULE MCTransfers -----------------------------
(***************************************************************************)
(* Work that spans two machines and survives restarts of either, in one    *)
(* run: migration of a session to another decoder, migration to a storage  *)
(* node, and onboarding of a producer node.  A behaviour is one of these   *)
(* three; the variables of the others rest.                                *)
(***************************************************************************)
EXTENDS SessionMigration, TLC

CONSTANTS t1, gx10, spark, none

MCOneTask == {t1}

VARIABLES which,
          mem, disk, file, remote, journal, pc, trials,
          registry, lease, cli, ca, local, lane, daemon, unit, server, job,
          build, minted, trouble

Storage == INSTANCE StorageMigration WITH
    MaxFaults <- 4, None <- Absent, out <- journal, faults <- trials
Nodes == INSTANCE NodeOnboarding WITH
    Names <- {gx10}, Host <- (gx10 :> spark), None <- Absent,
    MaxMinted <- 3, MaxEpoch <- 3, MaxBuild <- 2, MaxTrouble <- 2

storageVars == <<mem, disk, file, remote, journal, pc, trials>>
nodeVars == <<registry, lease, cli, ca, local, lane, daemon, unit, server, job,
              build, minted, trouble>>

TransfersInit ==
    /\ which \in {"session", "storage", "node"}
    /\ MigrationInit /\ Storage!Init /\ Nodes!Init

InSession == which = "session" /\ UNCHANGED <<which, storageVars, nodeVars>>
InNode == which = "node" /\ UNCHANGED <<which, migrationVars, storageVars>>

TransfersNext ==
    \/ MigrationNext /\ InSession
    \/ which = "storage" /\ Storage!Next /\ UNCHANGED <<which, migrationVars, nodeVars>>
    \/ Nodes!Next /\ InNode

transferVars == <<which, migrationVars, storageVars, nodeVars>>

(***************************************************************************)
(* The fairness of the components' own specifications.                     *)
(***************************************************************************)
TransfersSpec ==
    /\ TransfersInit /\ [][TransfersNext]_transferVars
    /\ \A t \in MCOneTask :
         /\ WF_transferVars(which = "session" /\ Source(t) /\ InSession)
         /\ WF_transferVars(which = "session" /\ Retry(t) /\ InSession)
    /\ WF_transferVars(which = "session" /\ (\E c \in Calls : Handle(c)) /\ InSession)
    /\ WF_transferVars(which = "node" /\ Nodes!Work /\ InNode)
    /\ WF_transferVars(which = "node" /\ Nodes!Child /\ InNode)
    /\ WF_transferVars(which = "node" /\ Nodes!Activate /\ InNode)
    /\ SF_transferVars(which = "node" /\ Nodes!Add(gx10, TRUE) /\ InNode)

-----------------------------------------------------------------------------
(* Storage migration: a saved session is on disk here or there.            *)
NeverLost == Storage!NeverLost

(* Rerunning `node add --repair` ends with a healthy node, or in one of    *)
(* three states that no rerun gets past.                                   *)
RerunConverges == [](which = "node") => Nodes!RerunConverges
=============================================================================
