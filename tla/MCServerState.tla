--------------------------- MODULE MCServerState ----------------------------
(***************************************************************************)
(* What the server keeps between and beside requests, in one run: a        *)
(* logical session, the slot pool, a resumable stream, and the registry of *)
(* producer nodes (two names for one host: an address and the alias it     *)
(* resolves from).  A behaviour is one of these four; the variables of the *)
(* others rest.                                                            *)
(***************************************************************************)
EXTENDS SessionStore, SlotPool, ResumableStream, TLC

CONSTANTS w1, w2, v1, l1, k1, k2, t1, t2, t3, s0, s1, r1,
          gx10, alias, spark, any, none

MCWorkers == {w1, w2}
MCSavers == {v1}
MCRestorers == {l1}
MCKeys == {k1, k2}
MCBody == {"a"}
MCThreads == {t1, t2, t3}
MCSlots == {s0, s1}
MCWants == {any, s0, s1}
MCReaders == {r1}
MCSymmetry == Permutations(MCThreads) \cup Permutations(MCWorkers)

VARIABLES which,
          registry, lease, cli, ca, local, lane, daemon, unit, server, job,
          build, minted, trouble

Nodes == INSTANCE NodeOnboarding WITH
            Names <- {gx10, alias}, Host <- (gx10 :> spark @@ alias :> spark), None <- none,
            MaxMinted <- 3, MaxEpoch <- 3, MaxBuild <- 2, MaxTrouble <- 2

nodeVars == <<registry, lease, cli, ca, local, lane, daemon, unit, server, job,
              build, minted, trouble>>

StateInit ==
    /\ which \in {"session", "pool", "stream", "node"}
    /\ Init /\ PoolInit /\ StreamInit /\ Nodes!Init

StateNext ==
    /\ UNCHANGED which
    /\ \/ which = "session" /\ Next /\ UNCHANGED <<poolVars, streamVars, nodeVars>>
       \/ which = "pool" /\ PoolNext /\ UNCHANGED <<vars, streamVars, nodeVars>>
       \/ which = "stream" /\ StreamNext /\ UNCHANGED <<vars, poolVars, nodeVars>>
       \/ which = "node" /\ Nodes!Next /\ UNCHANGED <<vars, poolVars, streamVars>>

StateSpec == StateInit /\ [][StateNext]_<<which, vars, poolVars, streamVars, nodeVars>>

-----------------------------------------------------------------------------
(* enroll::run_native, smoke::run: a row that reads healthy has files on   *)
(* this Mac that agree with the enrollment active on the node; one row per *)
(* endpoint (reject_duplicate_control_endpoint); and the node `muser up`   *)
(* serves keeps its row and its credentials.                               *)
RegistryExact ==
    Nodes!HealthyIsProven /\ Nodes!OneRowPerEndpoint /\ Nodes!ServingStable
=============================================================================
