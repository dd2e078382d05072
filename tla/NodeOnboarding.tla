-------------------------- MODULE NodeOnboarding --------------------------
(***************************************************************************)
(* `muser node add` and the steps of its pipeline, the node registry, the  *)
(* topology lease that excludes one process from another, the onboarding   *)
(* job of the dashboard and the server that uses an enrolled node:         *)
(* crates/muser-server/src/node/, nodes_api.rs and up.rs, native lane.     *)
(*                                                                         *)
(* An enrollment attempt mints a client leaf, a node certificate and an    *)
(* HMAC key.  What they are does not matter here, only which attempt they  *)
(* come from: a credential is the attempt that made it.                    *)
(***************************************************************************)
EXTENDS Integers

CONSTANTS
    Names,       \* names a node can be registered under
    Host,        \* [Names -> hosts]: the endpoint a name resolves to
    None,
    MaxMinted,   \* bound: enrollment attempts
    MaxEpoch,    \* bound: HMAC epochs
    MaxBuild,    \* bound: releases of this program
    MaxTrouble   \* bound: failures, kills, reboots, single-step commands, upgrades

VARIABLES
    registry,    \* nodes.toml: a row per name, or None
    lease,       \* holder of node-operation.lock
    cli,         \* the node command that runs, or None
    ca,          \* lab CA: "absent", "claimed" (key file only) or "minted"
    local,       \* per name: cluster.json, mac-e<N> leaves, hmac.key
    lane,        \* per name: the node's lane directory
    daemon,      \* per host: the credentials the running producer loaded
    unit,        \* per host: the name whose lane the systemd unit starts
    server,      \* `muser up`: the node it chose and the one it serves
    job,         \* the onboarding job of the dashboard, or None
    build,       \* the release this Mac runs
    minted,
    trouble

vars == <<registry, lease, cli, ca, local, lane, daemon, unit, server, job,
          build, minted, trouble>>

Hosts  == {Host[n] : n \in Names}
Epochs == 1..MaxEpoch
Mixed  == 0      \* a lane some of whose runtime files were replaced
NoRun  == -1     \* no runtime recorded or staged

Attempts == [epoch : Epochs, id : 1..MaxMinted, runtime : 1..MaxBuild \cup {NoRun}]
States   == {"draft", "preflight-ok", "deployed", "needs-reenrollment", "enrolled",
             "healthy", "error"}
\* A registry row.  `rejoin` says that last_error carries REJOIN_ERROR_PREFIX.
\* "error" stands for STATE_ERROR and STATE_BLOCKED.
Rows == [state : States, epoch : 0..MaxEpoch, version : {0, 2},
         runtime : 1..MaxBuild \cup {NoRun}, rejoin : BOOLEAN]

Draft == [state |-> "draft", epoch |-> 0, version |-> 0, runtime |-> NoRun,
          rejoin |-> FALSE]

\* Registry::load: a legacy enrollment must be renewed.
Load(row) ==
    IF row # None /\ row.version < 2 /\ row.state \in {"enrolled", "healthy"}
    THEN [row EXCEPT !.state = "needs-reenrollment", !.rejoin = FALSE]
    ELSE row

\* The credentials both ends hold.
Leaf(n) == local[n].mac[local[n].cluster.epoch]
Stage(n) == lane[n].stage[lane[n].active]

\* Mutual TLS with pinned leaves, and the HMAC under one key id and epoch.
Agree(n, d) ==
    /\ local[n].cluster # None
    /\ d.cert = local[n].cluster
    /\ d.handoff = Leaf(n)
    /\ d.key = local[n].hmac
    /\ d.handoff.epoch = local[n].cluster.epoch

\* What muser_native_prefilld.py loads when the unit starts it for lane n: the
\* active enrollment, if the staged runtime is the one it was enrolled with.
Started(n) ==
    IF /\ lane[n].active # 0
       /\ None \notin {Stage(n).cert, Stage(n).key, Stage(n).handoff}
       /\ lane[n].staged = Stage(n).handoff.runtime
    THEN [cert |-> Stage(n).cert, key |-> Stage(n).key, handoff |-> Stage(n).handoff]
    ELSE None

\* serving_target
Servable(n) ==
    LET row == Load(registry[n]) IN
    /\ row # None
    /\ row.state = "healthy" /\ row.version = 2
    /\ row.runtime = build
    /\ local[n].cluster # None

\* fast_rejoin_eligible
RejoinEligible(n, row) ==
    /\ row.version = 2 /\ row.epoch > 0
    /\ row.state = "healthy" \/ row.rejoin
    /\ row.runtime = build
    /\ local[n].cluster # None

Idle == [chosen |-> None, serving |-> None]

Init ==
    /\ registry = [n \in Names |-> None]
    /\ lease = "free"
    /\ cli = None
    /\ ca = "absent"
    /\ local = [n \in Names |-> [cluster |-> None, mac |-> [e \in Epochs |-> None],
                                 hmac |-> None]]
    /\ lane = [n \in Names |->
                 [staged |-> NoRun, active |-> 0, pki |-> "absent", backup |-> FALSE,
                  stage |-> [e \in Epochs |-> [cert |-> None, key |-> None,
                                               handoff |-> None]]]]
    /\ daemon = [h \in Hosts |-> None]
    /\ unit = [h \in Hosts |-> None]
    /\ server = Idle
    /\ job = None
    /\ build = 1
    /\ minted = 0 /\ trouble = 0

(***************************************************************************)
(* One node command.  `at` is the work it does next, `reg` the registry as *)
(* it loaded it and `entry` the row it works on.                           *)
(***************************************************************************)
\* The process ends: the lease goes with it, and the job that spawned it goes
\* on to activation or ends.
Exit(ok) ==
    /\ cli' = None
    /\ lease' = "free"
    /\ job' = IF ~cli.job THEN job
              ELSE IF ok THEN [job EXCEPT !.phase = "activate"] ELSE None

PersistReloaded(e) == registry' = [[m \in Names |-> Load(registry[m])] EXCEPT ![cli.name] = e]

\* persist: the in-memory registry, with the entry, replaces the file.
Persist(e) == registry' = [cli.reg EXCEPT ![cli.name] = e]

AfterStep(step) ==
    CASE step = "preflight" -> "lane"
      [] step = "deploy"    -> "model"
      [] step = "model"     -> "enroll"
      [] step = "enroll"    -> "daemon"
      [] step = "daemon"    -> "smoke"

\* A step succeeded with entry e.
StepOk(step, e) ==
    /\ Persist(e)
    /\ IF cli.cmd = "add" /\ step # "smoke"
       THEN /\ cli' = [cli EXCEPT !.reg = registry', !.entry = e, !.at = AfterStep(step)]
            /\ UNCHANGED <<lease, job>>
       ELSE Exit(TRUE)

\* A step failed: the entry records it and the run stops.
StepErr(rejoin) ==
    /\ Persist([cli.entry EXCEPT !.state = "error", !.rejoin = rejoin])
    /\ Exit(FALSE)

Goto(at) == cli' = [cli EXCEPT !.at = at] /\ UNCHANGED <<registry, lease, job>>

Trouble == trouble < MaxTrouble /\ trouble' = trouble + 1

NodeSide == <<lane, daemon, unit>>
MacSide  == <<ca, local, minted>>
Around   == <<server, build>>

(***************************************************************************)
(* Commands.                                                               *)
(***************************************************************************)
Loaded == [m \in Names |-> Load(registry[m])]

Duplicates(n) == {m \in Names \ {n} : registry[m] # None /\ Host[m] = Host[n]}

\* reject_duplicate_control_endpoint lets the command through.
EndpointFree(n, repair) ==
    /\ \A m \in Duplicates(n) : Loaded[m].state # "healthy"
    /\ Duplicates(n) # {} => repair

InBounds(n) ==
    minted < MaxMinted /\ (registry[n] # None => registry[n].epoch < MaxEpoch)

\* add, up to its first remote command.
Begin(n, repair, fromJob) ==
    LET reg == [m \in Names |-> IF m \in Duplicates(n) THEN None ELSE Loaded[m]]
        e   == IF reg[n] = None THEN Draft ELSE reg[n] IN
    /\ lease = "free" /\ lease' = "cli"
    /\ EndpointFree(n, repair) /\ InBounds(n)
    /\ cli' = [cmd |-> "add", name |-> n, job |-> fromJob, reg |-> reg, entry |-> e,
               new |-> None,
               at |-> IF ~repair /\ RejoinEligible(n, e) THEN "probe" ELSE "preflight"]

Add(n, repair) ==
    /\ Begin(n, repair, FALSE)
    /\ UNCHANGED <<registry, job, trouble, MacSide, NodeSide, Around>>

\* single: one step against a registered node.
FirstWork == [preflight |-> "preflight", deploy |-> "lane", model |-> "model",
              enroll |-> "enroll", daemon |-> "daemon", smoke |-> "smoke"]

Single(n, step) ==
    /\ lease = "free" /\ lease' = "cli"
    /\ registry[n] # None
    /\ Trouble
    /\ step = "enroll" => InBounds(n)
    /\ cli' = [cmd |-> step, name |-> n, job |-> FALSE, reg |-> Loaded,
               entry |-> Loaded[n], new |-> None, at |-> FirstWork[step]]
    /\ UNCHANGED <<registry, job, server, build, MacSide, NodeSide>>

(***************************************************************************)
(* The work of a command.  Any of it may fail: a remote command that exits *)
(* with an error, a full disk, a busy accelerator.                         *)
(***************************************************************************)
At(work) == cli # None /\ cli.at = work

WorkFails ==
    /\ cli # None
    /\ cli.at # "probe"
    /\ Trouble
    /\ StepErr(cli.at = "rejoin")
    /\ ca' = IF cli.at = "mint" THEN "absent" ELSE ca
    /\ UNCHANGED <<local, minted, NodeSide, Around>>

\* fast_rejoin asks whether the producer listens; a probe may be lost.
Probe ==
    /\ At("probe")
    /\ \/ daemon[Host[cli.name]] # None /\ Goto("rejoin") /\ UNCHANGED trouble
       \/ daemon[Host[cli.name]] = None /\ Goto("preflight") /\ UNCHANGED trouble
       \/ Trouble /\ Goto("preflight")
    /\ UNCHANGED <<MacSide, NodeSide, Around>>

\* The authenticated handoff decides, for fast_rejoin and for the smoke step.
Smoke ==
    /\ At("smoke") \/ At("rejoin")
    /\ LET d == daemon[Host[cli.name]] IN
       IF d # None /\ Agree(cli.name, d)
       THEN StepOk("smoke", [cli.entry EXCEPT !.state = "healthy", !.rejoin = FALSE])
       ELSE StepErr(cli.at = "rejoin")
    /\ UNCHANGED <<trouble, MacSide, NodeSide, Around>>

Preflight ==
    /\ At("preflight")
    /\ StepOk("preflight", [cli.entry EXCEPT !.state = "preflight-ok", !.rejoin = FALSE])
    /\ UNCHANGED <<trouble, MacSide, NodeSide, Around>>

MakeLaneAnew ==
    /\ At("lane")
    /\ LET l == lane[cli.name] IN
       IF l.pki = "link"
       THEN StepErr(FALSE) /\ UNCHANGED lane
       ELSE /\ lane' = [lane EXCEPT
                  ![cli.name].pki = IF @ = "absent" THEN "dir" ELSE @,
                  ![cli.name].staged = IF @ = build THEN @ ELSE Mixed]
            /\ Goto("push")
    /\ UNCHANGED <<trouble, MacSide, daemon, unit, Around>>

\* MAKE_LANE: mkdir -p fails on a `pki` that is a dangling symbolic link.
MakeLane ==
    /\ At("lane")
    /\ LET l == lane[cli.name] IN
       IF l.pki = "link" /\ l.active = 0
       THEN StepErr(FALSE) /\ UNCHANGED lane
       ELSE /\ lane' = [lane EXCEPT
                  ![cli.name].pki = IF @ = "absent" THEN "dir" ELSE @,
                  ![cli.name].staged = IF @ = build THEN @ ELSE Mixed]
            /\ Goto("push")
    /\ UNCHANGED <<trouble, MacSide, daemon, unit, Around>>

\* The last runtime file has arrived.
Push ==
    /\ At("push")
    /\ lane' = [lane EXCEPT ![cli.name].staged = build]
    /\ StepOk("deploy", [cli.entry EXCEPT !.state = "deployed", !.runtime = build,
                                           !.rejoin = FALSE])
    /\ UNCHANGED <<trouble, MacSide, daemon, unit, Around>>

Model ==
    /\ At("model")
    /\ StepOk("model", [cli.entry EXCEPT !.rejoin = FALSE])
    /\ UNCHANGED <<trouble, MacSide, NodeSide, Around>>

(***************************************************************************)
(* enroll::run_native, file by file.                                       *)
(***************************************************************************)
EnrollMark ==
    /\ At("enroll")
    /\ LET e == [cli.entry EXCEPT !.state = "needs-reenrollment", !.rejoin = FALSE] IN
       /\ registry' = [Loaded EXCEPT ![cli.name] = e]
       /\ cli' = [cli EXCEPT !.entry = e, !.at = "ca"]
    /\ UNCHANGED <<lease, job, trouble, MacSide, NodeSide, Around>>

EnsureCa ==
    /\ At("ca")
    /\ CASE ca = "minted"  -> Goto("leaf") /\ UNCHANGED ca
         [] ca = "claimed" -> StepErr(FALSE) /\ UNCHANGED ca
         [] ca = "absent"  -> Goto("mint") /\ ca' = "claimed"
    /\ UNCHANGED <<trouble, local, minted, NodeSide, Around>>

MintCa ==
    /\ At("mint")
    /\ ca' = "minted"
    /\ Goto("leaf")
    /\ UNCHANGED <<trouble, local, minted, NodeSide, Around>>

\* issue_leaf replaces mac-e<N>; NODE_CSR keeps the key of an earlier attempt at
\* the same epoch, and sign_csr makes the node's certificate.
IssueLeaf ==
    /\ At("leaf")
    /\ LET a == [epoch |-> cli.entry.epoch + 1, id |-> minted + 1,
                 runtime |-> cli.entry.runtime] IN
       /\ local' = [local EXCEPT ![cli.name].mac[a.epoch] = a]
       /\ minted' = minted + 1
       /\ cli' = [cli EXCEPT !.new = a, !.at = "hmac"]
    /\ UNCHANGED <<registry, lease, job, trouble, ca, NodeSide, Around>>

MintHmac ==
    /\ At("hmac")
    /\ local' = [local EXCEPT ![cli.name].hmac = cli.new]
    /\ Goto("cluster")
    /\ UNCHANGED <<trouble, ca, minted, NodeSide, Around>>

WriteCluster ==
    /\ At("cluster")
    /\ IF cli.new.runtime = NoRun
       THEN StepErr(FALSE) /\ UNCHANGED local
       ELSE /\ local' = [local EXCEPT ![cli.name].cluster = cli.new]
            /\ Goto("cert")
    /\ UNCHANGED <<trouble, ca, minted, NodeSide, Around>>

Upload(file, next) ==
    /\ At(file)
    /\ lane' = [lane EXCEPT ![cli.name].stage[cli.new.epoch][file] = cli.new]
    /\ Goto(next)
    /\ UNCHANGED <<trouble, MacSide, daemon, unit, Around>>

\* ACTIVATE_ENROLLMENT: a real pki directory moves aside once, a link into
\* .enrollment-active takes its place, and .enrollment-active is switched last.
MoveAside ==
    /\ At("activate")
    /\ LET l == lane[cli.name] IN
       IF l.pki = "dir" /\ l.backup
       THEN StepErr(FALSE) /\ UNCHANGED lane
       ELSE /\ lane' = IF l.pki # "dir" THEN lane
                       ELSE [lane EXCEPT ![cli.name].pki = "absent",
                                         ![cli.name].backup = TRUE]
            /\ Goto("link")
    /\ UNCHANGED <<trouble, MacSide, daemon, unit, Around>>

LinkPki ==
    /\ At("link")
    /\ lane' = [lane EXCEPT ![cli.name].pki = "link"]
    /\ Goto("switch")
    /\ UNCHANGED <<trouble, MacSide, daemon, unit, Around>>

Switch ==
    /\ At("switch")
    /\ lane' = [lane EXCEPT ![cli.name].active = cli.new.epoch]
    /\ Goto("ledger")
    /\ UNCHANGED <<trouble, MacSide, daemon, unit, Around>>

EnrollDone ==
    /\ At("ledger")
    /\ StepOk("enroll", [cli.entry EXCEPT !.state = "enrolled", !.version = 2,
                                           !.epoch = cli.new.epoch, !.rejoin = FALSE])
    /\ UNCHANGED <<trouble, MacSide, NodeSide, Around>>

Enroll ==
    \/ EnrollMark \/ EnsureCa \/ MintCa \/ IssueLeaf \/ MintHmac \/ WriteCluster
    \/ Upload("cert", "key") \/ Upload("key", "handoff") \/ Upload("handoff", "activate")
    \/ MoveAside \/ LinkPki \/ Switch \/ EnrollDone

\* daemon::run_native: the unit restarts for this lane; the step waits for the
\* port.  It fails after the restart when the producer does not come up, or
\* when the RoPE cache cannot be fetched.
Daemon ==
    /\ At("daemon")
    /\ LET n == cli.name IN
       /\ unit' = [unit EXCEPT ![Host[n]] = n]
       /\ daemon' = [daemon EXCEPT ![Host[n]] = Started(n)]
       /\ \/ /\ Started(n) # None
             /\ StepOk("daemon", [cli.entry EXCEPT !.state = "enrolled", !.rejoin = FALSE])
             /\ UNCHANGED trouble
          \/ /\ Started(n) = None
             /\ StepErr(FALSE) /\ UNCHANGED trouble
          \/ /\ Trouble
             /\ StepErr(FALSE)
    /\ UNCHANGED <<lane, MacSide, Around>>

Work == Probe \/ Smoke \/ Preflight \/ MakeLane \/ Push \/ Model \/ Enroll \/ Daemon

\* The process is killed: the kernel drops its flock and nothing else happens.
\* A job whose child goes silent for JOB_DEADLINE kills it this way.
Crash ==
    /\ cli # None
    /\ Trouble
    /\ Exit(FALSE)
    /\ UNCHANGED <<registry, server, build, MacSide, NodeSide>>

\* The node restarts and systemd starts the unit again.
Reboot(h) ==
    /\ unit[h] # None
    /\ Trouble
    /\ daemon' = [daemon EXCEPT ![h] = Started(unit[h])]
    /\ UNCHANGED <<registry, lease, cli, job, MacSide, lane, unit, Around>>

(***************************************************************************)
(* The server.  `muser up` picks a node before it takes the lease; the     *)
(* dashboard's job takes the lease after the child it spawned has exited.  *)
(***************************************************************************)
Snapshot(n) == [name |-> n, row |-> registry[n], files |-> local[n]]

Choose(n) ==
    /\ server.chosen = None
    /\ Servable(n)
    /\ server' = [server EXCEPT !.chosen = n]
    /\ UNCHANGED <<registry, lease, cli, job, build, trouble, MacSide,
                   NodeSide>>

\* The lease, then build_remote_runtime, which asks serving_target again.  `choice`
\* is what an `up` that has not got the lease yet remembers afterwards.
Serve(n, choice) ==
    IF lease = "free" /\ Servable(n)
    THEN lease' = "server" /\ server' = [chosen |-> choice, serving |-> Snapshot(n)]
    ELSE UNCHANGED lease /\ server' = [server EXCEPT !.chosen = choice]

Up ==
    /\ server.chosen # None
    /\ Serve(server.chosen, None)
    /\ UNCHANGED <<registry, cli, job, build, trouble, MacSide, NodeSide>>

Stop ==
    /\ server.serving # None
    /\ server' = [server EXCEPT !.serving = None]
    /\ lease' = "free"
    /\ UNCHANGED <<registry, cli, job, build, trouble, MacSide, NodeSide>>

\* POST /muser/nodes: one job at a time.
Post(n) ==
    /\ job = None
    /\ job' = [name |-> n, phase |-> "spawn"]
    /\ UNCHANGED <<registry, lease, cli, trouble, MacSide, NodeSide, Around>>

\* The child `muser node add`, without --repair; it may be turned away at once.
Child ==
    /\ job # None /\ job.phase = "spawn"
    /\ \/ Begin(job.name, FALSE, TRUE) /\ job' = [job EXCEPT !.phase = "child"]
       \/ /\ ~(lease = "free" /\ EndpointFree(job.name, FALSE) /\ InBounds(job.name))
          /\ job' = None /\ UNCHANGED <<lease, cli>>
    /\ UNCHANGED <<registry, trouble, MacSide, NodeSide, Around>>

\* activate_after_onboarding
Activate ==
    /\ job # None /\ job.phase = "activate"
    /\ job' = None
    /\ Serve(job.name, server.chosen)
    /\ UNCHANGED <<registry, cli, build, trouble, MacSide, NodeSide>>

\* A new release is installed while nothing of the old one runs.
Upgrade ==
    /\ build < MaxBuild /\ build' = build + 1 /\ Trouble
    /\ lease = "free" /\ job = None /\ server = Idle
    /\ UNCHANGED <<registry, lease, cli, server, job, MacSide, NodeSide>>

Next ==
    \/ \E n \in Names :
          \/ \E repair \in BOOLEAN : Add(n, repair)
          \/ \E step \in DOMAIN FirstWork : Single(n, step)
          \/ Choose(n) \/ Post(n)
    \/ Work \/ WorkFails \/ Crash \/ Up \/ Stop \/ Child \/ Activate \/ Upgrade
    \/ \E h \in Hosts : Reboot(h)

Spec == Init /\ [][Next]_vars

\* A running command goes on, the job's thread goes on, and an operator reruns
\* `node add --repair` as long as it can be run.
FairSpec ==
    /\ Spec
    /\ WF_vars(Work)
    /\ WF_vars(Child) /\ WF_vars(Activate)
    /\ SF_vars(\E n \in Names : Add(n, TRUE))

(***************************************************************************)
(* Properties.                                                             *)
(***************************************************************************)
TypeOK ==
    /\ registry \in [Names -> Rows \cup {None}]
    /\ lease \in {"free", "cli", "server"}
    /\ (lease = "cli") = (cli # None)
    /\ ca \in {"absent", "claimed", "minted"}
    /\ \A n \in Names :
         /\ local[n].cluster \in Attempts \cup {None}
         /\ local[n].hmac \in Attempts \cup {None}
         /\ lane[n].active \in 0..MaxEpoch
         /\ lane[n].staged \in {NoRun, Mixed} \cup 1..MaxBuild

Healthy(n) == registry[n] # None /\ Load(registry[n]).state = "healthy"

\* A row that reads healthy is one whose last proof still stands: the receiver's
\* files on this Mac, written one after another by enroll::run_native, are those
\* of the enrollment the node's lane has active, whatever was killed or failed
\* since smoke::run passed.
HealthyIsProven ==
    \A n \in Names : Healthy(n) => lane[n].active # 0 /\ Agree(n, Stage(n))

\* reject_duplicate_control_endpoint: no two rows of the file name one endpoint,
\* through aliases, repairs that retire a row and kills before the first save.
OneRowPerEndpoint ==
    \A m, n \in Names :
        m # n /\ registry[m] # None /\ registry[n] # None => Host[m] # Host[n]

\* While `muser up` or the dashboard serves a node, its row stays healthy for this
\* release and the credentials loaded at start-up stay the ones on disk: the
\* topology lease keeps every onboarding step out, also when the node was chosen
\* before the lease was taken.
ServingStable ==
    server.serving # None =>
        /\ Servable(server.serving.name)
        /\ Snapshot(server.serving.name) = server.serving

\* What a rerun cannot get past: a CA key without its certificate (ensure_ca), a
\* second `pki` directory beside the saved one (ACTIVATE_ENROLLMENT), a dangling
\* `pki` link (MAKE_LANE).
Stuck(n) ==
    \/ ca = "claimed"
    \/ lane[n].pki = "dir" /\ lane[n].backup
    \/ lane[n].pki = "link" /\ lane[n].active = 0

\* Rerunning `node add --repair` after any failure or kill brings a node to healthy,
\* unless it is left for good in one of the states of
\* Stuck.
RerunConverges ==
    <>(\E n \in Names : Healthy(n)) \/ <>[](\E n \in Names : Stuck(n))

=============================================================================
