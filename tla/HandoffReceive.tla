--------------------------- MODULE HandoffReceive ---------------------------
(***************************************************************************)
(* The decoder's side of one Handoff V2 transfer: RemoteReceiver's request *)
(* lease and accept loop, the frame loop around AtomicReceiverV2 and the   *)
(* Muse shadow sink, the durable ReplayLedger, and the ACK.  Producers are *)
(* the environment: any of them may connect late, more than once, with any *)
(* generation, and may stop or lie at any frame.                           *)
(*                                                                         *)
(* A transfer is abstracted to the request it names, the prompt it carries,*)
(* its ledger scope and its generation; tiles are counted, not stored.     *)
(***************************************************************************)
EXTENDS Naturals, FiniteSets

CONSTANTS Scopes,      \* "<hmac key id>:<epoch>"
          Accepted,    \* scopes with the enrolled key id and a current epoch
          Prompts,
          None,
          MaxGen,      \* bound: generations are 0..MaxGen
          Segments,    \* segments one manifest declares
          MaxRequests, \* bound: requests the decoder makes
          MaxConnects  \* bound: connections the producers make

ASSUME ScopesAssumption == Accepted \subseteq Scopes
ASSUME BoundsAssumption ==
    /\ MaxGen \in Nat
    /\ Segments \in Nat \ {0}
    /\ MaxRequests \in Nat
    /\ MaxConnects \in Nat

Generations == 0..MaxGen

(* request 0 stands for an opaque id outside the "muser-" namespace        *)
Opaque == 0
RequestIds == 1..MaxRequests
Transfers == [req : RequestIds \cup {Opaque}, prompt : Prompts,
              scope : Scopes, gen : Generations]
Keys == [scope : Scopes, gen : Generations]
Lives == [scope : Scopes, gen : Generations, prompt : Prompts]
Ledgers == [Scopes -> Generations]   \* 0: no entry for the scope

ASSUME NoneAssumption == None \notin Prompts \cup Transfers \cup Lives

VARIABLES
    up,        \* the decoder process runs
    phase,     \* where the holder of receive_lease is; "idle": lease is free
    request,   \* REMOTE_REQUEST_COUNTER: requests made so far
    wanted,    \* prompt of the request being served, or None
    solicited, \* the request went over the control channel
    backlog,   \* producer connections waiting in the listener
    connects,  \* connections made so far
    transfer,  \* the admitted Begin manifest, or None
    next,      \* AtomicReceiverV2.next
    state,     \* ReplayLedger.state in memory
    latched,   \* ReplayLedger.latched_failure
    file,      \* the ledger file as the running system sees it
    disk,      \* the contents a power loss may leave in the ledger file
    live,      \* the generation the session decodes from, or None
    installed, \* history: every [scope, gen] that became live
    acked      \* history: every [scope, gen] a producer has an ACK for

process == <<up, phase, request, wanted, solicited, transfer, next>>
wire == <<backlog, connects>>
ledger == <<state, latched, file, disk>>
engine == <<live, installed, acked>>
vars == <<process, wire, ledger, engine>>

Phases == {"idle", "accept", "receive", "prepared", "renamed", "reserved",
           "committed"}

Key(t) == [scope |-> t.scope, gen |-> t.gen]

TypeOK ==
    /\ up \in BOOLEAN
    /\ phase \in Phases
    /\ request \in 0..MaxRequests
    /\ wanted \in Prompts \cup {None}
    /\ solicited \in BOOLEAN
    /\ backlog \subseteq Transfers
    /\ connects \in 0..MaxConnects
    /\ transfer \in Transfers \cup {None}
    /\ next \in 0..Segments
    /\ state \in Ledgers
    /\ latched \in BOOLEAN
    /\ file \in Ledgers
    /\ disk \subseteq Ledgers
    /\ live \in Lives \cup {None}
    /\ installed \subseteq Keys
    /\ acked \subseteq Keys

Init ==
    /\ up = TRUE
    /\ phase = "idle"
    /\ request = 0
    /\ wanted = None
    /\ solicited = FALSE
    /\ backlog = {}
    /\ connects = 0
    /\ transfer = None
    /\ next = 0
    /\ state = [s \in Scopes |-> 0]
    /\ latched = FALSE
    /\ file = [s \in Scopes |-> 0]
    /\ disk = {[s \in Scopes |-> 0]}
    /\ live = None
    /\ installed = {}
    /\ acked = {}

-----------------------------------------------------------------------------
(* receive_classified takes receive_lease and mints a request id; the      *)
(* control channel, when one is configured, may refuse the request.        *)
StartRequest(p, controlled) ==
    /\ up /\ phase = "idle"
    /\ request < MaxRequests
    /\ request' = request + 1
    /\ phase' = "accept"
    /\ wanted' = p
    /\ solicited' = controlled
    /\ UNCHANGED <<up, transfer, next, wire, ledger, engine>>

ControlRefused ==
    /\ up /\ phase = "idle"
    /\ request < MaxRequests
    /\ request' = request + 1
    /\ UNCHANGED <<up, phase, wanted, solicited, transfer, next, wire, ledger,
                   engine>>

(* The lease guard and the receiver go out of scope: AtomicReceiverV2's    *)
(* Drop aborts the sink, which discards the detached generation.           *)
Release ==
    /\ phase' = "idle"
    /\ wanted' = None
    /\ solicited' = FALSE
    /\ transfer' = None
    /\ next' = 0
    /\ UNCHANGED <<up, request>>

(* A producer connects, with whatever it has to send; only the request ids *)
(* already sent out can be named.                                          *)
Connect(t) ==
    /\ up
    /\ connects < MaxConnects
    /\ t.req <= request
    /\ backlog' = backlog \cup {t}
    /\ connects' = connects + 1
    /\ UNCHANGED <<process, ledger, engine>>

TransferIdMatches(t) == t.req = request \/ t.req = Opaque

(* accept_matching_begin closes a connection of another request, one whose *)
(* handshake fails and one that sends no Begin, and keeps waiting.         *)
DropConnection(t) ==
    /\ up /\ phase = "accept"
    /\ t \in backlog
    /\ backlog' = backlog \ {t}
    /\ UNCHANGED <<connects, process, ledger, engine>>

(* mutant: an unsolicited wait has no deadline                             *)
AcceptTimeoutSolicited ==
    /\ up /\ phase = "accept"
    /\ solicited
    /\ backlog = {}
    /\ Release
    /\ UNCHANGED <<wire, ledger, engine>>

(* accept_until looks at its deadline only when no connection waits.       *)
AcceptTimeout ==
    /\ up /\ phase = "accept"
    /\ backlog = {}
    /\ Release
    /\ UNCHANGED <<wire, ledger, engine>>

AcceptError ==
    /\ up /\ phase = "accept"
    /\ Release
    /\ UNCHANGED <<wire, ledger, engine>>

(* ReplayLedger::admit                                                     *)
Admit(t) ==
    /\ ~latched
    /\ t.gen # 0
    /\ t.gen > state[t.scope]

(* mutant: the prompt of the manifest is not compared                      *)
BeginExpectedAnyPrompt(t) ==
    /\ solicited => TransferIdMatches(t)
    /\ Admit(t)
    /\ t.scope \in Accepted

(* What Begin must say: ledger admission, then ValidatedBeginV2::validate  *)
(* and BeginExpectationsV2::validate.                                      *)
BeginExpected(t) ==
    /\ solicited => TransferIdMatches(t)
    /\ Admit(t)
    /\ t.scope \in Accepted
    /\ t.prompt = wanted

BeginReceive(t) ==
    /\ up /\ phase = "accept"
    /\ t \in backlog
    /\ BeginExpected(t)
    /\ backlog' = backlog \ {t}
    /\ phase' = "receive"
    /\ transfer' = t
    /\ next' = 0
    /\ UNCHANGED <<up, request, wanted, solicited, connects, ledger, engine>>

(* A matching Begin that is expired, of another model, or fails a check of *)
(* BeginExpected ends the request: only a foreign transfer id is skipped.  *)
BeginRefused(t) ==
    /\ up /\ phase = "accept"
    /\ t \in backlog
    /\ solicited => TransferIdMatches(t)
    /\ backlog' = backlog \ {t}
    /\ Release
    /\ UNCHANGED <<connects, ledger, engine>>

(* segment_ready and segment_ready_deferred: the next sequence number, its *)
(* digest verified, its tile written to the detached generation.           *)
SegmentReady(seq) ==
    /\ up /\ phase = "receive"
    /\ seq = next
    /\ next < Segments
    /\ next' = next + 1
    /\ UNCHANGED <<up, phase, request, wanted, solicited, transfer, wire,
                   ledger, engine>>

(* A frame out of order, a bad digest or seal, Abort, a second Begin, an   *)
(* Ack, a lost connection, a read timeout, a refusal of the sink.          *)
TransferFails ==
    /\ up /\ phase = "receive"
    /\ Release
    /\ UNCHANGED <<wire, ledger, engine>>

(* prepare_commit: every declared segment is in, the seal and its HMAC     *)
(* verify, the sink holds prepared handles.                                *)
PrepareCommit ==
    /\ up /\ phase = "receive"
    /\ next = Segments
    /\ phase' = "prepared"
    /\ UNCHANGED <<up, request, wanted, solicited, transfer, next, wire,
                   ledger, engine>>

(* ReplayLedger::reserve up to the rename of persist_replay_state: the     *)
(* new contents are synced, the directory entry is not.                    *)
ReserveRename ==
    /\ up /\ phase = "prepared"
    /\ Admit(transfer)
    /\ file' = [state EXCEPT ![transfer.scope] = transfer.gen]
    /\ disk' = disk \cup {file'}
    /\ phase' = "renamed"
    /\ UNCHANGED <<up, request, wanted, solicited, transfer, next, wire, state,
                   latched, engine>>

(* mutant: the directory is not synced                                     *)
ReserveNoSync ==
    /\ up /\ phase = "renamed"
    /\ state' = file
    /\ phase' = "reserved"
    /\ UNCHANGED <<up, request, wanted, solicited, transfer, next, wire,
                   latched, file, disk, engine>>

(* The directory fsync succeeds and the reservation is published.          *)
ReserveSync ==
    /\ up /\ phase = "renamed"
    /\ disk' = {file}
    /\ state' = file
    /\ phase' = "reserved"
    /\ UNCHANGED <<up, request, wanted, solicited, transfer, next, wire,
                   latched, file, engine>>

(* An I/O error before or after the rename latches the ledger.             *)
ReserveFails ==
    /\ up /\ phase \in {"prepared", "renamed"}
    /\ latched' = TRUE
    /\ Release
    /\ UNCHANGED <<wire, state, file, disk, engine>>

(* AtomicReceiverV2::commit: both engine handles are swapped in.           *)
Commit ==
    /\ up /\ phase = "reserved"
    /\ live' = [scope |-> transfer.scope, gen |-> transfer.gen,
                prompt |-> transfer.prompt]
    /\ installed' = installed \cup {Key(transfer)}
    /\ phase' = "committed"
    /\ UNCHANGED <<up, request, wanted, solicited, transfer, next, wire,
                   ledger, acked>>

(* The sink refuses before the swap (its evidence lock was poisoned).      *)
CommitFails ==
    /\ up /\ phase = "reserved"
    /\ Release
    /\ UNCHANGED <<wire, ledger, engine>>

(* The ACK is written, or is lost with an error that is only logged; the   *)
(* request succeeds either way.                                            *)
Ack(delivered) ==
    /\ up /\ phase = "committed"
    /\ acked' = IF delivered THEN acked \cup {Key(transfer)} ELSE acked
    /\ Release
    /\ UNCHANGED <<wire, ledger, live, installed>>

(* The process dies: the listener, the lease and the session are gone.     *)
Die ==
    /\ up /\ up' = FALSE
    /\ phase' = "idle"
    /\ wanted' = None
    /\ solicited' = FALSE
    /\ transfer' = None
    /\ next' = 0
    /\ backlog' = {}
    /\ live' = None
    /\ UNCHANGED <<request, connects, state, latched, installed, acked>>

Crash ==
    /\ Die
    /\ UNCHANGED <<file, disk>>

PowerLoss ==
    /\ Die
    /\ file' \in disk
    /\ disk' = {file'}

(* mutant: the receiver starts from an empty ledger                        *)
BindEmpty ==
    /\ ~up /\ up' = TRUE
    /\ state' = [s \in Scopes |-> 0]
    /\ latched' = FALSE
    /\ disk' = {file}
    /\ UNCHANGED <<phase, request, wanted, solicited, transfer, next, wire,
                   file, engine>>

(* RemoteReceiver::bind: the ledger is loaded, and the volume probe syncs  *)
(* its directory.                                                          *)
Bind ==
    /\ ~up /\ up' = TRUE
    /\ state' = file
    /\ latched' = FALSE
    /\ disk' = {file}
    /\ UNCHANGED <<phase, request, wanted, solicited, transfer, next, wire,
                   file, engine>>

ReceiverStep ==
    \/ \E t \in backlog : DropConnection(t) \/ BeginReceive(t) \/ BeginRefused(t)
    \/ AcceptTimeout
    \/ \E seq \in 0..Segments : SegmentReady(seq)
    \/ TransferFails
    \/ PrepareCommit
    \/ ReserveRename
    \/ ReserveSync
    \/ ReserveFails
    \/ Commit
    \/ CommitFails
    \/ \E delivered \in BOOLEAN : Ack(delivered)

Next ==
    \/ \E p \in Prompts, controlled \in BOOLEAN : StartRequest(p, controlled)
    \/ ControlRefused
    \/ \E t \in Transfers : Connect(t)
    \/ ReceiverStep
    \/ AcceptError
    \/ Crash
    \/ PowerLoss
    \/ Bind

Spec == Init /\ [][Next]_vars

(* The receiver's own thread keeps running: every wait in it has a timeout *)
(* (accept deadline, socket read timeout).                                 *)
FairSpec == Spec /\ WF_vars(ReceiverStep)

-----------------------------------------------------------------------------
(* Write-ahead: whatever a power loss may leave in the ledger, it covers   *)
(* every generation that ever became live (reserve's file and directory    *)
(* fsync come before commit).                                              *)
InstalledIsDurable ==
    \A i \in installed : \A d \in disk : i.gen <= d[i.scope]

(* A producer holds an ACK only for a generation that became live: the ACK *)
(* frame follows commit, and neither a retry nor a crash can forge one.    *)
(* It stays refused for ever after, in every file a restart may load.      *)
AckedStaysConsumed ==
    \A a \in acked : a \in installed /\ \A d \in disk : a.gen <= d[a.scope]

(* The inductive invariant behind the properties above and below: what the *)
(* ledger in memory and on disk covers, and what each phase of the request *)
(* has already established.                                                *)
LedgerCovers ==
    /\ file \in disk
    /\ up => \A i \in installed : i.gen <= state[i.scope]

Transferring == {"receive", "prepared", "renamed", "reserved", "committed"}

PhaseEstablishes ==
    /\ phase # "idle" => up /\ wanted # None
    /\ phase \in Transferring =>
          transfer # None /\ transfer.prompt = wanted /\ ~latched
    /\ phase \in {"receive", "prepared", "renamed"} =>
          transfer.gen > state[transfer.scope]
    /\ phase = "renamed" =>
          file = [state EXCEPT ![transfer.scope] = transfer.gen]
    /\ phase = "reserved" =>
          /\ \A i \in installed : i.scope = transfer.scope => i.gen < transfer.gen
          /\ state[transfer.scope] = transfer.gen
          /\ \A d \in disk : d[transfer.scope] = transfer.gen
    /\ phase = "committed" =>
          live # None /\ live.prompt = wanted /\ Key(transfer) \in installed

HandoffInv ==
    /\ InstalledIsDurable
    /\ LedgerCovers
    /\ PhaseEstablishes
    /\ acked \subseteq installed

(* When the request returns, decode reads the prefix of the prompt that    *)
(* was asked for, never that of an earlier request whose producer is late. *)
LiveAnswersRequest ==
    phase = "committed" => live.prompt = wanted

(* A commit publishes a generation above all those of its key epoch that   *)
(* ever became live: across lost ACKs, retries, failed reservations,       *)
(* crashes and power losses nothing is installed twice or out of order.    *)
NeverReinstalled ==
    [][phase = "reserved" /\ phase' = "committed" =>
          \A i \in installed : i.scope = transfer.scope => i.gen < transfer.gen]_vars

(* Once a reservation has failed, nothing becomes live until the process   *)
(* is restarted (latched_failure).                                         *)
LatchedInstallsNothing ==
    [][latched => installed' = installed]_vars

(* Every request ends: it installs, or it fails and the server falls back. *)
RequestEnds == (phase # "idle") ~> (phase = "idle")

(* The abstract promise: with the ledger, the wire and the crashes hidden, *)
(* a transfer is one atomic publication.                                   *)
Promise == INSTANCE AtMostOnceInstall
Implements == Promise!AbsSpec
=============================================================================
