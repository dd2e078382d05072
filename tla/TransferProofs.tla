--------------------------- MODULE TransferProofs ---------------------------
(***************************************************************************)
(* What moves between two machines.  The remote prefill route first:       *)
(* HandoffReceive, for every set of scopes and prompts and every bound:    *)
(* the inductive invariant HandoffInv, the safety properties it implies,   *)
(* and the step simulation of AtMostOnceInstall.  RemoteBreaker, for any   *)
(* number of requests and any failure limit: the probe flag never outlives *)
(* the last request that would clear it, except through an abandoned       *)
(* probe.  Then SessionMigration, for any number of concurrent runs of one *)
(* transfer, of commits, exports and faults: a source never believes in a  *)
(* commit of the destination that is not durable there.                    *)
(***************************************************************************)
EXTENDS HandoffReceive, RemoteBreaker, SessionMigration, TLAPS

LedgerInv == TypeOK /\ HandoffInv

USE BoundsAssumption DEF BoundsAssumption

(* Init: the ledger is empty, nothing is live and the lease is free.       *)
LEMMA LedgerStarts == Init => LedgerInv
<1> SUFFICES ASSUME Init PROVE LedgerInv
    BY Zenon
<1>1. [s \in Scopes |-> 0] \in Ledgers
    BY DEF Ledgers, Generations
<1>2. TypeOK
  <2>1. up \in BOOLEAN /\ solicited \in BOOLEAN /\ latched \in BOOLEAN
    BY Zenon DEF Init
  <2>2. request \in 0..MaxRequests /\ connects \in 0..MaxConnects /\ next \in 0..Segments
    BY DEF Init
  <2> QED BY Zenon, <1>1, <2>1, <2>2 DEF Init, TypeOK, Phases
<1>3. HandoffInv
    BY Zenon DEF Init, HandoffInv, InstalledIsDurable, LedgerCovers, PhaseEstablishes,
           Transferring
<1> QED BY Zenon, <1>2, <1>3 DEF LedgerInv

(* Every early return leaves the request state well typed.                 *)
LEMMA ReleaseType ==
    ASSUME TypeOK, Release
    PROVE  /\ up' \in BOOLEAN /\ phase' \in Phases /\ request' \in 0..MaxRequests
           /\ wanted' \in Prompts \cup {None} /\ solicited' \in BOOLEAN
           /\ transfer' \in Transfers \cup {None} /\ next' \in 0..Segments
<1>1. solicited' \in BOOLEAN /\ up' \in BOOLEAN
    BY Zenon DEF Release, TypeOK
<1>2. phase' \in Phases /\ wanted' \in Prompts \cup {None} /\ transfer' \in Transfers \cup {None}
    BY Zenon DEF Release, Phases
<1>3. request' \in 0..MaxRequests /\ next' \in 0..Segments
    BY DEF Release, TypeOK
<1> QED BY Zenon, <1>1, <1>2, <1>3

(* So does the death of the process.                                       *)
LEMMA DieType ==
    ASSUME TypeOK, Die
    PROVE  /\ up' \in BOOLEAN /\ phase' \in Phases /\ request' \in 0..MaxRequests
           /\ wanted' \in Prompts \cup {None} /\ solicited' \in BOOLEAN
           /\ transfer' \in Transfers \cup {None} /\ next' \in 0..Segments
           /\ backlog' \subseteq Transfers /\ connects' \in 0..MaxConnects
           /\ state' \in Ledgers /\ latched' \in BOOLEAN
           /\ live' \in Lives \cup {None} /\ installed' \subseteq Keys /\ acked' \subseteq Keys
<1>1. solicited' \in BOOLEAN /\ up' \in BOOLEAN /\ latched' \in BOOLEAN
    BY Zenon DEF Die, TypeOK
<1>2. phase' \in Phases /\ wanted' \in Prompts \cup {None} /\ transfer' \in Transfers \cup {None}
    BY Zenon DEF Die, Phases
<1>3. request' \in 0..MaxRequests /\ next' \in 0..Segments /\ connects' \in 0..MaxConnects
    BY DEF Die, TypeOK
<1>4. /\ backlog' \subseteq Transfers /\ state' \in Ledgers
      /\ live' \in Lives \cup {None} /\ installed' \subseteq Keys /\ acked' \subseteq Keys
    BY Zenon DEF Die, TypeOK
<1> QED BY Zenon, <1>1, <1>2, <1>3, <1>4

(* Type correctness is preserved by every step of the receiver.            *)
LEMMA TypeStep == TypeOK /\ HandoffInv /\ [Next]_vars => TypeOK'
<1> SUFFICES ASSUME TypeOK, HandoffInv, [Next]_vars PROVE TypeOK'
    BY Zenon
<1> USE DEF TypeOK, Phases, process, wire, ledger, engine
<1>1. ASSUME NEW p \in Prompts, NEW c \in BOOLEAN, StartRequest(p, c) PROVE TypeOK'
    BY <1>1 DEF StartRequest
<1>2. CASE ControlRefused
    BY <1>2 DEF ControlRefused
<1>3. ASSUME NEW t \in Transfers, Connect(t) PROVE TypeOK'
    BY <1>3 DEF Connect
<1>4. ASSUME NEW t \in backlog, DropConnection(t) PROVE TypeOK'
    BY Zenon, <1>4 DEF DropConnection
<1>5. ASSUME NEW t \in backlog, BeginReceive(t) PROVE TypeOK'
    BY <1>5 DEF BeginReceive
<1>6. ASSUME NEW t \in backlog, BeginRefused(t) PROVE TypeOK'
    BY Zenon, <1>6, ReleaseType DEF BeginRefused
<1>7. CASE AcceptTimeout \/ AcceptError
    BY Zenon, <1>7, ReleaseType DEF AcceptTimeout, AcceptError
<1>8. ASSUME NEW seq \in 0..Segments, SegmentReady(seq) PROVE TypeOK'
    BY <1>8 DEF SegmentReady
<1>9. CASE TransferFails \/ CommitFails
    BY Zenon, <1>9, ReleaseType DEF TransferFails, CommitFails
<1>10. CASE PrepareCommit
    BY Zenon, <1>10 DEF PrepareCommit
<1>11. CASE ReserveRename
  <2>1. transfer \in Transfers
    BY Zenon, <1>11 DEF ReserveRename, HandoffInv, PhaseEstablishes, Transferring
  <2>2. file' \in Ledgers
    BY Zenon, <1>11, <2>1 DEF ReserveRename, Ledgers, Transfers
  <2> QED BY Zenon, <1>11, <2>2 DEF ReserveRename
<1>12. CASE ReserveSync
    BY Zenon, <1>12 DEF ReserveSync
<1>13. CASE ReserveFails
  <2>1. latched' \in BOOLEAN
    BY Zenon, <1>13, Zenon DEF ReserveFails
  <2> QED BY Zenon, <1>13, <2>1, ReleaseType DEF ReserveFails
<1>14. CASE Commit
  <2>1. transfer \in Transfers
    BY Zenon, <1>14 DEF Commit, HandoffInv, PhaseEstablishes, Transferring
  <2>2. live' \in Lives /\ Key(transfer) \in Keys
    BY Zenon, <1>14, <2>1 DEF Commit, Lives, Keys, Key, Transfers
  <2> QED BY Zenon, <1>14, <2>2 DEF Commit
<1>15. ASSUME NEW delivered \in BOOLEAN, Ack(delivered) PROVE TypeOK'
  <2>1. transfer \in Transfers
    BY Zenon, <1>15 DEF Ack, HandoffInv, PhaseEstablishes, Transferring
  <2>2. Key(transfer) \in Keys
    BY Zenon, <2>1 DEF Keys, Key, Transfers
  <2> QED BY Zenon, <1>15, <2>2, ReleaseType DEF Ack
<1>16. CASE Crash
    BY Zenon, <1>16, DieType DEF Crash
<1>17. CASE PowerLoss
    BY Zenon, <1>17, DieType DEF PowerLoss
<1>18. CASE Bind
  <2>1. up' \in BOOLEAN /\ latched' \in BOOLEAN
    BY Zenon, <1>18, Zenon DEF Bind
  <2> QED BY Zenon, <1>18, <2>1 DEF Bind
<1>19. CASE UNCHANGED vars
    BY <1>19 DEF vars
<1> QED
    BY Zenon, <1>1, <1>2, <1>3, <1>4, <1>5, <1>6, <1>7, <1>8, <1>9, <1>10, <1>11,
       <1>12, <1>13, <1>14, <1>15, <1>16, <1>17, <1>18, <1>19
       DEF Next, ReceiverStep

(* A released lease leaves nothing to establish.                           *)
LEMMA IdlePhase == ASSUME phase' = "idle" PROVE PhaseEstablishes'
    BY Zenon DEF PhaseEstablishes, Transferring

(* A step that touches neither the ledger nor the engine keeps what the    *)
(* ledger covers.                                                          *)
LEMMA QuietStep ==
    ASSUME HandoffInv, UNCHANGED <<up, ledger, engine>>
    PROVE  InstalledIsDurable' /\ LedgerCovers' /\ (acked \subseteq installed)'
    BY Zenon DEF HandoffInv, InstalledIsDurable, LedgerCovers, ledger, engine

(* Every step keeps HandoffInv: the reservation puts the generation in     *)
(* every ledger content a power loss may leave, before commit shows it.    *)
LEMMA InvStep == LedgerInv /\ [Next]_vars => HandoffInv'
<1> SUFFICES ASSUME TypeOK, HandoffInv, [Next]_vars PROVE HandoffInv'
    BY Zenon DEF LedgerInv
<1> USE DEF HandoffInv
<1>1. ASSUME NEW p \in Prompts, NEW c \in BOOLEAN, StartRequest(p, c) PROVE HandoffInv'
  <2>1. PhaseEstablishes'
    BY Zenon, <1>1, NoneAssumption DEF StartRequest, PhaseEstablishes, Transferring
  <2> QED BY Zenon, <1>1, <2>1, QuietStep DEF StartRequest
<1>2. CASE ControlRefused
  <2>1. PhaseEstablishes'
    BY Zenon, <1>2 DEF ControlRefused, PhaseEstablishes, ledger, engine
  <2> QED BY Zenon, <1>2, <2>1, QuietStep DEF ControlRefused
<1>3. ASSUME NEW t \in Transfers, Connect(t) PROVE HandoffInv'
  <2>1. PhaseEstablishes'
    BY Zenon, <1>3 DEF Connect, PhaseEstablishes, process, ledger, engine
  <2> QED BY Zenon, <1>3, <2>1, QuietStep DEF Connect, process
<1>4. ASSUME NEW t \in backlog, DropConnection(t) PROVE HandoffInv'
  <2>1. PhaseEstablishes'
    BY Zenon, <1>4 DEF DropConnection, PhaseEstablishes, process, ledger, engine
  <2> QED BY Zenon, <1>4, <2>1, QuietStep DEF DropConnection, process
<1>5. ASSUME NEW t \in backlog, BeginReceive(t) PROVE HandoffInv'
  <2>1. t \in Transfers /\ t # None
    BY Zenon, NoneAssumption DEF TypeOK
  <2>2. PhaseEstablishes'
    BY Zenon, <1>5, <2>1 DEF BeginReceive, BeginExpected, Admit, PhaseEstablishes,
                      Transferring, ledger, engine
  <2> QED BY Zenon, <1>5, <2>2, QuietStep DEF BeginReceive
<1>6. ASSUME NEW t \in backlog, BeginRefused(t) PROVE HandoffInv'
    BY Zenon, <1>6, IdlePhase, QuietStep DEF BeginRefused, Release
<1>7. CASE AcceptTimeout \/ AcceptError \/ TransferFails \/ CommitFails
    BY Zenon, <1>7, IdlePhase, QuietStep
       DEF AcceptTimeout, AcceptError, TransferFails, CommitFails, Release
<1>8. ASSUME NEW seq \in 0..Segments, SegmentReady(seq) PROVE HandoffInv'
  <2>1. PhaseEstablishes'
    BY Zenon, <1>8 DEF SegmentReady, PhaseEstablishes, ledger, engine
  <2> QED BY Zenon, <1>8, <2>1, QuietStep DEF SegmentReady
<1>9. CASE PrepareCommit
  <2>1. PhaseEstablishes'
    BY Zenon, <1>9 DEF PrepareCommit, PhaseEstablishes, Transferring, ledger, engine
  <2> QED BY Zenon, <1>9, <2>1, QuietStep DEF PrepareCommit
<1>10. CASE ReserveRename
  <2>1. /\ transfer \in Transfers /\ up /\ file' \in disk'
        /\ transfer.gen > state[transfer.scope]
    BY Zenon, <1>10 DEF ReserveRename, PhaseEstablishes, Transferring, TypeOK
  <2>2. \A i \in installed : i.gen <= file'[i.scope]
    BY <1>10, <2>1 DEF ReserveRename, LedgerCovers, TypeOK, Ledgers, Keys,
                       Transfers, Generations
  <2>3. InstalledIsDurable' /\ LedgerCovers' /\ (acked \subseteq installed)'
    BY Zenon, <1>10, <2>1, <2>2 DEF ReserveRename, InstalledIsDurable, LedgerCovers, engine
  <2>4. PhaseEstablishes'
    BY Zenon, <1>10, <2>1 DEF ReserveRename, PhaseEstablishes, Transferring, engine
  <2> QED BY Zenon, <2>3, <2>4
<1>11. CASE ReserveSync
  <2>1. /\ transfer \in Transfers /\ up
        /\ transfer.gen > state[transfer.scope]
        /\ file = [state EXCEPT ![transfer.scope] = transfer.gen]
        /\ file[transfer.scope] = transfer.gen
    BY Zenon, <1>11 DEF ReserveSync, PhaseEstablishes, Transferring, TypeOK, Ledgers, Transfers
  <2>2. InstalledIsDurable' /\ LedgerCovers' /\ (acked \subseteq installed)'
    BY Zenon, <1>11 DEF ReserveSync, InstalledIsDurable, LedgerCovers, engine
  <2>3. \A i \in installed : i.scope = transfer.scope => i.gen < transfer.gen
    BY <2>1 DEF LedgerCovers, TypeOK, Ledgers, Keys, Transfers, Generations
  <2>4. PhaseEstablishes'
    BY Zenon, <1>11, <2>1, <2>3 DEF ReserveSync, PhaseEstablishes, Transferring, engine
  <2> QED BY Zenon, <2>2, <2>4
<1>12. CASE ReserveFails
    BY Zenon, <1>12, IdlePhase
       DEF ReserveFails, Release, InstalledIsDurable, LedgerCovers, engine
<1>13. CASE Commit
  <2>1. /\ transfer \in Transfers /\ up
        /\ state[transfer.scope] = transfer.gen
        /\ \A d \in disk : d[transfer.scope] = transfer.gen
    BY Zenon, <1>13 DEF Commit, PhaseEstablishes, Transferring, TypeOK
  <2>2. InstalledIsDurable' /\ LedgerCovers' /\ (acked \subseteq installed)'
    BY <1>13, <2>1 DEF Commit, InstalledIsDurable, LedgerCovers, Key, ledger,
                       Transfers, Generations
  <2>3. live' # None
    BY <1>13, <2>1, NoneAssumption DEF Commit, Lives, Transfers
  <2>4. PhaseEstablishes'
    BY Zenon, <1>13, <2>1, <2>3 DEF Commit, PhaseEstablishes, Transferring, Key, ledger
  <2> QED BY Zenon, <2>2, <2>4
<1>14. ASSUME NEW delivered \in BOOLEAN, Ack(delivered) PROVE HandoffInv'
  <2>1. Key(transfer) \in installed
    BY Zenon, <1>14 DEF Ack, PhaseEstablishes
  <2>2. InstalledIsDurable' /\ LedgerCovers' /\ (acked \subseteq installed)'
    BY Zenon, <1>14, <2>1 DEF Ack, Release, InstalledIsDurable, LedgerCovers, ledger
  <2> QED BY Zenon, <1>14, <2>2, IdlePhase DEF Ack, Release
<1>15. CASE Crash \/ PowerLoss
  <2>1. ~up' /\ phase' = "idle" /\ file' \in disk' /\ disk' \subseteq disk
        /\ UNCHANGED <<installed, acked>>
    BY Zenon, <1>15 DEF Crash, PowerLoss, Die, LedgerCovers
  <2>2. InstalledIsDurable' /\ LedgerCovers' /\ (acked \subseteq installed)'
    BY Zenon, <2>1 DEF InstalledIsDurable, LedgerCovers
  <2> QED BY Zenon, <2>1, <2>2, IdlePhase
<1>16. CASE Bind
  <2>1. phase' = "idle"
    BY Zenon, <1>16 DEF Bind, PhaseEstablishes
  <2>2. InstalledIsDurable' /\ LedgerCovers' /\ (acked \subseteq installed)'
    BY Zenon, <1>16 DEF Bind, InstalledIsDurable, LedgerCovers, engine
  <2> QED BY Zenon, <2>1, <2>2, IdlePhase
<1>17. CASE UNCHANGED vars
  <2>1. PhaseEstablishes'
    BY Zenon, <1>17 DEF vars, PhaseEstablishes, process, ledger, engine
  <2> QED BY Zenon, <1>17, <2>1, QuietStep DEF vars, process
<1> QED
    BY Zenon, <1>1, <1>2, <1>3, <1>4, <1>5, <1>6, <1>7, <1>8, <1>9, <1>10, <1>11,
       <1>12, <1>13, <1>14, <1>15, <1>16, <1>17
       DEF Next, ReceiverStep

(* The inductive invariant holds in every reachable state.                 *)
THEOREM Invariance == Spec => []LedgerInv
<1>1. LedgerInv /\ [Next]_vars => LedgerInv'
    BY Zenon, TypeStep, InvStep DEF LedgerInv
<1> QED BY <1>1, LedgerStarts, PTL DEF Spec

(* What the ledger covers and each phase establishes, at every moment.     *)
THEOREM LedgerInvariant == Spec => []HandoffInv
<1>1. LedgerInv => HandoffInv
    BY Zenon DEF LedgerInv
<1> QED BY <1>1, Invariance, PTL

(* Type correctness of the receiver, the ledger and the engine state.      *)
THEOREM TypeCorrect == Spec => []TypeOK
<1>1. LedgerInv => TypeOK
    BY Zenon DEF LedgerInv
<1> QED BY <1>1, Invariance, PTL

(* Write-ahead: no generation is or was live that some ledger content a    *)
(* power loss may leave does not cover.                                    *)
THEOREM Durability == Spec => []InstalledIsDurable
<1>1. LedgerInv => InstalledIsDurable
    BY Zenon DEF LedgerInv, HandoffInv
<1> QED BY <1>1, Invariance, PTL

(* An ACK a producer holds is for a generation that became live and that   *)
(* every later ledger refuses.                                             *)
THEOREM AckSoundness == Spec => []AckedStaysConsumed
<1>1. LedgerInv => AckedStaysConsumed
    BY Zenon DEF LedgerInv, HandoffInv, InstalledIsDurable, AckedStaysConsumed
<1> QED BY <1>1, Invariance, PTL

(* A request that returns successfully decodes from its own prompt.        *)
THEOREM RightPrompt == Spec => []LiveAnswersRequest
<1>1. LedgerInv => LiveAnswersRequest
    BY Zenon DEF LedgerInv, HandoffInv, PhaseEstablishes, LiveAnswersRequest
<1> QED BY <1>1, Invariance, PTL

(* No generation is published twice or below an earlier one of its epoch,  *)
(* whatever is lost, retried, crashed or powered off.                      *)
THEOREM AtMostOnce == Spec => NeverReinstalled
<1>1. LedgerInv /\ [Next]_vars =>
        [phase = "reserved" /\ phase' = "committed" =>
            \A i \in installed : i.scope = transfer.scope => i.gen < transfer.gen]_vars
    BY Zenon DEF LedgerInv, HandoffInv, PhaseEstablishes
<1> QED BY <1>1, Invariance, PTL DEF Spec, NeverReinstalled

(* Only Commit changes what was ever installed.                            *)
LEMMA OnlyCommitInstalls == [Next]_vars => Commit \/ installed' = installed
    BY Zenon DEF Next, ReceiverStep, vars, engine, StartRequest, ControlRefused, Connect,
           DropConnection, BeginReceive, BeginRefused, AcceptTimeout, AcceptError,
           SegmentReady, TransferFails, PrepareCommit, ReserveRename, ReserveSync,
           ReserveFails, CommitFails, Ack, Crash, PowerLoss, Die, Bind

(* A latched ledger lets nothing become live before a restart.             *)
THEOREM Latch == Spec => LatchedInstallsNothing
<1>1. LedgerInv /\ Commit => ~latched
    BY Zenon DEF LedgerInv, HandoffInv, PhaseEstablishes, Transferring, Commit
<1>2. LedgerInv /\ [Next]_vars => [latched => installed' = installed]_vars
    BY Zenon, <1>1, OnlyCommitInstalls
<1> QED BY <1>2, Invariance, PTL DEF Spec, LatchedInstallsNothing

(* The receiver with its ledger, wire and crashes implements the abstract  *)
(* at-most-once publication.                                               *)
THEOREM Refinement == Spec => Implements
<1>1. Init => Promise!AbsInit
    BY Zenon DEF Init, Promise!AbsInit
<1>2. LedgerInv /\ [Next]_vars => [Promise!AbsNext]_(Promise!absVars)
  <2> SUFFICES ASSUME LedgerInv, [Next]_vars PROVE [Promise!AbsNext]_(Promise!absVars)
    BY Zenon
  <2> USE DEF Promise!AbsNext, Promise!absVars, engine
  <2>1. ASSUME NEW p \in Prompts, NEW c \in BOOLEAN, StartRequest(p, c)
        PROVE  Promise!Ask
    BY Zenon, <2>1 DEF StartRequest, Promise!Ask
  <2>2. ASSUME Release, UNCHANGED <<live, installed>> PROVE Promise!Ask
    BY Zenon, <2>2 DEF Release, Promise!Ask
  <2>3. CASE Commit
    <3>1. /\ transfer \in Transfers /\ wanted # None /\ transfer.prompt = wanted
          /\ \A i \in installed : i.scope = transfer.scope => i.gen < transfer.gen
      BY Zenon, <2>3 DEF Commit, LedgerInv, TypeOK, HandoffInv, PhaseEstablishes, Transferring
    <3>2. transfer.scope \in Scopes /\ transfer.gen \in Generations
      BY Zenon, <3>1 DEF Transfers
    <3>3. Promise!Publish(transfer.scope, transfer.gen)
      BY Zenon, <2>3, <3>1 DEF Commit, Key, Promise!Publish
    <3> QED BY Zenon, <3>2, <3>3
  <2>4. CASE Crash \/ PowerLoss
    BY Zenon, <2>4 DEF Crash, PowerLoss, Die, Promise!Lose
  <2>5. CASE UNCHANGED <<wanted, live, installed>>
    BY Zenon, <2>5
  <2>6. \/ \E p \in Prompts, c \in BOOLEAN : StartRequest(p, c)
        \/ Release /\ UNCHANGED <<live, installed>>
        \/ Commit \/ Crash \/ PowerLoss
        \/ UNCHANGED <<wanted, live, installed>>
    BY Zenon DEF Next, ReceiverStep, vars, process, ControlRefused, Connect,
           DropConnection, BeginReceive, BeginRefused, AcceptTimeout, AcceptError,
           SegmentReady, TransferFails, PrepareCommit, ReserveRename, ReserveSync,
           ReserveFails, CommitFails, Ack, Bind
  <2> QED BY Zenon, <2>1, <2>2, <2>3, <2>4, <2>5, <2>6
<1> QED BY <1>1, <1>2, Invariance, PTL DEF Spec, Implements, Promise!AbsSpec

-----------------------------------------------------------------------------
(* RemoteBreaker                                                           *)
USE BreakerAssumption DEF BreakerAssumption

LEMMA BreakerStarts == BreakerInit => BreakerInv
<1> SUFFICES ASSUME BreakerInit PROVE BreakerInv
    BY Zenon
<1>1. probe \in BOOLEAN /\ leaked \in BOOLEAN /\ retried \in [Requests -> BOOLEAN]
    BY Zenon DEF BreakerInit
<1>2. BreakerTypeOK
    BY <1>1 DEF BreakerInit, BreakerTypeOK, Stages
<1>3. LeaseHeld /\ ProbeHasResolver
    BY Zenon DEF BreakerInit, LeaseHeld, ProbeHasResolver
<1> QED BY Zenon, <1>2, <1>3 DEF BreakerInv

(* The Boolean state stays Boolean.                                        *)
LEMMA Booleans ==
    ASSUME BreakerTypeOK, BreakerNext
    PROVE  probe' \in BOOLEAN /\ leaked' \in BOOLEAN /\ retried' \in [Requests -> BOOLEAN]
<1> USE DEF BreakerTypeOK
<1>1. CASE CooldownEnds
    BY Zenon, <1>1, Zenon DEF CooldownEnds
<1>2. ASSUME NEW r \in Requests, TurnedAway(r) \/ Open(r) \/ HalfOpen(r)
      PROVE  probe' \in BOOLEAN /\ leaked' \in BOOLEAN /\ retried' \in [Requests -> BOOLEAN]
  <2>1. probe' \in BOOLEAN /\ leaked' \in BOOLEAN
    BY Zenon, <1>2, Zenon DEF TurnedAway, Open, HalfOpen, breakerVars
  <2>2. \/ retried' = retried
        \/ retried' = [retried EXCEPT ![r] = FALSE]
    BY Zenon, <1>2, Zenon DEF TurnedAway, Open, HalfOpen, breakerVars
  <2>3. [retried EXCEPT ![r] = FALSE] \in [Requests -> BOOLEAN]
    BY Zenon
  <2> QED BY Zenon, <2>1, <2>2, <2>3
<1>3. ASSUME NEW r \in Requests, InRequest(r)
      PROVE  probe' \in BOOLEAN /\ leaked' \in BOOLEAN /\ retried' \in [Requests -> BOOLEAN]
  <2>1. probe' = probe \/ probe' = FALSE
    BY Zenon, <1>3, Zenon DEF InRequest, Abandon, Busy, Attempt, Received, CountFailure, Cool,
          ClearProbe, Rearm, ResetFailures, HealProbe, HealCooldown
  <2>2. leaked' = leaked \/ leaked' = FALSE \/ leaked' = (leaked \/ admitted[r] = "probe")
    BY Zenon, <1>3, Zenon DEF InRequest, Abandon, Busy, Attempt, Received, CountFailure, Cool,
          ClearProbe, Rearm, ResetFailures, HealProbe, HealCooldown
  <2>3. retried' = retried \/ retried' = [retried EXCEPT ![r] = TRUE]
    BY Zenon, <1>3, Zenon DEF InRequest, Abandon, Busy, Attempt, Received, CountFailure, Cool,
          ClearProbe, Rearm, ResetFailures, HealProbe, HealCooldown, AfterAttempt
  <2>4. [retried EXCEPT ![r] = TRUE] \in [Requests -> BOOLEAN]
    BY Zenon
  <2>5. probe' \in BOOLEAN
    BY Zenon, <2>1, Zenon
  <2>6. leaked' \in BOOLEAN
    BY Zenon, <2>2, Zenon
  <2> QED BY Zenon, <2>3, <2>4, <2>5, <2>6
<1> QED BY Zenon, <1>1, <1>2, <1>3 DEF BreakerNext

(* After its attempt a request is idle or selects the route a second time. *)
LEMMA AfterAttemptType ==
    ASSUME BreakerTypeOK, NEW r \in Requests, AfterAttempt(r)
    PROVE  /\ \E l \in {"idle", "selected"} : stage' = [stage EXCEPT ![r] = l]
           /\ stage' \in [Requests -> Stages]
           /\ admitted' \in [Requests -> {"open", "probe"}]
<1>1. \E l \in {"idle", "selected"} : stage' = [stage EXCEPT ![r] = l]
    BY Zenon DEF AfterAttempt, Enter
<1> QED BY Zenon, <1>1 DEF AfterAttempt, BreakerTypeOK, Stages

LEMMA BreakerSteps == ASSUME BreakerInv, BreakerNext PROVE BreakerInv'
<1> USE DEF BreakerInv
<1>0. probe' \in BOOLEAN /\ leaked' \in BOOLEAN /\ retried' \in [Requests -> BOOLEAN]
    BY Zenon, Booleans
<1>1. CASE CooldownEnds
    BY Zenon, <1>0, <1>1 DEF CooldownEnds, BreakerTypeOK, LeaseHeld, ProbeHasResolver, Resolver
<1>2. ASSUME NEW r \in Requests, TurnedAway(r) PROVE BreakerInv'
    BY Zenon, <1>2 DEF TurnedAway, breakerVars, BreakerTypeOK, LeaseHeld, ProbeHasResolver, Resolver
<1>3. ASSUME NEW r \in Requests, Open(r) PROVE BreakerInv'
    BY Zenon, <1>0, <1>3 DEF Open, Enter, BreakerTypeOK, Stages, LeaseHeld, ProbeHasResolver, Resolver
<1>4. ASSUME NEW r \in Requests, HalfOpen(r) PROVE BreakerInv'
  <2>1. BreakerTypeOK' /\ LeaseHeld'
    BY <1>0, <1>4 DEF HalfOpen, Enter, BreakerTypeOK, Stages, LeaseHeld
  <2>2. ProbeHasResolver'
    BY Zenon, <1>4 DEF HalfOpen, Enter, BreakerTypeOK, ProbeHasResolver, Resolver
  <2> QED BY Zenon, <2>1, <2>2
<1>5. ASSUME NEW r \in Requests, Abandon(r) PROVE BreakerInv'
  <2>1. BreakerTypeOK' /\ LeaseHeld'
    BY Zenon, <1>0, <1>5 DEF Abandon, Enter, BreakerTypeOK, Stages, LeaseHeld
  <2>2. ~leaked' => ~leaked /\ admitted[r] # "probe"
    BY Zenon, <1>5, Zenon DEF Abandon
  <2>3. ProbeHasResolver'
    BY Zenon, <1>5, <2>2 DEF Abandon, Enter, BreakerTypeOK, ProbeHasResolver, Resolver
  <2> QED BY Zenon, <2>1, <2>3
<1>6. ASSUME NEW r \in Requests, Busy(r) PROVE BreakerInv'
  <2>1. BreakerTypeOK'
    BY Zenon, <1>0, <1>6, AfterAttemptType DEF Busy, BreakerTypeOK
  <2>2. lease \in Requests /\ stage[lease] = "receiving" /\ lease # r
    BY Zenon, <1>6 DEF Busy, BreakerTypeOK, LeaseHeld
  <2>3. stage'[lease] = "receiving"
    BY <1>6, <2>2, AfterAttemptType DEF Busy, BreakerTypeOK
  <2>4. LeaseHeld'
    BY Zenon, <1>6, AfterAttemptType DEF Busy, BreakerTypeOK, LeaseHeld
  <2> QED BY Zenon, <1>6, <2>1, <2>2, <2>3, <2>4 DEF ProbeHasResolver, Resolver
<1>7. ASSUME NEW r \in Requests, Attempt(r) PROVE BreakerInv'
  <2>1. BreakerTypeOK' /\ LeaseHeld'
    BY Zenon, <1>0, <1>7 DEF Attempt, Enter, BreakerTypeOK, Stages, LeaseHeld
  <2> QED BY Zenon, <1>7, <2>1 DEF Attempt, Enter, BreakerTypeOK, ProbeHasResolver, Resolver
<1>8. ASSUME NEW r \in Requests, NEW l \in {"failed", "committed"}, Received(r, l)
      PROVE  BreakerInv'
  <2>1. BreakerTypeOK' /\ LeaseHeld'
    BY Zenon, <1>0, <1>8 DEF Received, Enter, BreakerTypeOK, Stages, Failing, Healing, LeaseHeld
  <2> QED BY Zenon, <1>8, <2>1 DEF Received, Enter, BreakerTypeOK, ProbeHasResolver, Resolver
<1>9. ASSUME NEW r \in Requests, CountFailure(r) \/ Cool(r) \/ ResetFailures(r)
      PROVE  BreakerInv'
  <2>1. BreakerTypeOK'
    BY <1>0, <1>9 DEF CountFailure, Cool, ResetFailures, Enter, BreakerTypeOK, Stages, Failing, Healing
  <2>2. LeaseHeld'
    BY Zenon, <1>9 DEF CountFailure, Cool, ResetFailures, Enter, BreakerTypeOK, LeaseHeld
  <2>3. /\ stage'[r] \in {"cooling", "clearing", "healing"}
        /\ \A q \in Requests \ {r} : stage'[q] = stage[q]
        /\ UNCHANGED <<probe, leaked, admitted>>
    BY Zenon, <1>9 DEF CountFailure, Cool, ResetFailures, Enter, BreakerTypeOK
  <2> QED BY Zenon, <2>1, <2>2, <2>3 DEF ProbeHasResolver, Resolver
<1>10. ASSUME NEW r \in Requests, ClearProbe(r) PROVE BreakerInv'
  <2>1. ~probe'
    BY Zenon, <1>10, Zenon DEF ClearProbe
  <2>2. BreakerTypeOK'
    BY Zenon, <1>0, <1>10, AfterAttemptType DEF ClearProbe, Enter, BreakerTypeOK, Stages, Failing
  <2>3. LeaseHeld'
    BY Zenon, <1>10, AfterAttemptType DEF ClearProbe, Enter, BreakerTypeOK, LeaseHeld
  <2> QED BY Zenon, <2>1, <2>2, <2>3 DEF ProbeHasResolver
<1>11. ASSUME NEW r \in Requests, HealProbe(r) PROVE BreakerInv'
  <2>1. ~probe'
    BY Zenon, <1>11, Zenon DEF HealProbe
  <2>2. BreakerTypeOK' /\ LeaseHeld'
    BY Zenon, <1>0, <1>11 DEF HealProbe, Enter, BreakerTypeOK, Stages, Healing, LeaseHeld
  <2> QED BY Zenon, <2>1, <2>2 DEF ProbeHasResolver
<1>12. ASSUME NEW r \in Requests, Rearm(r) \/ HealCooldown(r) PROVE BreakerInv'
  <2>1. BreakerTypeOK'
    BY Zenon, <1>0, <1>12, AfterAttemptType DEF Rearm, HealCooldown, BreakerTypeOK
  <2>2. LeaseHeld'
    BY Zenon, <1>12, AfterAttemptType DEF Rearm, HealCooldown, BreakerTypeOK, LeaseHeld
  <2>3. /\ \A q \in Requests \ {r} : stage'[q] = stage[q] /\ admitted'[q] = admitted[q]
        /\ ~Resolver(r)
        /\ UNCHANGED <<probe, leaked>>
    BY <1>12, AfterAttemptType DEF Rearm, HealCooldown, AfterAttempt, BreakerTypeOK, Resolver
  <2> QED BY Zenon, <2>1, <2>2, <2>3 DEF ProbeHasResolver, Resolver
<1> QED BY Zenon, <1>1, <1>2, <1>3, <1>4, <1>5, <1>6, <1>7, <1>8, <1>9, <1>10, <1>11, <1>12
        DEF BreakerNext, InRequest

(* record_remote_failure, record_remote_transfer and remote_route_is_open  *)
(* keep the breaker's state well-formed, and a raised probe flag always    *)
(* has a request that will lower it unless a probe was abandoned.          *)
THEOREM BreakerInvariant == BreakerSpec => []BreakerInv
<1>1. BreakerInv /\ [BreakerNext]_breakerVars => BreakerInv'
  <2>1. ASSUME BreakerInv, UNCHANGED breakerVars PROVE BreakerInv'
    BY Zenon, <2>1 DEF BreakerInv, BreakerTypeOK, LeaseHeld, ProbeHasResolver, Resolver, breakerVars
  <2> QED BY Zenon, <2>1, BreakerSteps
<1> QED BY BreakerStarts, <1>1, PTL DEF BreakerSpec

-----------------------------------------------------------------------------
(* SessionMigration                                                        *)
USE MigrationAssumption DEF MigrationAssumption

(* A run that is under way has a journal; one that sends has material.     *)
Material ==
    /\ \A t \in Tasks :
          /\ task[t].pc # "idle" => out # Absent
          /\ task[t].pc \in {"journal", "update", "prepare"} => task[t].payload \in Payloads
    /\ \A c \in calls :
          /\ c.op = "prepare" => c.payload \in Payloads
          /\ c.op \in {"streaming", "journal"} => inc # Absent
          /\ out # Absent

(* What the destination itself has written down is true of its disk.       *)
Confirmed ==
    /\ DestinationFirst
    /\ inc # Absent /\ inc.status = "committed" => Landed
    /\ \A c \in calls : c.op = "journal" => Landed

MigrationInv == MigrationTypeOK /\ Material /\ Confirmed

LEMMA MigrationInitInv == MigrationInit => MigrationInv
<1> SUFFICES ASSUME MigrationInit PROVE MigrationInv
    BY Zenon
<1>1. [version |-> 0, busy |-> FALSE] \in Record
    BY FALSE \in BOOLEAN DEF Record, Versions
<1>2. MigrationTypeOK
    BY <1>1 DEF MigrationInit, MigrationTypeOK, Versions, Payloads, Task, PCs
<1>3. Material /\ Confirmed
    BY Zenon DEF MigrationInit, Material, Confirmed, DestinationFirst, Believed, Landed
<1> QED BY Zenon, <1>2, <1>3 DEF MigrationInv

(* Updates of the journal of the source.                                   *)
LEMMA OutUpdate ==
    ASSUME NEW o \in Outgoing, NEW s \in OutStatus, NEW b \in BOOLEAN
    PROVE  /\ [o EXCEPT !.status = s, !.deleted = b] \in Outgoing
           /\ [o EXCEPT !.status = s] \in Outgoing
           /\ [o EXCEPT !.status = s, !.deleted = b].status = s
           /\ [o EXCEPT !.status = s].status = s
           /\ [o EXCEPT !.status = s, !.deleted = b] # Absent
           /\ [o EXCEPT !.status = s] # Absent
<1>1. [o EXCEPT !.status = s, !.deleted = b] \in Outgoing
    BY Zenon DEF Outgoing
<1>2. [o EXCEPT !.status = s] \in Outgoing
    BY Zenon DEF Outgoing
<1>3. [o EXCEPT !.status = s, !.deleted = b].status = s /\ [o EXCEPT !.status = s].status = s
    BY Zenon DEF Outgoing
<1> QED BY Zenon, <1>1, <1>2, <1>3

LEMMA Flags ==
    ASSUME NEW x \in Record, NEW b \in BOOLEAN
    PROVE  [x EXCEPT !.busy = b] \in Record
BY Zenon DEF Record

LEMMA MadeRecord ==
    ASSUME NEW v \in Versions, NEW b \in BOOLEAN
    PROVE  [version |-> v, busy |-> b] \in Record
BY Zenon DEF Record

(* A step of one run to label l.                                           *)
LEMMA GotoTask ==
    ASSUME MigrationTypeOK, NEW t \in Tasks, NEW l \in PCs, Goto(t, l)
    PROVE  /\ task' \in [Tasks -> Task]
           /\ task'[t].pc = l /\ task'[t].payload = task[t].payload
           /\ \A u \in Tasks \ {t} : task'[u] = task[u]
<1>1. [task[t] EXCEPT !.pc = l] \in Task
    BY DEF MigrationTypeOK, Task
<1> QED BY Zenon, <1>1 DEF Goto, MigrationTypeOK, Task

(* A handler's answer.                                                     *)
LEMMA ReplyTask ==
    ASSUME MigrationTypeOK, NEW c \in calls, NEW l \in PCs, Reply(c, l)
    PROVE  /\ task' \in [Tasks -> Task]
           /\ calls' \subseteq calls
           /\ \A u \in Tasks : task'[u] = task[u] \/ (task'[u].pc = l /\ u = c.by)
<1>1. c.by \in Tasks \cup {Absent}
    BY Zenon DEF MigrationTypeOK, Calls
<1>2. CASE c.by = Absent
    BY Zenon, <1>2 DEF Reply, MigrationTypeOK
<1>3. CASE c.by # Absent
  <2>1. c.by \in Tasks
    BY Zenon, <1>1, <1>3
  <2>2. [task[c.by] EXCEPT !.pc = l] \in Task
    BY <2>1 DEF MigrationTypeOK, Task
  <2> QED BY Zenon, <1>3, <2>1, <2>2 DEF Reply, MigrationTypeOK, Task
<1> QED BY Zenon, <1>2, <1>3

(* A run moves on by itself, from label k to label l.                      *)
LEMMA RunStep ==
    ASSUME MigrationInv, NEW t \in Tasks, NEW l \in PCs, Goto(t, l), task[t].pc # "idle",
           out' \in Outgoing,
           l \in {"journal", "update", "prepare"} => task[t].payload \in Payloads,
           l \in {"ack", "last", "delete", "mark", "retain"} => Landed,
           out'.status \in Acked \cup {"completed"} => Landed,
           UNCHANGED <<dstVars, outFile, bounds>>, calls' = calls,
           srcRec' \in Record \cup {Absent}, srcDisk' \in Versions \cup {Absent}
    PROVE  MigrationInv'
<1> USE DEF MigrationInv
<1>1. out' # Absent
    BY Zenon
<1>2. /\ task' \in [Tasks -> Task]
      /\ task'[t].pc = l /\ task'[t].payload = task[t].payload
      /\ \A u \in Tasks \ {t} : task'[u] = task[u]
    BY Zenon, GotoTask
<1>3. MigrationTypeOK'
    BY Zenon, <1>2 DEF MigrationTypeOK, dstVars, bounds
<1>4. Material'
    BY Zenon, <1>1, <1>2 DEF Material, dstVars
<1>5. Landed' = Landed
    BY Zenon DEF Landed, dstVars
<1>6. Believed' => Landed
    BY Zenon, <1>2 DEF Believed, Confirmed, DestinationFirst
<1>7. Confirmed'
    BY Zenon, <1>5, <1>6 DEF Confirmed, DestinationFirst, dstVars
<1> QED BY Zenon, <1>3, <1>4, <1>7

LEMMA SourceInv == ASSUME MigrationInv, NEW t \in Tasks, Source(t) PROVE MigrationInv'
<1> USE DEF MigrationInv
<1>0. /\ task[t].pc # "idle" => out \in Outgoing
      /\ srcRec \in Record \cup {Absent} /\ srcDisk \in Versions \cup {Absent}
    BY Zenon DEF MigrationTypeOK, Material
<1>1. CASE Reconcile(t)
  <2>1. task[t].pc # "idle" /\ out \in Outgoing
    BY Zenon, <1>0, <1>1 DEF Reconcile
  <2>2. PICK l \in {"idle", "delete", "export"} :
          /\ Goto(t, l)
          /\ l = "delete" => out.status \in Acked
    BY Zenon, <1>1 DEF Reconcile
  <2>3. \/ out' = out
        \/ /\ out' = [out EXCEPT !.status = "completed", !.deleted = FALSE]
           /\ out.status \in Acked
    BY Zenon, <1>1 DEF Reconcile
  <2>4. out' \in Outgoing
    <3>1. "completed" \in OutStatus
      BY Zenon DEF OutStatus
    <3>2. [out EXCEPT !.status = "completed", !.deleted = FALSE] \in Outgoing
      BY Zenon, <2>1, <3>1, OutUpdate, Zenon
    <3> QED BY Zenon, <2>1, <2>3, <3>2, Zenon
  <2>5. out'.status \in Acked \cup {"completed"} => Landed
    BY Zenon, <2>1, <2>3 DEF Confirmed, DestinationFirst, Believed
  <2>6. l = "delete" => Landed
    BY Zenon, <2>1, <2>2 DEF Confirmed, DestinationFirst, Believed
  <2> QED BY Zenon, <1>0, <1>1, <2>1, <2>2, <2>4, <2>5, <2>6, RunStep DEF Reconcile, PCs, srcVars
<1>2. CASE DeleteAfterTransfer(t)
  <2>1. task[t].pc # "idle" /\ out \in Outgoing /\ out' = out /\ Landed
    BY Zenon, <1>0, <1>2 DEF DeleteAfterTransfer, Confirmed, DestinationFirst, Believed
  <2>2. PICK l \in {"mark", "retain"} : Goto(t, l)
    BY Zenon, <1>2 DEF DeleteAfterTransfer
  <2>3. srcRec' \in Record \cup {Absent} /\ srcDisk' \in Versions \cup {Absent}
    BY Zenon, <1>0, <1>2 DEF DeleteAfterTransfer, srcVars
  <2> QED BY Zenon, <1>2, <2>1, <2>2, <2>3, RunStep DEF DeleteAfterTransfer, PCs
<1>3. CASE MarkCompleted(t) \/ MarkRetained(t) \/ AckTransfer(t)
  <2>1. task[t].pc # "idle" /\ out \in Outgoing /\ Landed
    BY Zenon, <1>0, <1>3 DEF MarkCompleted, MarkRetained, AckTransfer, Confirmed, DestinationFirst, Believed
  <2>2. PICK s \in {"completed", "destination_committed_source_retained",
                    "destination_committed"}, b \in BOOLEAN :
          out' = [out EXCEPT !.status = s, !.deleted = b]
    BY Zenon, <1>3, TRUE \in BOOLEAN, FALSE \in BOOLEAN DEF MarkCompleted, MarkRetained, AckTransfer
  <2>3. out' \in Outgoing
    BY Zenon, <2>1, <2>2, OutUpdate DEF OutStatus, Acked
  <2>4. PICK l \in {"idle", "last"} : Goto(t, l)
    BY Zenon, <1>3 DEF MarkCompleted, MarkRetained, AckTransfer
  <2> QED BY Zenon, <1>0, <1>3, <2>1, <2>3, <2>4, RunStep
          DEF MarkCompleted, MarkRetained, AckTransfer, PCs, srcVars
<1>4. CASE UpdateTransferring(t) \/ Fail(t)
  <2>1. task[t].pc # "idle" /\ out \in Outgoing
    BY Zenon, <1>0, <1>4 DEF UpdateTransferring, Fail
  <2>2. \/ out' = out
        \/ out' = [out EXCEPT !.status = "transferring", !.deleted = FALSE]
        \/ out' = [out EXCEPT !.status = "ambiguous"]
    BY Zenon, <1>4 DEF UpdateTransferring, Fail
  <2>3. /\ out' \in Outgoing
        /\ out' = out \/ out'.status \in {"transferring", "ambiguous"}
    <3>1. "transferring" \in OutStatus /\ "ambiguous" \in OutStatus
      BY Zenon DEF OutStatus
    <3>2. /\ [out EXCEPT !.status = "transferring", !.deleted = FALSE] \in Outgoing
          /\ [out EXCEPT !.status = "transferring", !.deleted = FALSE].status = "transferring"
      BY Zenon, <2>1, <3>1, OutUpdate, FALSE \in BOOLEAN, Zenon
    <3>3. /\ [out EXCEPT !.status = "ambiguous"] \in Outgoing
          /\ [out EXCEPT !.status = "ambiguous"].status = "ambiguous"
      BY Zenon, <2>1, <3>1, OutUpdate, FALSE \in BOOLEAN, Zenon
    <3> QED BY Zenon, <2>1, <2>2, <3>2, <3>3, Zenon
  <2>4. out'.status \in Acked \cup {"completed"} => Landed
    BY Zenon, <2>1, <2>3 DEF Confirmed, DestinationFirst, Believed, Acked
  <2>5. \/ Goto(t, "prepare") /\ task[t].payload \in Payloads
        \/ Goto(t, "idle")
    BY Zenon, <1>4 DEF UpdateTransferring, Fail, Material
  <2> QED BY Zenon, <1>0, <1>4, <2>1, <2>3, <2>4, <2>5, RunStep DEF UpdateTransferring, Fail, PCs, srcVars
<1>5. CASE Query(t)
  <2>1. task[t].pc # "idle" /\ out \in Outgoing /\ out' = out
    BY Zenon, <1>0, <1>5 DEF Query
  <2>2. out'.status \in Acked \cup {"completed"} => Landed
    BY Zenon, <2>1 DEF Confirmed, DestinationFirst, Believed
  <2>3. (Goto(t, "ack") /\ Landed) \/ Goto(t, "fail")
    BY Zenon, <1>5 DEF Query, Confirmed
  <2> QED BY Zenon, <1>0, <1>5, <2>1, <2>2, <2>3, RunStep DEF Query, PCs, srcVars
<1>6. CASE JournalExport(t)
  <2>1. task[t].pc # "idle" /\ out \in Outgoing /\ task[t].payload \in Payloads
    BY Zenon, <1>0, <1>6 DEF JournalExport, Material
  <2>2. out' \in Outgoing /\ out'.status = "prepared"
    BY Zenon, <1>6, <2>1, FALSE \in BOOLEAN DEF JournalExport, Outgoing, OutStatus
  <2> QED BY Zenon, <1>0, <1>6, <2>1, <2>2, RunStep DEF JournalExport, PCs, Acked, srcVars
<1>7. CASE Export(t)
  <2>1. task[t].pc = "export" /\ out \in Outgoing /\ out' = out
    BY Zenon, <1>0, <1>7 DEF Export
  <2>2. CASE Goto(t, "begin") \/ Goto(t, "fail")
    <3>1. out'.status \in Acked \cup {"completed"} => Landed
      BY Zenon, <2>1 DEF Confirmed, DestinationFirst, Believed
    <3> QED BY Zenon, <1>0, <1>7, <2>1, <2>2, <3>1, RunStep DEF Export, PCs, srcVars
  <2>3. CASE /\ out.payload # Absent
             /\ task' = [task EXCEPT ![t] = [pc |-> "update", payload |-> out.payload]]
    <3>1. out.payload \in Payloads
      BY Zenon, <2>1, <2>3 DEF Outgoing
    <3>2. MigrationTypeOK' /\ Material' /\ (Believed' => Believed)
      BY <1>7, <2>1, <2>3, <3>1 DEF Export, MigrationTypeOK, Task, PCs, Material, Believed, srcVars, dstVars,
                                 bounds
    <3> QED BY Zenon, <1>7, <3>2 DEF Export, Confirmed, DestinationFirst, Landed, dstVars
  <2> QED BY Zenon, <1>7, <2>2, <2>3 DEF Export
<1>8. CASE BeginExport(t)
  <2>1. task[t].pc = "begin" /\ out \in Outgoing /\ out' = out
    BY Zenon, <1>0, <1>8 DEF BeginExport
  <2>2. CASE Goto(t, "fail") /\ UNCHANGED <<content, exported, outFile>>
    <3>1. out'.status \in Acked \cup {"completed"} => Landed
      BY Zenon, <2>1 DEF Confirmed, DestinationFirst, Believed
    <3> QED BY Zenon, <1>0, <1>8, <2>1, <2>2, <3>1, RunStep DEF BeginExport, PCs, srcVars, bounds
  <2>3. CASE /\ srcRec # Absent /\ exported < MaxPayload
             /\ exported' = exported + 1
             /\ content' = [content EXCEPT ![exported'] = srcRec.version]
             /\ outFile' = exported'
             /\ task' = [task EXCEPT ![t] = [pc |-> "journal", payload |-> exported']]
    <3>1. exported' \in Payloads /\ exported' \in 0..MaxPayload /\ srcRec.version \in Versions
      BY <1>0, <2>3 DEF MigrationTypeOK, Payloads, Record
    <3>2. MigrationTypeOK'
      BY Zenon, <1>8, <2>1, <2>3, <3>1 DEF BeginExport, MigrationTypeOK, Task, PCs, srcVars, dstVars
    <3>3. Material' /\ (Believed' => Believed)
      BY Zenon, <1>8, <2>1, <2>3, <3>1 DEF BeginExport, MigrationTypeOK, Material, Believed, dstVars
    <3> QED BY Zenon, <1>8, <3>2, <3>3 DEF BeginExport, Confirmed, DestinationFirst, Landed, dstVars
  <2> QED BY Zenon, <1>8, <2>2, <2>3 DEF BeginExport
<1>9. ASSUME NEW op \in {"prepare", "upload", "commit"}, NEW p \in Payloads \cup {Absent},
             NEW l \in Waiting, task[t].pc # "idle", op = "prepare" => p \in Payloads,
             Call(t, op, p, l)
      PROVE  MigrationInv'
  <2>1. l \in PCs
    BY Zenon, <1>9 DEF PCs
  <2>2. /\ task' \in [Tasks -> Task]
        /\ task'[t].pc = l
        /\ \A u \in Tasks \ {t} : task'[u] = task[u]
    BY Zenon, <1>9, <2>1, GotoTask DEF Call
  <2>3. [by |-> t, op |-> op, payload |-> p] \in Calls
    BY Zenon, <1>9 DEF Calls
  <2>4. MigrationTypeOK'
    BY Zenon, <1>9, <2>2, <2>3 DEF Call, MigrationTypeOK, srcVars, dstVars, bounds
  <2>5. out # Absent
    BY Zenon, <1>9 DEF Material
  <2>6. Material'
    BY <1>9, <2>2, <2>5 DEF Call, Material, Waiting, dstVars
  <2>7. Believed' => Believed
    BY Zenon, <1>9, <2>2 DEF Call, Believed, Waiting
  <2> QED BY <1>9, <2>4, <2>6, <2>7 DEF Call, Confirmed, DestinationFirst, Landed, dstVars
<1>10. CASE SendPrepare(t) \/ SendUpload(t) \/ SendCommit(t)
  <2>1. outFile \in Payloads \cup {Absent} /\ task[t].payload \in Payloads \cup {Absent}
    BY Zenon DEF MigrationTypeOK, Task
  <2> QED BY Zenon, <1>9, <1>10, <2>1 DEF SendPrepare, SendUpload, SendCommit, Waiting, Material
<1> QED BY Zenon, <1>1, <1>2, <1>3, <1>4, <1>5, <1>6, <1>7, <1>8, <1>10 DEF Source

(* What a handler does to the destination keeps what was true of it.       *)
LEMMA HandleInv == ASSUME MigrationInv, NEW c \in Calls, Handle(c) PROVE MigrationInv'
<1> USE DEF MigrationInv
<1>0. /\ c \in calls
      /\ c.op = "prepare" => c.payload \in Payloads
      /\ c.op \in {"streaming", "journal"} => inc # Absent
      /\ c.op = "journal" => Landed
      /\ inc # Absent => inc \in Incoming
      /\ inc # Absent /\ inc.status = "committed" => Landed
      /\ out # Absent
    BY Zenon DEF Handle, PrepareImport, PayloadPath, AcceptPayload, CommitImport, JournalImport,
           Material, Confirmed, MigrationTypeOK
<1>1. ASSUME NEW l \in {"upload", "commit", "query", "fail", "ack"}, Reply(c, l),
             l = "ack" => Landed,
             inc' \in Incoming \cup {Absent}, inc # Absent => inc' # Absent,
             inc' # Absent /\ inc'.status = "committed" => Landed,
             UNCHANGED <<srcVars, dstRec, dstDisk, landed, out, outFile, bounds>>
      PROVE  MigrationInv'
  <2>0. l \in PCs
    BY Zenon DEF PCs
  <2>1. /\ task' \in [Tasks -> Task]
        /\ calls' \subseteq calls
        /\ \A u \in Tasks : task'[u] = task[u] \/ (task'[u].pc = l /\ u = c.by)
    BY Zenon, <1>0, <1>1, <2>0, ReplyTask
  <2>2. MigrationTypeOK'
    BY Zenon, <1>1, <2>1 DEF MigrationTypeOK, srcVars, bounds
  <2>3. Material'
    BY Zenon, <1>0, <1>1, <2>1 DEF Material
  <2>4. Believed' => Landed
    BY Zenon, <1>1, <2>1 DEF Believed, Confirmed, DestinationFirst
  <2>5. Landed' = Landed
    BY Zenon, <1>1 DEF Landed
  <2> QED BY Zenon, <1>1, <2>1, <2>2, <2>3, <2>4, <2>5 DEF Confirmed, DestinationFirst
<1>2. CASE PrepareImport(c)
  <2>1. PICK l \in {"upload", "fail", "ack"} : Reply(c, l) /\ (l = "ack" => Landed)
    BY Zenon, <1>0, <1>2 DEF PrepareImport
  <2>2. /\ inc' \in Incoming \cup {Absent} /\ (inc # Absent => inc' # Absent)
        /\ inc' # Absent /\ inc'.status = "committed" => Landed
    BY <1>0, <1>2 DEF PrepareImport, Incoming, IncStatus
  <2> QED BY Zenon, <1>1, <1>2, <2>1, <2>2 DEF PrepareImport
<1>3. CASE AcceptPayload(c)
  <2>1. PICK l \in {"commit", "query"} : Reply(c, l)
    BY Zenon, <1>3 DEF AcceptPayload
  <2>2. inc \in Incoming
    BY Zenon, <1>0, <1>3 DEF AcceptPayload
  <2>3. /\ inc' \in Incoming \cup {Absent} /\ (inc # Absent => inc' # Absent)
        /\ inc' # Absent /\ inc'.status = "committed" => Landed
    BY <1>0, <1>3, <2>2 DEF AcceptPayload, Incoming, IncStatus
  <2> QED BY Zenon, <1>1, <1>3, <2>1, <2>3 DEF AcceptPayload
<1>4. CASE JournalImport(c)
  <2>1. inc \in Incoming /\ Landed
    BY Zenon, <1>0, <1>4 DEF JournalImport
  <2>2. inc' \in Incoming
    BY Zenon, <1>4, <2>1 DEF JournalImport, Incoming, IncStatus
  <2> QED BY Zenon, <1>1, <1>4, <2>1, <2>2 DEF JournalImport
<1>5. CASE PayloadPath(c) /\ Reply(c, "query")
    BY Zenon, <1>0, <1>1, <1>5 DEF PayloadPath, dstVars
<1>6. ASSUME NEW op \in {"streaming", "journal"}, Proceed(c, op)
      PROVE  /\ calls' \subseteq Calls /\ task' = task
             /\ \A d \in calls' : d \in calls \/ d.op = op
  <2>1. [c EXCEPT !.op = op] \in Calls /\ [c EXCEPT !.op = op].op = op
    BY Zenon DEF Calls
  <2> QED BY Zenon, <1>6, <2>1 DEF Proceed, MigrationTypeOK
<1>7. CASE PayloadPath(c) /\ inc # Absent /\ Proceed(c, "streaming")
  <2>1. /\ calls' \subseteq Calls /\ task' = task
        /\ \A d \in calls' : d \in calls \/ d.op = "streaming"
    BY Zenon, <1>6, <1>7
  <2>2. MigrationTypeOK'
    BY Zenon, <1>7, <2>1 DEF PayloadPath, MigrationTypeOK, srcVars, dstVars, bounds
  <2>3. Material'
    BY Zenon, <1>0, <1>7, <2>1 DEF PayloadPath, Material, dstVars
  <2>4. Confirmed'
    BY Zenon, <1>7, <2>1 DEF PayloadPath, Confirmed, DestinationFirst, Believed, Landed, dstVars
  <2> QED BY Zenon, <2>2, <2>3, <2>4
<1>8. CASE CommitImport(c)
  <2>1. CASE /\ UNCHANGED dstVars
             /\ \/ inc # Absent /\ inc.status = "committed" /\ Reply(c, "ack")
                \/ Reply(c, "query")
    <3>1. PICK l \in {"ack", "query"} : Reply(c, l) /\ (l = "ack" => Landed)
      BY Zenon, <1>0, <2>1
    <3>2. inc' = inc
      BY Zenon, <2>1 DEF dstVars
    <3> QED BY Zenon, <1>0, <1>1, <1>8, <2>1, <3>1, <3>2 DEF CommitImport, dstVars
  <2>2. CASE /\ Importing
             /\ dstDisk' = content[inc.payload]
             /\ dstRec' = [version |-> dstDisk', busy |-> FALSE]
             /\ landed' = landed \cup {inc.payload}
             /\ Proceed(c, "journal") /\ UNCHANGED inc
    <3>1. inc # Absent /\ inc.payload \in Payloads
      BY Zenon, <1>0, <2>2 DEF Importing, Incoming
    <3>2. dstDisk' \in Versions
      BY Zenon, <2>2, <3>1 DEF MigrationTypeOK
    <3>3. dstRec' \in Record
      BY Zenon, <2>2, <3>2, MadeRecord, FALSE \in BOOLEAN
    <3>4. Landed'
      BY <2>2, <3>2 DEF Landed, Versions
    <3>5. /\ calls' \subseteq Calls /\ task' = task
          /\ \A d \in calls' : d \in calls \/ d.op = "journal"
      BY Zenon, <1>6, <2>2
    <3>6. MigrationTypeOK'
      BY Zenon, <1>8, <2>2, <3>1, <3>2, <3>3, <3>5 DEF CommitImport, MigrationTypeOK, srcVars, bounds
    <3>7. Material'
      BY Zenon, <1>0, <1>8, <2>2, <3>1, <3>5 DEF CommitImport, Material
    <3> QED BY Zenon, <3>4, <3>6, <3>7 DEF Confirmed, DestinationFirst
  <2> QED BY Zenon, <1>8, <2>1, <2>2 DEF CommitImport
<1> QED BY Zenon, <1>2, <1>3, <1>4, <1>5, <1>7, <1>8 DEF Handle, PayloadPath

(* A run gives up a call, or a query gets no answer.                       *)
LEMMA FaultInv ==
    ASSUME MigrationInv, NEW t \in Tasks, Timeout(t) \/ QueryFails(t)
    PROVE  MigrationInv'
<1> USE DEF MigrationInv
<1>1. PICK l \in {"fail", "query"} : Goto(t, l)
    BY Zenon DEF Timeout, QueryFails
<1>2. /\ task' \in [Tasks -> Task]
      /\ task'[t].pc \in {"fail", "query"}
      /\ \A u \in Tasks \ {t} : task'[u] = task[u]
    BY Zenon, <1>1, GotoTask DEF PCs
<1>3. faults' \in 0..MaxFaults /\ task[t].pc # "idle"
    BY DEF Timeout, QueryFails, MigrationTypeOK, Waiting
<1>4. /\ calls' \subseteq Calls
      /\ \A d \in calls' : \E c \in calls : d.op = c.op /\ d.payload = c.payload
  <2>1. CASE calls' = calls
    BY Zenon, <2>1 DEF MigrationTypeOK
  <2>2. CASE Timeout(t)
    <3> DEFINE Orphan(c) == [c EXCEPT !.by = IF @ = t THEN Absent ELSE @]
    <3>1. calls' = {Orphan(c) : c \in calls}
      BY Zenon, <2>2 DEF Timeout
    <3>2. \A c \in calls : /\ Orphan(c) \in Calls
                           /\ Orphan(c).op = c.op
                           /\ Orphan(c).payload = c.payload
      BY DEF MigrationTypeOK, Calls
    <3> HIDE DEF Orphan
    <3> QED BY Zenon, <3>1, <3>2
  <2> QED BY Zenon, <2>1, <2>2 DEF QueryFails
<1>5. MigrationTypeOK'
    BY <1>2, <1>3, <1>4 DEF Timeout, QueryFails, MigrationTypeOK, srcVars, dstVars
<1>6. Material'
    BY <1>2, <1>3, <1>4 DEF Timeout, QueryFails, Material, dstVars
<1>7. Believed' => Believed
    BY Zenon, <1>2 DEF Timeout, QueryFails, Believed
<1> QED BY <1>4, <1>5, <1>6, <1>7
        DEF Timeout, QueryFails, Confirmed, DestinationFirst, Landed, dstVars

(* Generations and restores on either side touch the records only.         *)
LEMMA SessionInv ==
    ASSUME MigrationInv, SrcBegin \/ SrcCommit \/ SrcAbort \/ SrcRestore
                \/ DstBegin \/ DstCommit \/ DstAbort \/ DstRestore
    PROVE  MigrationInv'
<1> USE DEF MigrationInv
<1>1. version' \in Versions /\ version \in Versions
    BY DEF SrcBegin, SrcCommit, SrcAbort, SrcRestore, DstBegin, DstCommit, DstAbort, DstRestore,
           bounds, MigrationTypeOK, Versions
<1>2. srcRec' \in Record \cup {Absent}
  <2>1. CASE srcRec' = srcRec
    BY Zenon, <2>1 DEF MigrationTypeOK
  <2>2. ASSUME NEW b \in BOOLEAN, srcRec # Absent, srcRec' = [srcRec EXCEPT !.busy = b]
        PROVE  srcRec' \in Record \cup {Absent}
    BY Zenon, <2>2, Flags DEF MigrationTypeOK
  <2>3. CASE SrcCommit
    BY Zenon, <1>1, <2>3, MadeRecord, FALSE \in BOOLEAN DEF SrcCommit
  <2>4. CASE SrcRestore
    BY Zenon, <2>4, MadeRecord, FALSE \in BOOLEAN DEF SrcRestore, MigrationTypeOK
  <2> QED BY Zenon, <2>1, <2>2, <2>3, <2>4, TRUE \in BOOLEAN, FALSE \in BOOLEAN
          DEF SrcBegin, SrcAbort, DstBegin, DstCommit, DstAbort, DstRestore, srcVars
<1>3. dstRec' \in Record \cup {Absent}
  <2>1. CASE dstRec' = dstRec
    BY Zenon, <2>1 DEF MigrationTypeOK
  <2>2. ASSUME NEW b \in BOOLEAN, dstRec # Absent, dstRec' = [dstRec EXCEPT !.busy = b]
        PROVE  dstRec' \in Record \cup {Absent}
    BY Zenon, <2>2, Flags DEF MigrationTypeOK
  <2>3. CASE DstCommit
    BY Zenon, <1>1, <2>3, MadeRecord, FALSE \in BOOLEAN DEF DstCommit
  <2>4. CASE DstRestore
    BY Zenon, <2>4, MadeRecord, FALSE \in BOOLEAN DEF DstRestore, MigrationTypeOK
  <2> QED BY Zenon, <2>1, <2>2, <2>3, <2>4, TRUE \in BOOLEAN, FALSE \in BOOLEAN
          DEF DstBegin, DstAbort, SrcBegin, SrcCommit, SrcAbort, SrcRestore, dstVars
<1>4. UNCHANGED <<srcDisk, dstDisk, inc, landed, out, outFile, task, calls, content, exported,
                  faults>>
    BY Zenon DEF SrcBegin, SrcCommit, SrcAbort, SrcRestore, DstBegin, DstCommit, DstAbort, DstRestore,
           srcVars, dstVars, bounds
<1>5. MigrationTypeOK'
    BY Zenon, <1>1, <1>2, <1>3, <1>4 DEF MigrationTypeOK
<1> QED BY Zenon, <1>4, <1>5 DEF Material, Confirmed, DestinationFirst, Believed, Landed

(* Restarts of either side.                                                *)
LEMMA RestartInv == ASSUME MigrationInv, SrcRestart \/ DstRestart PROVE MigrationInv'
<1> USE DEF MigrationInv
<1>1. CASE SrcRestart
  <2>1. /\ \A t \in Tasks : task'[t].pc = "idle"
        /\ task' \in [Tasks -> Task]
        /\ faults' \in 0..MaxFaults
    BY <1>1 DEF SrcRestart, Task, PCs, MigrationTypeOK
  <2>2. \A c \in calls : LET d == [c EXCEPT !.by = Absent]
                         IN  d \in Calls /\ d.op = c.op /\ d.payload = c.payload
    BY DEF MigrationTypeOK, Calls
  <2>3. /\ calls' \subseteq Calls
        /\ \A d \in calls' : \E c \in calls : d.op = c.op /\ d.payload = c.payload
    BY Zenon, <1>1, <2>2 DEF SrcRestart
  <2>4. MigrationTypeOK'
    BY Zenon, <1>1, <2>1, <2>3 DEF SrcRestart, MigrationTypeOK, dstVars
  <2>5. Material'
    BY <1>1, <2>1, <2>3 DEF SrcRestart, Material, dstVars
  <2>6. Believed' => Believed
    BY Zenon, <1>1, <2>1 DEF SrcRestart, Believed
  <2> QED BY <1>1, <2>3, <2>4, <2>5, <2>6
          DEF SrcRestart, Confirmed, DestinationFirst, Landed, dstVars
<1>2. CASE DstRestart
  <2>1. \A t \in Tasks :
          /\ task'[t] \in Task
          /\ \/ task'[t] = task[t]
             \/ task'[t].pc \in {"fail", "query"} /\ task[t].pc # "idle"
    BY <1>2 DEF DstRestart, MigrationTypeOK, Task, PCs, Waiting
  <2>2. task' \in [Tasks -> Task] /\ faults' \in 0..MaxFaults
    <3>1. DOMAIN task' = Tasks /\ task' = [t \in DOMAIN task' |-> task'[t]]
      BY Zenon, <1>2, Zenon DEF DstRestart
    <3>2. faults' \in 0..MaxFaults
      BY <1>2 DEF DstRestart, MigrationTypeOK
    <3> QED BY Zenon, <2>1, <3>1, <3>2
  <2>3. MigrationTypeOK'
    BY Zenon, <1>2, <2>2 DEF DstRestart, MigrationTypeOK, srcVars
  <2>4. Material'
    BY <1>2, <2>1 DEF DstRestart, Material
  <2>5. Believed' => Believed
    BY Zenon, <1>2, <2>1 DEF DstRestart, Believed
  <2> QED BY Zenon, <1>2, <2>3, <2>4, <2>5 DEF DstRestart, Confirmed, DestinationFirst, Landed
<1> QED BY Zenon, <1>1, <1>2

LEMMA MigrateInv == ASSUME MigrationInv, NEW t \in Tasks, Migrate(t) PROVE MigrationInv'
<1> USE DEF MigrationInv
<1>1. "first" \in PCs
    BY Zenon DEF PCs
<1>2. /\ task' \in [Tasks -> Task]
      /\ task'[t].pc = "first"
      /\ \A u \in Tasks \ {t} : task'[u] = task[u]
    BY Zenon, <1>1, GotoTask DEF Migrate
<1>3. /\ out' \in Outgoing
      /\ out' = out \/ out'.status = "starting"
  <2>1. CASE out # Absent
    BY Zenon, <2>1 DEF Migrate, MigrationTypeOK
  <2>2. CASE out = Absent
    <3>1. PICK m \in Modes :
            out' = [status |-> "starting", mode |-> m, payload |-> Absent, deleted |-> FALSE]
      BY Zenon, <2>2 DEF Migrate
    <3>2. "starting" \in OutStatus /\ Absent \in Payloads \cup {Absent} /\ FALSE \in BOOLEAN
      BY Zenon DEF OutStatus
    <3>3. out' \in Outgoing
      BY Zenon, <3>1, <3>2 DEF Outgoing
    <3> QED BY Zenon, <3>1, <3>3
  <2> QED BY Zenon, <2>1, <2>2
<1>4. MigrationTypeOK'
    BY Zenon, <1>2, <1>3 DEF Migrate, MigrationTypeOK, srcVars, dstVars, bounds
<1>5. Material'
    BY Zenon, <1>2, <1>3 DEF Migrate, Material, dstVars
<1>6. Believed' => Believed
    BY Zenon, <1>2, <1>3 DEF Migrate, Believed, Acked
<1> QED BY Zenon, <1>4, <1>5, <1>6 DEF Migrate, Confirmed, DestinationFirst, Landed, dstVars

LEMMA MigrationInvariance == MigrationSpec => []MigrationInv
<1>1. MigrationInv /\ [MigrationNext]_migrationVars => MigrationInv'
  <2>1. CASE UNCHANGED migrationVars
    BY <2>1 DEF migrationVars, srcVars, dstVars, bounds, MigrationInv, MigrationTypeOK, Material, Confirmed,
                DestinationFirst, Believed, Landed
  <2> QED BY Zenon, <2>1, SourceInv, HandleInv, FaultInv, SessionInv, RestartInv, MigrateInv DEF MigrationNext
<1> QED BY <1>1, MigrationInitInv, PTL DEF MigrationSpec

(* The type invariant of SessionMigration.                                 *)
THEOREM MigrationTypeCorrect == MigrationSpec => []MigrationTypeOK
<1>1. MigrationInv => MigrationTypeOK
    BY Zenon DEF MigrationInv
<1> QED BY <1>1, MigrationInvariance, PTL

(* "The destination durably commits before a move can delete the source"   *)
(* (run_decode_transfer, commit_import, delete_after_transfer), for any    *)
(* number of concurrent runs, restarts and lost or late calls.             *)
THEOREM CommitBeforeDelete == MigrationSpec => []DestinationFirst
<1>1. MigrationInv => DestinationFirst
    BY Zenon DEF MigrationInv, Confirmed
<1> QED BY <1>1, MigrationInvariance, PTL
=============================================================================
