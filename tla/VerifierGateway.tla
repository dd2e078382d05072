--------------------------- MODULE VerifierGateway ---------------------------
(***************************************************************************)
(* VerifierGatewayV1 on top of its journal: the gateway admits a source's  *)
(* round, drives it through the journal's phases around one evaluation of  *)
(* the target model, moves the head in an external registry, shows the     *)
(* render and only then replies.  The source assembles the fragments of    *)
(* the reply, installs them and acknowledges the head before it may ask    *)
(* for the next round.                                                     *)
(*                                                                         *)
(* Every command first finishes what an earlier one left behind            *)
(* (recover_pending_activation, reconcile_committed_activations,           *)
(* refresh_session_failure).  A command that returns an error is over, and *)
(* the source sends it again.  The journal's own activation is deferred:   *)
(* its `seen` only follows the journal, what a reader sees is `visible`.   *)
(***************************************************************************)
EXTENDS VerifierJournal

VARIABLES gw,        \* the command in progress and its next step
          admitted,  \* store: id -> admitted round
          saved,     \* store: id -> evaluated result with its fragments
          intents,   \* store: ids with a durable activation intent
          marks,     \* store: ids with a durable activation-complete record
          acked,     \* store: heads the source has acknowledged
          failed,    \* store: the session failure is latched
          lease,     \* the writer lease of this authority term is live
          registry,  \* the head in the external registry
          visible,   \* links the real renderer shows, in order
          late,      \* ids of rounds whose lifetime is over
          replied,   \* history: results sent as RoundCommitted
          net,       \* fragment frames on their way to the source
          got,       \* id -> fragments the source's assembler holds
          installed  \* heads the source has installed durably

gwStore == <<admitted, saved, intents, marks, acked, failed>>
world == <<lease, registry, visible, late>>
source == <<replied, net, got, installed>>
gwVars == <<gw, gwStore, world, source>>
allVars == <<journalVars, gwVars>>

Rest == [do |-> "rest"]

(* The head of another authority term.                                     *)
Foreign == <<[id |-> NoRecord, intent |-> "verify", height |-> 0, out |-> "open", frags |-> {}]>>

GwInit ==
    /\ JournalInit
    /\ gw = Rest
    /\ admitted = Blank /\ saved = Blank
    /\ intents = {} /\ marks = {} /\ acked = {} /\ failed = FALSE
    /\ lease = TRUE /\ registry = <<>> /\ visible = <<>> /\ late = {}
    /\ replied = {} /\ net = {} /\ got = [i \in Ids |-> {}] /\ installed = {}

At(step) == up /\ op = Idle /\ gw.do = step
Go(step) == gw' = [gw EXCEPT !.do = step]
Return == gw' = Rest

(* An outside service is unavailable, or an evaluation fails for now.      *)
Outage == refusals < MaxRefusals /\ refusals' = refusals + 1

(* pending_round: the unfinished child of the head.                        *)
Children == {i \in Having(mem.reservations) :
                /\ mem.completions[i] = NoRecord
                /\ mem.reservations[i].base = mem.head}

(* mutant: a latched failure does not refuse the next command              *)
CommandAnyway(cmd, r) ==
    /\ up /\ op = Idle /\ gw = Rest
    /\ gw' = [do |-> "recover", cmd |-> cmd, r |-> r, id |-> r.id, then |-> "reply"]
    /\ UNCHANGED <<journalVars, gwStore, world, source>>

Command(cmd, r) ==
    /\ up /\ op = Idle /\ gw = Rest /\ ~failed
    /\ gw' = [do |-> "recover", cmd |-> cmd, r |-> r, id |-> r.id, then |-> "reply"]
    /\ UNCHANGED <<journalVars, gwStore, world, source>>

Submit == \E r \in Rounds(mem.head) \cup {admitted[i] : i \in Having(admitted)} :
             Command("submit", r)

(* FetchMissing and SourceAck name a round the source has the result of.   *)
Fetch == \E x \in replied : got[x.id] # x.frags /\ Command("fetch", x.round)
SendAck == \E x \in replied : NewHead(x) \in installed /\ NewHead(x) \notin acked
                              /\ Command("ack", x.round)

(* reconcile_committed and publish_committed: a compare-and-swap.          *)
Reconciles(x) == registry \in {x.base, NewHead(x)}

(* recover_pending_activation: the registry first, then the journal, then  *)
(* the render.                                                             *)
GwRecover ==
    /\ At("recover")
    /\ \/ /\ mem.pending = NoRecord
          /\ Go("reconcile")
          /\ UNCHANGED <<journalVars, gwStore, world, source>>
       \/ /\ mem.pending # NoRecord
          /\ Outage
          /\ Return
          /\ UNCHANGED <<store, mem, op, up, renderer, told, crashes, errors, gwStore, world,
                         source>>
       \/ /\ mem.pending # NoRecord
          /\ ~Reconciles(mem.pending)
          /\ failed' = TRUE
          /\ Return
          /\ UNCHANGED <<journalVars, admitted, saved, intents, marks, acked, world, source>>
       \/ /\ mem.pending # NoRecord
          /\ intents \ marks = {mem.pending.id}
          /\ Reconciles(mem.pending)
          /\ registry' = NewHead(mem.pending)
          /\ gw' = [gw EXCEPT !.do = "show", !.id = mem.pending.id, !.then = "reconcile"]
          /\ Recover
          /\ UNCHANGED <<gwStore, lease, visible, late, source>>

(* reconcile_committed_activations: a journal completion whose activation  *)
(* is not marked complete is published and shown before anything else.     *)
NoneUnmarked == {}  \* mutant: a completion counts as activation
Unmarked == {i \in intents \ marks : mem.completions[i] # NoRecord}

GwReconcile ==
    /\ At("reconcile")
    /\ \/ /\ Unmarked = {}
          /\ Go("refresh")
          /\ UNCHANGED <<journalVars, gwStore, world, source>>
       \/ \E i \in Unmarked :
             \/ /\ Outage
                /\ Return
                /\ UNCHANGED <<store, mem, op, up, renderer, told, crashes, errors, gwStore,
                               world, source>>
             \/ /\ ~Reconciles(mem.completions[i])
                /\ failed' = TRUE
                /\ Return
                /\ UNCHANGED <<journalVars, admitted, saved, intents, marks, acked, world, source>>
             \/ /\ Reconciles(mem.completions[i])
                /\ registry' = NewHead(mem.completions[i])
                /\ gw' = [gw EXCEPT !.do = "show", !.id = i, !.then = "reconcile"]
                /\ UNCHANGED <<journalVars, gwStore, lease, visible, late, source>>

(* refresh_session_failure, then the command itself.                       *)
GwRefresh ==
    /\ At("refresh")
    /\ IF \E i \in Children : mem.prepared[i] = NoRecord /\ saved[i] = NoRecord /\ i \in late
       THEN failed' = TRUE /\ Return
       ELSE failed' = failed /\ gw' = [gw EXCEPT !.do = gw.cmd, !.id = gw.r.id, !.then = "reply"]
    /\ UNCHANGED <<journalVars, admitted, saved, intents, marks, acked, world, source>>

(* mutant: a child is admitted whatever the source has acknowledged        *)
SourceNotAsked(r) == TRUE

(* require_source_ack_before_new_child                                     *)
SourceCaughtUp(r) ==
    \/ r.base # mem.head
    \/ mem.head = <<>>
    \/ \E i \in Children : mem.reservations[i] = r
    \/ mem.head \in acked

(* drive_round up to the admission record.  A new id must be live, name    *)
(* the current head and find no pending child; an old one must be the      *)
(* round that was admitted under it.                                       *)
AdmissibleAlone(r) ==  \* mutant: the round's own reservation is in its way
    /\ SourceCaughtUp(r)
    /\ Children = {}
    /\ IF admitted[r.id] = NoRecord THEN r.id \notin late /\ r.base = mem.head
       ELSE admitted[r.id] = r

Admissible(r) ==
    /\ SourceCaughtUp(r)
    /\ IF admitted[r.id] = NoRecord
       THEN r.id \notin late /\ r.base = mem.head /\ Children = {}
       ELSE admitted[r.id] = r

GwAdmit ==
    /\ At("submit")
    /\ IF Admissible(gw.r)
       THEN admitted' = [admitted EXCEPT ![gw.id] = gw.r] /\ Go("reserve")
       ELSE admitted' = admitted /\ Return
    /\ UNCHANGED <<journalVars, saved, intents, marks, acked, failed, world, source>>

(* journal.reserve and what its outcome leads to.                          *)
GwReserve ==
    /\ At("reserve")
    /\ \/ /\ mem.completions[gw.id] # NoRecord
          /\ Go("reply")
          /\ Replay(gw.r)
       \/ /\ mem.completions[gw.id] = NoRecord
          /\ mem.prepared[gw.id] # NoRecord
          /\ Go("stage")
          /\ UNCHANGED journalVars
       \/ /\ mem.prepared[gw.id] = NoRecord
          /\ mem.reservations[gw.id] = gw.r
          /\ Go("evaluate")
          /\ UNCHANGED journalVars
       \/ /\ lease /\ gw.id \notin late
          /\ Go("evaluate")
          /\ Reserve(gw.r)
       \/ /\ \A m \in {mem.completions, mem.reservations} : m[gw.id] = NoRecord
          /\ ~(lease /\ gw.id \notin late /\ Admits(gw.r))
          /\ Return
          /\ UNCHANGED journalVars
    /\ UNCHANGED <<gwStore, world, source>>

(* load_for_request, or evaluate and persist.  A permanent failure and an  *)
(* answer after the deadline latch the session failure.                    *)
GwEvaluate ==
    /\ At("evaluate")
    /\ \/ /\ saved[gw.id] # NoRecord
          /\ Go("prepare")
          /\ UNCHANGED <<journalVars, saved, failed>>
       \/ /\ saved[gw.id] = NoRecord /\ gw.id \notin late
          /\ \E x \in Results(gw.r) : saved' = [saved EXCEPT ![gw.id] = x]
          /\ Go("prepare")
          /\ UNCHANGED <<journalVars, failed>>
       \/ /\ saved[gw.id] = NoRecord
          /\ Outage
          /\ \/ failed' = failed
             \/ failed' = TRUE
          /\ Return
          /\ UNCHANGED <<store, mem, op, up, renderer, told, crashes, errors, saved>>
       \/ /\ saved[gw.id] = NoRecord /\ gw.id \in late
          /\ failed' = TRUE
          /\ Return
          /\ UNCHANGED <<journalVars, saved>>
    /\ UNCHANGED <<admitted, intents, marks, acked, world, source>>

GwPrepare ==
    /\ At("prepare")
    /\ \/ lease /\ Prepare(saved[gw.id]) /\ Go("stage")
       \/ ~lease /\ Return /\ UNCHANGED journalVars
    /\ UNCHANGED <<gwStore, world, source>>

(* stage_and_commit: the journal stages with the real renderer.            *)
GwStage ==
    /\ At("stage")
    /\ Go("intent")
    /\ IF mem.staged[gw.id] = NoRecord THEN StageBegin(gw.id) ELSE UNCHANGED journalVars
    /\ UNCHANGED <<gwStore, world, source>>

(* persist_activation_intent.  An intent carries the time of the attempt,  *)
(* and a record that differs is refused: a second attempt fails here.      *)
GwIntent ==
    /\ At("intent")
    /\ \/ /\ mem.staged[gw.id] # NoRecord /\ gw.id \notin intents
          /\ intents' = intents \cup {gw.id}
          /\ Go("acquire")
       \/ /\ mem.staged[gw.id] = NoRecord \/ gw.id \in intents
          /\ Return
          /\ intents' = intents
    /\ UNCHANGED <<journalVars, admitted, saved, marks, acked, failed, world, source>>

(* acquire_activation                                                      *)
GwAcquire ==
    /\ At("acquire")
    /\ \/ Outage /\ Return /\ failed' = failed
          /\ UNCHANGED <<store, mem, op, up, renderer, told, crashes, errors>>
       \/ ~lease /\ Return /\ UNCHANGED <<journalVars, failed>>
       \/ ~Reconciles(saved[gw.id]) /\ Return /\ failed' = TRUE /\ UNCHANGED journalVars
       \/ lease /\ Reconciles(saved[gw.id]) /\ Go("commit") /\ UNCHANGED <<journalVars, failed>>
    /\ UNCHANGED <<admitted, saved, intents, marks, acked, world, source>>

GwCommit ==
    /\ At("commit")
    /\ Go("announce")
    /\ CommitRound(gw.id)
    /\ UNCHANGED <<gwStore, world, source>>

(* publish_committed, under the permit                                     *)
GwAnnounce ==
    /\ At("announce")
    /\ \/ Outage /\ Return /\ registry' = registry
          /\ UNCHANGED <<store, mem, op, up, renderer, told, crashes, errors>>
       \/ registry' = NewHead(saved[gw.id]) /\ Go("show") /\ UNCHANGED journalVars
    /\ UNCHANGED <<gwStore, lease, visible, late, source>>

GwShow ==
    /\ At("show")
    /\ \/ Outage /\ Return /\ visible' = visible
          /\ UNCHANGED <<store, mem, op, up, renderer, told, crashes, errors>>
       \/ /\ LET link == Link(mem.completions[gw.id]) IN
             visible' = IF Shows(visible, link) THEN visible ELSE Append(visible, link)
          /\ Go("mark")
          /\ UNCHANGED journalVars
    /\ UNCHANGED <<gwStore, lease, registry, late, source>>

(* persist_activation_complete                                             *)
GwMark ==
    /\ At("mark")
    /\ marks' = marks \cup {gw.id}
    /\ Go(gw.then)
    /\ UNCHANGED <<journalVars, admitted, saved, intents, acked, failed, world, source>>

(* committed_frames: the result and all its fragments.                     *)
GwReply ==
    /\ At("reply")
    /\ replied' = replied \cup {mem.completions[gw.id]}
    /\ net' = net \cup ({gw.id} \X mem.completions[gw.id].frags)
    /\ Return
    /\ UNCHANGED <<journalVars, gwStore, world, got, installed>>

(* fetch_missing: the fragments the source asks for again.                 *)
GwFetch ==
    /\ At("fetch")
    /\ net' = net \cup ({gw.id} \X (mem.completions[gw.id].frags \ got[gw.id]))
    /\ Return
    /\ UNCHANGED <<journalVars, gwStore, world, replied, got, installed>>

(* source_ack: the journal's record, then the store's.                     *)
GwAck ==
    /\ At("ack")
    /\ Go("acked")
    /\ IF mem.acks[gw.id] = NoRecord THEN Acknowledge(gw.id) ELSE UNCHANGED journalVars
    /\ UNCHANGED <<gwStore, world, source>>

GwAcked ==
    /\ At("acked")
    /\ acked' = acked \cup {NewHead(mem.completions[gw.id])}
    /\ Return
    /\ UNCHANGED <<journalVars, admitted, saved, intents, marks, failed, world, source>>

-----------------------------------------------------------------------------
(* VerifierSourceAssemblerV1: frames are lost and reordered, and come      *)
(* again with every replay and every fetch.                                *)
Deliver == \E m \in net :
    /\ got' = [got EXCEPT ![m[1]] = @ \cup {m[2]}]
    /\ net' = net \ {m}
    /\ UNCHANGED <<journalVars, gw, gwStore, world, replied, installed>>

Lose == \E m \in net :
    /\ net' = net \ {m}
    /\ UNCHANGED <<journalVars, gw, gwStore, world, replied, got, installed>>

(* install_durably, when no fragment is missing.                           *)
Install == \E x \in replied :
    /\ got[x.id] = x.frags
    /\ installed' = installed \cup {NewHead(x)}
    /\ UNCHANGED <<journalVars, gw, gwStore, world, replied, net, got>>

-----------------------------------------------------------------------------
(* The journal's steps run inside a command.  DeferredActivationRendererV1 *)
(* never refuses.                                                          *)
JournalStep ==
    /\ \/ StageFragment \/ StageRender \/ StageRecord \/ PublishActive
       \/ Activate /\ refusals' = refusals
    /\ UNCHANGED gwVars

GwCrash == Crash /\ gw' = Rest /\ UNCHANGED <<gwStore, world, source>>
GwOpen == Open /\ UNCHANGED gwVars

LoseLease ==
    /\ lease' = FALSE
    /\ UNCHANGED <<journalVars, gw, gwStore, registry, visible, late, source>>

(* Another term takes the head over.  The activation permit excludes it.   *)
Usurp ==
    /\ ~lease
    /\ gw.do \notin {"commit", "announce"}
    /\ registry' = Foreign
    /\ UNCHANGED <<journalVars, gw, gwStore, lease, visible, late, source>>

(* Nothing asks for the age of a round once its evaluation is saved.       *)
Expire(i) ==
    /\ saved[i] = NoRecord
    /\ late' = late \cup {i}
    /\ UNCHANGED <<journalVars, gw, gwStore, lease, registry, visible, source>>

Commands == Submit \/ Fetch \/ SendAck
GwSteps == \/ GwRecover \/ GwReconcile \/ GwRefresh \/ GwAdmit \/ GwReserve \/ GwEvaluate
           \/ GwPrepare \/ GwStage \/ GwIntent \/ GwAcquire \/ GwCommit \/ GwAnnounce
           \/ GwShow \/ GwMark \/ GwReply \/ GwFetch \/ GwAck \/ GwAcked \/ JournalStep

GwNext == \/ Commands \/ GwSteps \/ Deliver \/ Lose \/ Install
          \/ GwCrash \/ GwOpen \/ LoseLease \/ Usurp \/ \E i \in Ids : Expire(i)

GwSpec == GwInit /\ [][GwNext]_allVars

(* A command runs to its end, the process is started again, and the source *)
(* repeats the round it has submitted until it has the result.             *)
Resubmit(i) == admitted[i] # NoRecord /\ Command("submit", admitted[i])

GwFairness ==
    /\ WF_allVars(GwSteps) /\ WF_allVars(GwOpen)
    /\ \A i \in Ids : SF_allVars(Resubmit(i))

GwFairSpec == GwSpec /\ GwFairness

-----------------------------------------------------------------------------
(* A commit record on disk has its durable intent and its evaluated        *)
(* result: recovery never finds a decision it cannot finish.               *)
PendingHasIntent ==
    \A x \in Commits : x.id \in intents /\ saved[x.id] = x

(* A reader sees no link before the registry had its head: every visible   *)
(* link was published under this term, and every reply follows the render. *)
ReplyIsVisible ==
    /\ \A x \in replied : Shows(visible, Link(x)) /\ x \in Activated
    /\ registry # Foreign => \E n \in 0..Len(registry) : visible = SubSeq(registry, 1, n)

(* The source is never more than one head behind what is decided.          *)
SourceFollows ==
    \A k \in 1..(Len(Longest(Commits)) - 1) :
        SubSeq(Longest(Commits), 1, k) \in installed \cap acked

(* VerifierGateway: every reply is of a round that is decided, activated   *)
(* and visible, and the source is at most one head behind.                 *)
RepliesFollow == ReplyIsVisible /\ SourceFollows

(* Once the failure is latched the session decides and shows nothing more. *)
FailureIsFinal == [][failed => failed' /\ UNCHANGED <<disk["commits"], visible, replied>>]_allVars

(* Between commands, an intent whose commit record was never written.      *)
Stranded == gw = Rest /\ \E i \in intents : disk["commits"][i] = NoRecord

(* Another round has taken the place of this one, or closed the session.   *)
Overtaken(i) == /\ up /\ admitted[i] # NoRecord /\ disk["commits"][i] = NoRecord
                /\ admitted[i].base # mem.head \/ Closed(mem.head)

Answered(i) == failed \/ \E x \in replied : x.id = i

(* A round that was admitted is answered, by its result or by the session  *)
(* failure, once the source keeps repeating it, while the lease lasts.     *)
(* Three things stop it: the round's lifetime ends before it is reserved,  *)
(* another round takes its place or ends the session, or an intent is      *)
(* stranded.                                                               *)
RoundEnds ==
    []lease => \A i \in Ids :
        (admitted[i] # NoRecord) ~>
            (Answered(i) \/ i \in late \/ Overtaken(i) \/ Stranded)

(* The gateway implements the carried frontier with the real renderer.     *)
GwFrontier == INSTANCE CarriedFrontier WITH decided <- Longest(Commits), shown <- visible

GwImplementsFrontier == GwFrontier!AbsSpec
=============================================================================
