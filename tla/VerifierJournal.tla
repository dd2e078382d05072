--------------------------- MODULE VerifierJournal ---------------------------
(***************************************************************************)
(* DurableVerifierJournalV2: the write-ahead journal of one verifier       *)
(* session.  A round is reserved, prepared, staged, committed and          *)
(* activated, each by a record in a directory of its own; it is then       *)
(* acknowledged and its repair material collected.  The process may stop   *)
(* between any two file operations, a write may fail with the file torn or *)
(* whole, and open rebuilds the memory from the records alone.             *)
(*                                                                         *)
(* A head digest is the list of links it commits to.  Height, frontier,    *)
(* sampler state and transcript are functions of it, so equal heads stand  *)
(* for the whole of matches_current_parent.  Calls that are refused change *)
(* nothing, and AuthorityFenceV2 may refuse any reserve, prepare or commit. *)
(* Timestamps are left out, and with them the retention period and a retry *)
(* that happens in the very same millisecond.                              *)
(***************************************************************************)
EXTENDS Naturals, Sequences

CONSTANTS Ids,         \* request ids
          Frags,       \* digests of fragment payloads
          Closures,    \* the fragment sets an evaluation can have
          MaxDrafts,   \* max_drafts
          MaxContext,  \* max_context_tokens less the initial transcript
          MaxCrashes,  \* bound: crashes explored
          MaxErrors,   \* bound: faults after which no write fails
          MaxRefusals  \* bound: faults after which the renderer answers

ASSUME JournalAssumption ==
    /\ Closures \subseteq SUBSET Frags
    /\ MaxDrafts \in Nat /\ MaxContext \in Nat /\ MaxErrors \in Nat

VARIABLES disk,     \* directory -> id -> record, Torn or NoRecord
          cas,      \* fragments/: digest -> "absent", "whole" or "torn"
          mem,      \* the journal object
          op,       \* the call in progress
          up,       \* the process holds the journal's lock
          rendered, \* results the renderer has staged
          seen,     \* links the renderer has activated, in order
          told,     \* history: results returned as completed
          crashes, errors, refusals

store == <<disk, cas>>
renderer == <<rendered, seen>>
budget == <<crashes, errors, refusals>>
journalVars == <<disk, cas, mem, op, up, rendered, seen, told, crashes, errors, refusals>>

NoRecord == [slot |-> "absent"]  \* no such file, no such entry
Torn == [slot |-> "torn"]        \* a file whose bytes do not decode

Dirs == {"reservations", "prepared", "staged", "commits", "active", "acks", "tombstones"}
Links == [id : Ids, intent : {"verify", "close"}, height : 0..MaxContext,
          out : {"open", "eos", "closed"}, frags : SUBSET Frags]

Height(head) == IF head = <<>> THEN 0 ELSE head[Len(head)].height
Closed(head) == head # <<>> /\ head[Len(head)].out # "open"

(* AuthenticatedRoundV2 for a parent, as validate_historical admits it.    *)
Rounds(base) ==
    {r \in [id : Ids, intent : {"verify", "close"}, drafts : 0..MaxDrafts, base : {base}] :
        IF r.intent = "close" THEN r.drafts = 0
        ELSE Height(base) + 1 + r.drafts <= MaxContext}

(* ResultDecisionV2: a close commits nothing, a verify the frontier and a  *)
(* prefix of the drafts, with the fragments of what it commits.            *)
Decisions(r) == IF r.intent = "close" THEN {"closed"} \X {0} \X {{}}
                ELSE {"open", "eos"} \X (1..(r.drafts + 1)) \X Closures

(* AuthenticatedResultV2 for a round, as verify_against admits it.         *)
Results(r) ==
    {[id |-> r.id, intent |-> r.intent, round |-> r, base |-> r.base, out |-> d[1],
      height |-> Height(r.base) + d[2], frags |-> d[3]] : d \in Decisions(r)}

Link(x) == [id |-> x.id, intent |-> x.intent, height |-> x.height, out |-> x.out,
            frags |-> x.frags]
NewHead(x) == Append(x.base, Link(x))
Shows(links, link) == \E k \in DOMAIN links : links[k] = link

Blank == [i \in Ids |-> NoRecord]
Having(slots) == {i \in Ids : slots[i] \notin {NoRecord, Torn}}

Fresh == [head |-> <<>>, pending |-> NoRecord, reservations |-> Blank, prepared |-> Blank,
          staged |-> Blank, completions |-> Blank, acks |-> Blank, tombstones |-> Blank]
Idle == [do |-> "idle"]

JournalInit ==
    /\ disk = [d \in Dirs |-> Blank]
    /\ cas = [f \in Frags |-> "absent"]
    /\ mem = Fresh
    /\ op = Idle
    /\ up = TRUE
    /\ rendered = {}
    /\ seen = <<>>
    /\ told = {}
    /\ crashes = 0 /\ errors = 0 /\ refusals = 0

(* write_slot and write_exclusive.  Records carry the time of the call, so *)
(* a second write over an existing file is refused.                        *)
Write(d, i, rec) ==
    /\ disk[d][i] = NoRecord
    /\ disk' = [disk EXCEPT ![d][i] = rec]
    /\ errors' = errors

(* The write returns an error and leaves the file torn, or whole but with  *)
(* its directory entry not known to be synced.                             *)
WriteFails(d, i, rec) ==
    /\ disk[d][i] = NoRecord
    /\ errors + refusals < MaxErrors
    /\ errors' = errors + 1
    /\ \E left \in {Torn, rec} : disk' = [disk EXCEPT ![d][i] = left]

Ready == up /\ op = Idle

(* Terminal, Stale and BusyParent                                          *)
Admits(r) ==
    /\ ~Closed(mem.head)
    /\ r.base = mem.head
    /\ \A i \in Having(mem.reservations) : mem.reservations[i].base # mem.head

(* reserve, when it is not a replay and writes a reservation.              *)
Reserve(r) ==
    /\ Ready
    /\ mem.pending = NoRecord
    /\ \A m \in {mem.tombstones, mem.completions, mem.prepared, mem.reservations} :
          m[r.id] = NoRecord
    /\ Admits(r)
    /\ \/ /\ Write("reservations", r.id, r)
          /\ mem' = [mem EXCEPT !.reservations[r.id] = r]
       \/ /\ WriteFails("reservations", r.id, r)
          /\ mem' = mem
    /\ UNCHANGED <<cas, op, up, renderer, told, crashes, refusals>>

(* mutant: a prepared result is returned as if it were completed           *)
ReplayPrepared(r) ==
    /\ Ready
    /\ mem.pending = NoRecord
    /\ mem.tombstones[r.id] = NoRecord
    /\ mem.prepared[r.id] # NoRecord
    /\ told' = told \cup {mem.prepared[r.id]}
    /\ UNCHANGED <<store, mem, op, up, renderer, budget>>

(* reserve of a completed round: the result is returned again.  A changed  *)
(* intent is refused, a collected round needs a resync.                    *)
Replay(r) ==
    /\ Ready
    /\ mem.pending = NoRecord
    /\ mem.tombstones[r.id] = NoRecord
    /\ mem.completions[r.id] # NoRecord
    /\ mem.completions[r.id].round = r
    /\ told' = told \cup {mem.completions[r.id]}
    /\ UNCHANGED <<store, mem, op, up, renderer, budget>>

(* record_prepared                                                         *)
Prepare(x) ==
    /\ Ready
    /\ mem.reservations[x.id] = x.round
    /\ x.base = mem.head
    /\ mem.prepared[x.id] = NoRecord
    /\ \/ /\ Write("prepared", x.id, x)
          /\ mem' = [mem EXCEPT !.prepared[x.id] = x]
       \/ /\ WriteFails("prepared", x.id, x)
          /\ mem' = mem
    /\ UNCHANGED <<cas, op, up, renderer, told, crashes, refusals>>

(* stage_result: the fragments, then the renderer, then the record.        *)
StageBegin(i) ==
    /\ Ready
    /\ mem.prepared[i] # NoRecord
    /\ mem.staged[i] = NoRecord
    /\ op' = [do |-> "stage", id |-> i]
    /\ UNCHANGED <<store, mem, up, renderer, told, budget>>

(* write_fragment: an existing object must have the same bytes.            *)
StageFragment ==
    /\ op.do = "stage"
    /\ \E f \in mem.prepared[op.id].frags :
          \/ /\ cas[f] = "absent"
             /\ cas' = [cas EXCEPT ![f] = "whole"]
             /\ UNCHANGED <<op, errors>>
          \/ /\ cas[f] = "absent"
             /\ errors + refusals < MaxErrors
             /\ errors' = errors + 1
             /\ cas' = [cas EXCEPT ![f] = "torn"]
             /\ op' = Idle
          \/ /\ cas[f] = "torn"
             /\ op' = Idle
             /\ UNCHANGED <<cas, errors>>
    /\ UNCHANGED <<disk, mem, up, renderer, told, crashes, refusals>>

StageRender ==
    /\ op.do = "stage"
    /\ \A f \in mem.prepared[op.id].frags : cas[f] = "whole"
    /\ \/ /\ rendered' = rendered \cup {mem.prepared[op.id]}
          /\ op' = [op EXCEPT !.do = "record"]
          /\ refusals' = refusals
       \/ /\ errors + refusals < MaxRefusals
          /\ refusals' = refusals + 1
          /\ op' = Idle
          /\ rendered' = rendered
    /\ UNCHANGED <<store, mem, up, seen, told, crashes, errors>>

StageRecord ==
    /\ op.do = "record"
    /\ LET x == mem.prepared[op.id] IN
       \/ /\ Write("staged", op.id, x)
          /\ mem' = [mem EXCEPT !.staged[op.id] = x]
       \/ /\ WriteFails("staged", op.id, x)
          /\ mem' = mem
       \/ /\ disk["staged"][op.id] # NoRecord
          /\ UNCHANGED <<disk, mem, errors>>
    /\ op' = Idle
    /\ UNCHANGED <<cas, up, renderer, told, crashes, refusals>>

(* commit_and_activate up to the commit record, the linearization point.   *)
CommitRound(i) ==
    /\ Ready
    /\ mem.pending = NoRecord
    /\ mem.completions[i] = NoRecord
    /\ mem.staged[i] # NoRecord
    /\ mem.prepared[i] = mem.staged[i]
    /\ mem.prepared[i].base = mem.head
    /\ LET x == mem.prepared[i] IN
       \/ /\ Write("commits", i, x)
          /\ mem' = [mem EXCEPT !.pending = x]
          /\ op' = [do |-> "activate", id |-> i]
       \/ /\ WriteFails("commits", i, x)
          /\ UNCHANGED <<mem, op>>
    /\ UNCHANGED <<cas, up, renderer, told, crashes, refusals>>

(* recover_pending consults no lease.                                      *)
Recover ==
    /\ Ready
    /\ mem.pending # NoRecord
    /\ op' = [do |-> "activate", id |-> mem.pending.id]
    /\ UNCHANGED <<store, mem, up, renderer, told, budget>>

(* mutant: the renderer's refusal goes unnoticed                           *)
ActivateUnchecked ==
    /\ op.do = "activate"
    /\ op' = [op EXCEPT !.do = "publish"]
    /\ \/ seen' = Append(seen, Link(mem.pending)) /\ refusals' = refusals
       \/ errors + refusals < MaxRefusals /\ refusals' = refusals + 1 /\ seen' = seen
    /\ UNCHANGED <<store, mem, up, rendered, told, crashes, errors>>

(* The renderer's activate is idempotent: an external promise.             *)
Activate ==
    /\ op.do = "activate"
    /\ \/ /\ seen' = IF Shows(seen, Link(mem.pending)) THEN seen
                     ELSE Append(seen, Link(mem.pending))
          /\ op' = [op EXCEPT !.do = "publish"]
          /\ refusals' = refusals
       \/ /\ errors + refusals < MaxRefusals
          /\ refusals' = refusals + 1
          /\ op' = Idle
          /\ seen' = seen
    /\ UNCHANGED <<store, mem, up, rendered, told, crashes, errors>>

ApplyActive(m, x) == [m EXCEPT !.head = NewHead(x), !.completions[x.id] = x]

(* write_active, apply_active, and the result goes back to the caller.     *)
PublishActive ==
    /\ op.do = "publish"
    /\ LET x == mem.pending IN
       \/ /\ \/ Write("active", x.id, x)
             \/ disk["active"][x.id] = x /\ UNCHANGED <<disk, errors>>
          /\ mem' = [ApplyActive(mem, x) EXCEPT !.pending = NoRecord]
          /\ told' = told \cup {x}
       \/ /\ WriteFails("active", x.id, x)
          /\ UNCHANGED <<mem, told>>
       \/ /\ disk["active"][x.id] = Torn
          /\ UNCHANGED <<disk, mem, told, errors>>
    /\ op' = Idle
    /\ UNCHANGED <<cas, up, renderer, crashes, refusals>>

(* acknowledge                                                             *)
Acknowledge(i) ==
    /\ Ready
    /\ mem.completions[i] # NoRecord
    /\ mem.acks[i] = NoRecord
    /\ LET x == mem.completions[i] IN
       \/ /\ Write("acks", i, x)
          /\ mem' = [mem EXCEPT !.acks[i] = x]
       \/ /\ WriteFails("acks", i, x)
          /\ mem' = mem
    /\ UNCHANGED <<cas, op, up, renderer, told, crashes, refusals>>

(* garbage_collect: the tombstone first, then one unlink after the other.  *)
(* The unlinks are not synced one by one: any order may survive a crash.   *)
Retire(i) ==
    /\ Ready
    /\ mem.completions[i] # NoRecord
    /\ LET x == mem.completions[i] IN
       \/ /\ mem.tombstones[i] # NoRecord
          /\ op' = [do |-> "retire", id |-> i]
          /\ UNCHANGED <<disk, mem, errors>>
       \/ /\ mem.tombstones[i] = NoRecord
          /\ mem.acks[i] = x
          /\ Write("tombstones", i, x)
          /\ mem' = [mem EXCEPT !.tombstones[i] = x]
          /\ op' = [do |-> "retire", id |-> i]
       \/ /\ mem.tombstones[i] = NoRecord
          /\ mem.acks[i] = x
          /\ WriteFails("tombstones", i, x)
          /\ UNCHANGED <<mem, op>>
    /\ UNCHANGED <<cas, up, renderer, told, crashes, refusals>>

(* mutant: only the completed rounds protect their fragments               *)
ProtectsCompleted(i) ==
    UNION {mem.completions[j].frags : j \in Having(mem.completions) \ {i}}

Protected(i) ==
    (UNION {mem.completions[j].frags : j \in Having(mem.completions) \ {i}})
    \cup (UNION {mem.prepared[j].frags : j \in Having(mem.prepared) \ {i}})

RetireDirs == {"reservations", "prepared", "staged", "acks"}
Garbage(i) == {f \in mem.completions[i].frags \ Protected(i) : cas[f] # "absent"}

RetireUnlink ==
    /\ op.do = "retire"
    /\ \/ \E f \in Garbage(op.id) :
             cas' = [cas EXCEPT ![f] = "absent"] /\ disk' = disk
       \/ \E d \in RetireDirs :
             /\ disk[d][op.id] # NoRecord
             /\ disk' = [disk EXCEPT ![d][op.id] = NoRecord]
             /\ cas' = cas
    /\ UNCHANGED <<mem, op, up, renderer, told, budget>>

RetireEnd ==
    /\ op.do = "retire"
    /\ Garbage(op.id) = {}
    /\ \A d \in RetireDirs : disk[d][op.id] = NoRecord
    /\ mem' = [mem EXCEPT !.reservations[op.id] = NoRecord, !.prepared[op.id] = NoRecord,
                          !.staged[op.id] = NoRecord, !.completions[op.id] = NoRecord,
                          !.acks[op.id] = NoRecord]
    /\ op' = Idle
    /\ UNCHANGED <<store, up, renderer, told, budget>>

Crash ==
    /\ up
    /\ crashes < MaxCrashes
    /\ crashes' = crashes + 1
    /\ up' = FALSE
    /\ mem' = Fresh
    /\ op' = Idle
    /\ UNCHANGED <<store, renderer, told, errors, refusals>>

-----------------------------------------------------------------------------
(* open and restore_records                                                *)

Unretired(slots) == [i \in Ids |-> IF disk["tombstones"][i] # NoRecord THEN NoRecord ELSE slots[i]]

Commits == {disk["commits"][i] : i \in Having(disk["commits"])}
Activated == {x \in Commits : disk["active"][x.id] = x}
Whole(x) == \A f \in x.frags : cas[f] = "whole"
Longest(C) == IF C = {} THEN <<>>
              ELSE NewHead(CHOOSE x \in C : \A y \in C : Len(y.base) <= Len(x.base))

(* The commits are uniquely causal: one chain from genesis, every commit a *)
(* link of it, every link a commit.                                        *)
Chained(C) ==
    C = {} \/ \E last \in C :
        /\ \A x \in C : /\ Len(x.base) <= Len(last.base)
                        /\ NewHead(x) = SubSeq(NewHead(last), 1, Len(x.base) + 1)
        /\ \A k \in 0..Len(last.base) : \E x \in C : Len(x.base) = k

(* Every check of restore_records passes.                                  *)
Restorable ==
    /\ \A d \in Dirs, i \in Ids : disk[d][i] # Torn
    /\ LET res == Unretired(disk["reservations"])
           pre == Unretired(disk["prepared"])
           stg == Unretired(disk["staged"])
       IN  /\ \A i \in Having(pre) : res[i] = pre[i].round
           /\ \A i \in Having(stg) : pre[i] = stg[i] /\ Whole(stg[i])
    /\ \A i \in Having(disk["active"]) : disk["active"][i] = disk["commits"][i]
    /\ Chained(Commits)
    /\ \A x \in Commits : disk["tombstones"][x.id] = NoRecord => Whole(x)
    /\ \A x \in Commits \ Activated : NewHead(x) = Longest(Commits)
    /\ \A d \in {"acks", "tombstones"} : \A i \in Having(disk[d]) : disk[d][i] \in Activated

Restored ==
    LET done == [i \in Ids |-> IF disk["commits"][i] \in Activated THEN disk["commits"][i]
                               ELSE NoRecord]
        open(slots) == [i \in Ids |-> IF done[i] # NoRecord THEN NoRecord ELSE Unretired(slots)[i]]
    IN  [head |-> Longest(Activated),
         pending |-> IF Activated = Commits THEN NoRecord
                     ELSE CHOOSE x \in Commits : x \notin Activated,
         reservations |-> open(disk["reservations"]),
         prepared |-> open(disk["prepared"]),
         staged |-> open(disk["staged"]),
         completions |-> done,
         acks |-> disk["acks"],
         tombstones |-> disk["tombstones"]]

Open ==
    /\ ~up
    /\ Restorable
    /\ up' = TRUE
    /\ mem' = Restored
    /\ UNCHANGED <<store, op, renderer, told, budget>>

-----------------------------------------------------------------------------
Calls ==
    \/ \E r \in Rounds(mem.head) : Reserve(r)
    \/ \E r \in {mem.completions[i].round : i \in Having(mem.completions)}
                \cup {mem.reservations[i] : i \in Having(mem.reservations)} : Replay(r)
    \/ \E i \in Having(mem.reservations) :
          \E x \in Results(mem.reservations[i]) : Prepare(x)
    \/ \E i \in Ids : StageBegin(i) \/ CommitRound(i) \/ Acknowledge(i) \/ Retire(i)
    \/ Recover

Steps == StageFragment \/ StageRender \/ StageRecord \/ Activate \/ PublishActive
         \/ RetireUnlink \/ RetireEnd

JournalNext == Calls \/ Steps \/ Crash \/ Open

JournalSpec == JournalInit /\ [][JournalNext]_journalVars

-----------------------------------------------------------------------------
JournalTypeOK ==
    /\ \A d \in Dirs, i \in Ids : disk[d][i] \in {NoRecord, Torn} \/ disk[d][i].id = i
    /\ cas \in [Frags -> {"absent", "whole", "torn"}]
    /\ mem.head \in Seq(Links)
    /\ up \in BOOLEAN

(* A result that was returned as completed stays decided: it is one of the *)
(* links of the committed chain, whatever stops and restarts in between,   *)
(* and its id never answers with another result.                           *)
AnswersAreDecided ==
    /\ \A x \in told : x \in Activated
    /\ \A x, y \in told : x.id = y.id => x = y

(* A journal that no failed write has touched opens again: no crash, in    *)
(* the middle of a round or of a collection, leaves records that           *)
(* restore_records refuses.                                                *)
Reopens == errors = 0 => Restorable

(* What the records say and what the running process says are the same:    *)
(* after a restart the journal is where it was.                            *)
MemoryIsDurable ==
    (up /\ errors = 0 /\ op.do # "retire") =>
        /\ mem.head = Restored.head
        /\ mem.pending = Restored.pending
        /\ \A i \in Ids : mem.tombstones[i] = NoRecord =>
              mem.completions[i] = Restored.completions[i]

(* A completed answer is the decided one for ever, and what the object in  *)
(* memory believes is on disk.                                             *)
JournalExact == AnswersAreDecided /\ MemoryIsDurable

(* The renderer stages a result before it shows it, and a fragment of a    *)
(* round that is staged and not collected is on disk.                      *)
ClosureBeforeLink ==
    /\ \A k \in DOMAIN seen : \E x \in rendered : Link(x) = seen[k]
    /\ \A i \in Having(mem.staged) : mem.tombstones[i] = NoRecord => Whole(mem.staged[i])

(* The journal implements the carried frontier: the commit records decide, *)
(* the renderer shows.                                                     *)
Frontier == INSTANCE CarriedFrontier WITH decided <- Longest(Commits), shown <- seen

ImplementsFrontier == Frontier!AbsSpec

=============================================================================
