# A TLA+ model of muser

muser serves a large language model from a Mac (the *decoder*) and lets a GX10
machine (the *producer*) compute the prefill of long prompts. What makes it hard
to get right is not the arithmetic but the state around it: a durable replay
ledger, a pool of resident sessions shared by threads, a leader that decodes for
other threads through raw pointers, a circuit breaker built from atomics,
sessions with revisions that are saved, restored and migrated between machines,
and streams that clients leave and join again. This directory models those parts
in TLA+, checks them with TLC and proves the most important invariants with
TLAPS. `PROJECT.json` lists every run, mutant, theorem, finding and hazard, and
maps each definition to the lines it stands for.

Paths below are relative to the repository.

## 1. Inventory

| Part | Source | State | Operations | What is hard |
|---|---|---|---|---|
| Handoff V2 receive | `muser-cluster`: receiver, producer, security, identity, muse_sink | receive lease, listener backlog, transaction phase, replay ledger in memory, in the file and on disk, live generation | bind, request, accept, begin, segment, seal, reserve, commit, ack | crash between any two of them; lost ACK; late connection of another request; sync that fails |
| Slot pool | `muser-server/src/state.rs` 539-910 | free list, registry, waiting count, unhealthy flag, condvar | acquire, acquire_specific, drop, erase_idle, restore_idle, latch | the flag is outside the mutex; one notify per slot; deadlines |
| Decode batcher | `state.rs` 327-521 | queue, running, last_slot, results | decode, run_one_batch | raw pointers into other threads' sessions; fairness of rotation; panic of the leader |
| Remote breaker | `state.rs` 1681-1850, `openai.rs` | consecutive failures, cool-down, probe flag, producer lease | route check, receive, failure, success | three variables changed one by one; early returns |
| Session store | `session_store.rs` 179-477 | record, bundle file, key table | create, delete, begin, abort, commit, save, restore | file I/O outside the lock; retries; restarts |
| Decode-node migration | `session_store.rs` 245-940, `axum_httpd.rs` 3947-4581 | outgoing and incoming journals, payload files, both sessions | migrate, export, prepare, upload, commit, query, reconcile | two machines, late calls, overlapping retries |
| Storage migration | `axum_httpd.rs` 3859-3938, 4645-4796 | journal, local files, remote file | migrate, restore | ssh commands that fail half-way; overlap |
| Resumable streams | `resumable_stream.rs`, `axum_httpd.rs` 3072-3124 | byte ring, registry, notify | append, finish, replace, evict, get | ring bounds; wake-ups |
| Transfer schedule | `schedule.rs` | none (pure) | muse_schedule_span_for | tile, window and cut boundaries |
| Verifier V2 and gateway | `verifier*.rs` | write-ahead journal, fragments, fences | reserve, prepare, commit, activate, recover | crash recovery |
| Prefix reuse ladder | `muser-kvpack` | token radix, durable and remote stores | lookup, publish, evict | exactness across tiers |
| Node onboarding | `nodes_api.rs`, `node/*` | one running job, progress ring, registry file | create, push, wait, reap, retire | child processes, watchers |
| Model download | `model/download.rs` | partial file | resume, verify, rename | crash between them |
| Engine | `muser-engine` | KV cache, sampler, GPU | decode, verify, sample | numerics |

Interactions: a request acquires a slot (SlotPool), asks whether the remote route
is open (RemoteBreaker), receives a prefix (HandoffReceive), decodes token by
token through the batcher (DecodeBatcher), appends its frames to a stream
(ResumableStream) and, if it is stateful, runs between `begin` and `commit` of the
session store (SessionStore), which migration reads and deletes from.

## 2. Modules

Each component has one specification, an `MC` module with small instances, and,
where something is proved, a `Proofs` module.

**HandoffReceive** (`AtMostOnceInstall` is its abstract specification). `phase` is
where the holder of the receive lease is, from `accept` to `committed`; `backlog`
is the listener's queue, filled by `Connect`, the environment, with transfers of
this request, of earlier ones, of other prompts and of used generations. `state`
is the ledger in memory, `file` what the directory shows and `disk` the *set* of
contents a power loss may leave: `ReserveRename` adds to the set, `ReserveSync`
makes it a single content. `Crash` keeps the file, `PowerLoss` picks any content
of `disk`, `Bind` loads it. Segments are counted; bytes and digests are left out
because a frame that fails to authenticate ends the transfer like any other
failure (`TransferFails`).

**SlotPool**. One step per critical section, except where the code does
something visible inside or outside the mutex: the unhealthy flag is read and
stored without it, so checking, sleeping and waking are separate steps, and
latching is a store (`Fail`) followed by `NotifyAll`. The condvar's wait set is
the threads at `asleep`; `Return` wakes any one of them, as `notify_one` may.

**DecodeBatcher**. A row moves from `queue` to a leader's local `batch`, and its
result to `result`. `Drain` is the coalescing wait and the sort by
`decode_rotation_key`; `forwards` and `skipped` are history. `Panic` is the
unwinding of a forward: nothing after it in `run_one_batch` happens.

**RemoteBreaker**. `failures`, `probe` and `cooldown` change one at a time, in the
order of `record_remote_failure` and `record_remote_transfer`. A request may
select the route twice, as `generate_events` does. `Abandon` is every return
between taking the route and receiving. Requests are in `Auto` mode; `Required`
never asks the breaker.

**SessionStore**. One session id: sessions share only the limit of 64, which is
left out. A bundle is its revision and a `version`, a number no two commits
share, so that properties can tell states apart that have the same revision.
`save` is three steps (clone, write, mark) and `restore` two (read, install), as
the lock is not held across the I/O. `Restart` empties memory and ends every call.

**SessionMigration**. `task` is the program counter of each run of
`run_decode_transfer`; `calls` are HTTP calls that are not answered, which may be
handled after their caller gave up. `out`/`outFile` and `inc` are the journals and
payload files. Clients use the session on both sides (`Src...`, `Dst...`).
Encryption and identity checks are left out: both ends are qualified alike, and a
payload either is the one prepared or is refused.

**StorageMigration**. Where the session exists (`mem`, `disk`, `file`, `remote`),
the journal, and one program counter per run. A command on the storage node may
fail before or after it did its work. The exported session's own revisions are
not modelled here; SessionMigration covers `delete_after_transfer` against newer
revisions.

**ResumableStream**. A frame is its number of bytes and a byte is its offset, so
`got`, what a client was sent, must be consecutive offsets. `NotifyWaiters`,
external, wakes the readers that have registered and stores nothing.

## 3. Runs

`pass` runs find no error; `violation` runs show where a comment or a document
says something the code does not do (section 6).

| Run | Bounds | Shows |
|---|---|---|
| handoff | 2 epochs, 2 prompts, generations 0..2, 1 segment, 2 requests, 3 connections | TypeOK, InstalledIsDurable, AckedStaysConsumed, LiveAnswersRequest, HandoffInv, NeverReinstalled, LatchedInstallsNothing, Implements (refinement of AtMostOnceInstall), RequestEnds |
| slots | 4 threads, 2 slots, queue of 2, named and unnamed acquires | TypeOK, OwnedOnce, QueueCount |
| slots_any | 3 threads, 1 slot, queue of 2, unnamed acquires | NoStrandedWaiter, AcquireEnds |
| batcher | 3 slots, width 2, forwards that succeed, fail and panic | TypeOK, PointersLive, ForwardedOnce, BoundedSkip, DecodeEnds |
| batcher_panic | 3 slots, width 4 | PanicCostsOne fails |
| breaker | 3 requests, limit 3 | BreakerInv, ReopensUnlessAbandoned |
| breaker_leak | 2 requests, limit 2 | RouteReopens fails |
| sessions | 2 workers, a saver, a restorer, 2 keys, key table of 1, 3 commits, 3 records | TypeOK, LinearHistory, IdempotentOnce, RevisionChain |
| migration | 1 run at a time, move and copy, 1 commit, 2 payloads, 3 faults | TypeOK, DestinationFirst, ResumesToEnd |
| storage | 1 run at a time, 4 faults | TypeOK, NeverLost |
| storage_overlap | 2 runs, 1 fault | NeverLost fails |
| streams | 1 reader, 2 streams, ring of 3, frames to 4, 6 bytes | TypeOK, Replay, OneProducer, CompleteAtEnd |

Why the bounds are enough to meet the cases: the handoff run has a used
generation, a fresh one and a spare, with a connection left over from the first
request; slots has more threads than slots and more waiters than the queue takes,
and slots_any two sleepers for one notification; the batcher has more rows than a
batch; the breaker has a request from before the opening beside a probe and a
bystander; the key table is smaller than the number of keys, so it is cleared;
migration can lose a call, the query after it, and restart a side, in one
behaviour; the ring is shorter than one frame and than the stream. Readers of a
stream share nothing they write, so one is enough. Overlapping runs of one
migration are beyond what TLC finishes together with ResumesToEnd; the theorem
CommitBeforeDelete covers them. Symmetry is used only in runs without liveness
properties.

Deadlock is not checked in the migration and stream runs only: their bounds on
faults, payloads and bytes, and a client that left, really are ends.

### Fairness

- Handoff (RequestEnds): the receiver's thread, every wait of which has a timeout.
- Slots (AcquireEnds): a thread in a critical section leaves it and deadlines
  pass (weak); a thread for which the mutex keeps becoming free obtains it
  (strong). Nothing is asked of the owners of slots, which may never finish.
- Batcher (DecodeEnds): threads inside `decode` take steps (its waits time out
  after 1 ms). Weak fairness is enough. The property is about behaviours without
  a panic; PanicCostsOne is about those with one.
- Breaker (RouteReopens, ReopensUnlessAbandoned): time passes and a request in
  progress goes on; nothing is assumed about new requests.
- Migration (ResumesToEnd): tasks and handlers run, and the operator retries a
  transfer that is not completed. Faults are bounded. The property is about
  behaviours in which the session comes to rest (a busy session refuses each
  export and deletion for as long as it is busy) and runs do not overlap.

## 4. Proofs

All proofs are for arbitrary constants satisfying the named ASSUMEs (finite sets
where something is counted, positive widths and limits, a `None` outside the sets
it is joined with). The bounds on counters stay in the guards as arbitrary
numbers, so they do not restrict the theorems' meaning.

- **HandoffReceiveProofs**: Invariance proves `TypeOK /\ HandoffInv` inductive.
  InstalledIsDurable alone is not: a commit preserves it only because the phase
  `reserved` implies that *every* content the disk may hold names the generation
  (PhaseEstablishes), which in turn needs that the file is one of those contents
  and that memory covers what was installed (LedgerCovers). From it follow
  TypeCorrect, LedgerInvariant, Durability, AckSoundness, RightPrompt, the action
  properties AtMostOnce and Latch, and Refinement: every step is a step of
  AtMostOnceInstall or leaves `wanted`, `installed` and `live` alone.
- **SlotPoolProofs**: `TypeOK /\ OwnedOnce /\ QueueCount /\ LatchStored`, where
  LatchStored says that a thread that failed has stored the flag, which is what
  lets OwnedOnce give up slots only in an unhealthy pool. The count is moved with
  the cardinality lemmas of FiniteSetTheorems (CountJoin, CountLeave). Theorems
  TypeCorrect, ExclusiveSlots, ExactQueue.
- **DecodeBatcherProofs**: PointersLive needs that at most one thread leads, a
  dead one included (OneLeader), and that a row is in one place (RowPlace).
  Theorems SafePointers, OneForward.
- **RemoteBreakerProofs**: BreakerInv is inductive as it stands; theorem
  BreakerInvariant.
- **SessionStoreProofs**: TypeCorrect with bounds on revisions; LinearCommits and
  RetriesAreHarmless from Lease (a generation that began on the record now in the
  registry is at or below its revision, and at the same revision the record still
  holds what it began from) and Passed (every commit of a record is below its
  revision). Both are per record, because `restore` may replace a busy one;
  RevisionsCountCommits holds across records, restores and restarts.
- **SessionMigrationProofs**: DestinationFirst with Material (a run that sends has
  something to send) and Confirmed (what the destination has journalled is true
  of its disk). Theorems TypeCorrect, CommitBeforeDelete.

Only model-checked: the liveness properties (RequestEnds, AcquireEnds,
DecodeEnds, ReopensUnlessAbandoned, ResumesToEnd), which are outside what the
installed provers do; BoundedSkip and NoStrandedWaiter (counting arguments over a rotation
and a wait set); and StorageMigration and ResumableStream, whose proofs are
planned.

## 5. Mutants

Each property of a passing run has a mutant: a definition changed as a plausible
bug would change it (a sync left out, `>=` for `>`, a flag not cleared, rows kept
in the queue, an unchecked command), kept beside the definition it mutates. TLC
finds the property violated with it.

## 6. Where code and words differ

Three runs show a disagreement; `PROJECT.json` quotes the lines:

- batcher_panic: a panic of the batch leader leaves `running` set, and later
  decodes wait for ever, where a comment says that it costs one request;
- breaker_leak: a request that takes the half-open probe and returns early closes
  the remote route until restart;
- storage_overlap: a retried storage move and a restore of the same transfer may
  delete both copies.

Others were met while modelling. The models contain these behaviours, the
properties above are stated so that they hold with them, and each is an entry of
the hazards, with its line:

- the ledger is written before the commit; an older comment says after (the code
  is right);
- a waiter that wakes to a free slot takes it although the pool is latched, and a
  latch that falls between check and wait leaves a waiter to time out as
  overloaded;
- a late failure of an old request clears the flag of a probe in flight and lets
  a second probe in;
- `restore` replaces a busy session, whose generation may then commit on a
  revision it did not start from;
- a move deletes revisions committed after the export; a repeated upload and
  commit puts the destination back to the exported revision; two overlapping runs
  of one transfer may leave its id bound to a payload that no longer exists;
- a restore of a completed storage move does nothing;
- a stream that ends between a reader's snapshot and its wait leaves the reader
  waiting.

## 7. Not modelled

Numeric kernels, GPU back ends, weights, tokenizer, vision (out of a model
checker's reach); TLS, framing, encryption and parsing (their outcomes are the
error actions); text processing (grammar, templates), counters, CLI, packaging,
dashboard and benchmarks; the producer's own scheduling (it is an environment
that may do anything the wire allows). The hazards of `PROJECT.json` without a
property say why they have none.

## 8. Plan

Done: the modules above, in the order handoff, slots, batcher, breaker, sessions,
migration, storage, streams.

Next, most important first:

1. liveness of ResumableStream (a reader of a stream ends unless it missed a
   notification), and proofs for it (the ring is the interval of offsets from `dropped`
   to `total`; Replay, OneProducer, CompleteAtEnd) and for StorageMigration
   (NeverLost for one run at a time);
2. VerifierJournal: the write-ahead protocol of `verifier_v2.rs`, with crashes,
   refining an abstract exactly-once carried frontier; then the gateway over it;
3. TransferSchedule: `muse_schedule_span_for` as functions, against a reference
   definition of coverage, positions and cuts scaled down;
4. PrefixReuse: the ladder and the resident radix with eviction;
5. NodeJobs: one job, its ring and watchers, the inactivity reaper; ModelDownload;
6. compositions: RemoteBreaker with HandoffReceive's request, and SlotPool with
   DecodeBatcher and SessionStore, a request's whole life;
7. the speculative loop's accept/reject bookkeeping (`dflash/spec.rs`).
