---------------------------- MODULE DFlashMirror ----------------------------
(***************************************************************************)
(* The Metal side of the assistant (metal/dflash.rs): an accelerator       *)
(* mirror of the context cache, kept current by stamps instead of copies;  *)
(* a per-round arena the GPU writes new K/V rows to; rounds prepared       *)
(* before the verifier has decided and finished for the prefix it chose;   *)
(* and the prompt pipeline (decode.rs), which computes the assistant's     *)
(* rows of one chunk while the target already runs the next, through two   *)
(* capture slots.                                                          *)
(*                                                                         *)
(* A row is <<rotated position, source position, token>>: the position its *)
(* key was rotated to, and the target row it was computed from.  The GPU   *)
(* runs the pending command at any moment up to the wait on it, and reads  *)
(* the capture slot then.                                                  *)
(***************************************************************************)
EXTENDS DFlashContext, FiniteSetsExt

CONSTANTS
    Tokens,         \* tokens a round's rows can be computed from
    PromptTokens,   \* and those of a prompt or a snapshot
    RoundRows,      \* rows a round or a preparation can consume
    Prompts,        \* lengths of a prompt, and of an installed snapshot
    MaxPos,         \* bound: target positions
    MaxIds,         \* bound: cache incarnations
    MaxRounds,      \* bound: rounds and preparations begun
    Widths,         \* prompt chunk widths: with and without a decode waiting
    None

VARIABLES
    cache,      \* the authoritative DFlashContextKvCache
    seen,       \* history: the target rows the assistant was told are real
    mirror,     \* cached_k/cached_v: slot -> row
    sync,       \* synchronized_identity and _revision: a stamp or None
    arena,      \* round_k/round_v: rows, <<>> when nobody can rely on them
    prepared,   \* active_prepared
    handles,    \* prepared handles their callers still hold
    issued,     \* prepared_generation
    rounds,     \* bounded: rounds and preparations begun
    checkpoint, \* of the unresolved provisional append, or None
    slots,      \* prompt_capture_slots: the rows a chunk captured
    pending,    \* pending_prompt_chunk, or None
    pipe        \* where forward_dflash_prompt_pipelined is

round == <<prepared, handles, issued, rounds, checkpoint>>
prompt == <<slots, pending, pipe>>
vars == <<cache, seen, mirror, sync, arena, round, prompt>>

Idle == [at |-> "idle"]
Stamp(c) == <<c.identity, c.revision>>
Source(p, t) == <<p, p, t>>
Block(from, n, t) == [i \in 1..n |-> Source(from + i, t)]

Init ==
    /\ cache = NewCache(1)
    /\ seen = <<>>
    /\ mirror = [i \in 1..Capacity |-> None]
    /\ sync = None
    /\ arena = <<>>
    /\ prepared = None
    /\ handles = {}
    /\ issued = 0
    /\ rounds = 0
    /\ checkpoint = None
    /\ slots = <<>>
    /\ pending = None
    /\ pipe = Idle

(***************************************************************************)
(* synchronize_cache copies the rows over; it is called unless the stamps  *)
(* say that the mirror already holds this cut of this cache.               *)
(***************************************************************************)
Synchronized == sync = Stamp(cache)

Copied == [i \in 1..Capacity |-> IF i <= cache.ctxLen THEN cache.planes[1][i] ELSE mirror[i]]
MirrorFor == IF Synchronized THEN mirror ELSE Copied

(***************************************************************************)
(* append_cached_rows: the mirror's own in-place version of append_layer.  *)
(* The rows that stay in the window move to the front of it, the newest    *)
(* rows follow, and a sink that was not full is completed last.            *)
(***************************************************************************)
AppendIgnoringSink(held, fresh, current, added) ==
    LET total == current + added
        drop == IF total > Capacity THEN total - Capacity ELSE 0
        at(i) == IF i + drop <= current THEN held[i + drop] ELSE fresh[i + drop - current]
    IN  [i \in 1..Capacity |-> IF i + drop <= total THEN at(i) ELSE held[i]]

AppendCachedRows(held, fresh, current, added) ==
    LET total == current + added
        sinkRows == Min({Sink, total})
        sinkHeld == Min({current, sinkRows})
        tail == Min({Win, total - sinkRows})
        prior == IF added >= tail THEN 0 ELSE tail - added
        row(i) ==
            CASE i \in sinkHeld + 1..sinkRows -> fresh[i - sinkHeld]
              [] i \in sinkRows + 1..sinkRows + prior -> held[current - prior + i - sinkRows]
              [] i \in sinkRows + prior + 1..sinkRows + tail
                    -> fresh[added - tail + i - sinkRows]
              [] OTHER -> held[i]
    IN  IF total <= Capacity
        THEN [i \in 1..Capacity |-> IF i \in current + 1..total THEN fresh[i - current]
                                                                ELSE held[i]]
        ELSE [i \in 1..Capacity |-> row(i)]

(***************************************************************************)
(* commit_round: the first n rows of the arena enter the mirror and the    *)
(* cache, and the mirror is stamped with the cache's new revision.         *)
(***************************************************************************)
CommitRound(m, rows, n) ==
    LET after == Forward(cache, SubSeq(rows, 1, n))
    IN  /\ mirror' = AppendCachedRows(m, rows, cache.ctxLen, n)
        /\ cache' = after
        /\ sync' = Stamp(after)

(***************************************************************************)
(* reset and install_context_snapshot replace the cache by one of a new    *)
(* identity and drop the active preparation; the mirror is left as it is,  *)
(* its stamps no longer match.                                             *)
(***************************************************************************)
Exclusive == checkpoint = None /\ pipe.at \in {"idle", "failed"}

Reset ==
    /\ Exclusive
    /\ cache.identity < MaxIds
    /\ cache' = NewCache(cache.identity + 1)
    /\ seen' = <<>>
    /\ prepared' = None
    /\ pipe' = Idle
    /\ UNCHANGED <<mirror, sync, arena, handles, issued, rounds, checkpoint, slots, pending>>

InstallContextSnapshot(n, t) ==
    /\ Exclusive
    /\ cache.identity < MaxIds
    /\ seen' = Block(0, n, t)
    /\ LET rows == Retained(Block(0, n, t))
       IN  cache' = [NewCache(cache.identity + 1) EXCEPT
                        !.planes = [l \in Layers |-> rows], !.ctxLen = Len(rows),
                        !.ctxOffset = n, !.revision = 1]
    /\ prepared' = None
    /\ pipe' = Idle
    /\ UNCHANGED <<mirror, sync, arena, handles, issued, rounds, checkpoint, slots, pending>>

(***************************************************************************)
(* forward: a whole round of n target rows.  With keep it is the draft's   *)
(* ordinary round; without, the overlapped one, which the verification may *)
(* still take back (at most a window of rows, as checkpoint_append         *)
(* requires).  A failed wait leaves the cache and the mirror alone.        *)
(***************************************************************************)
Round == pipe = Idle /\ checkpoint = None
BeginRound == Round /\ rounds < MaxRounds /\ rounds' = rounds + 1

ForwardRound(n, t, keep) ==
    /\ BeginRound
    /\ cache.ctxOffset + n <= MaxPos
    /\ keep \/ n <= Win
    /\ LET rows == Block(cache.ctxOffset, n, t)
       IN  /\ arena' = rows
           /\ CommitRound(MirrorFor, rows, n)
           /\ seen' = seen \o rows
    /\ prepared' = None
    /\ checkpoint' = IF keep THEN None ELSE CheckpointAppend(cache, n)
    /\ UNCHANGED <<handles, issued, prompt>>

ForwardFails(n) ==
    /\ BeginRound
    /\ arena' = <<>>
    /\ mirror' = MirrorFor
    /\ sync' = Stamp(cache)
    /\ prepared' = None
    /\ UNCHANGED <<cache, seen, handles, issued, checkpoint, prompt>>

(***************************************************************************)
(* prepare_target_context computes the rows of a cut ahead of the          *)
(* verifier's decision and hands out a single-use handle: the stamp of the *)
(* cut (rows is history: what the preparation was given).                  *)
(***************************************************************************)
PrepareTargetContext(n, t) ==
    /\ BeginRound
    /\ cache.ctxOffset + n <= MaxPos
    /\ LET rows == Block(cache.ctxOffset, n, t)
           stamp == [generation |-> issued + 1, cut |-> Stamp(cache), ctxLen |-> cache.ctxLen,
                     ctxOffset |-> cache.ctxOffset, rows |-> rows]
       IN  /\ arena' = rows
           /\ prepared' = stamp
           /\ handles' = handles \cup {stamp}
    /\ mirror' = MirrorFor
    /\ sync' = Stamp(cache)
    /\ issued' = issued + 1
    /\ UNCHANGED <<cache, seen, checkpoint, prompt>>

(***************************************************************************)
(* finish_prepared: the handle must be the active one, and the cache and   *)
(* the mirror must still be at its cut; then exactly the selected prefix   *)
(* is attended to and committed.  Provisionally, all of it is, behind a    *)
(* checkpoint.                                                             *)
(***************************************************************************)
MatchesPrepared(h) ==
    /\ Stamp(cache) = h.cut
    /\ cache.ctxLen = h.ctxLen
    /\ cache.ctxOffset = h.ctxOffset
    /\ Synchronized

Finishes(h, n) == prepared = h /\ n \in 1..Len(h.rows) /\ MatchesPrepared(h)

FinishPrepared(h, n, keep) ==
    /\ Round
    /\ Finishes(h, n)
    /\ ~keep => n = Len(h.rows) /\ n <= Win
    /\ CommitRound(mirror, arena, n)
    /\ seen' = seen \o SubSeq(h.rows, 1, n)
    /\ prepared' = None
    /\ handles' = handles \ {h}
    /\ checkpoint' = IF keep THEN None ELSE CheckpointAppend(cache, n)
    /\ UNCHANGED <<arena, issued, rounds, prompt>>

(***************************************************************************)
(* A finish that is refused or whose command fails.  Refusing a handle     *)
(* that was superseded leaves the newer preparation active, except when    *)
(* finishing provisionally, which invalidates it; every other refusal      *)
(* consumes the active preparation.                                        *)
(***************************************************************************)
FinishRefused(h, n, keep) ==
    /\ Round
    /\ keep \/ n = Len(h.rows)
    /\ handles' = handles \ {h}
    /\ prepared' = IF prepared # h /\ keep THEN prepared ELSE None
    /\ UNCHANGED <<cache, seen, mirror, sync, arena, issued, rounds, checkpoint, prompt>>

DiscardPrepared(h) ==
    /\ Round
    /\ handles' = handles \ {h}
    /\ prepared' = IF prepared = h THEN None ELSE prepared
    /\ UNCHANGED <<cache, seen, mirror, sync, arena, issued, rounds, checkpoint, prompt>>

(***************************************************************************)
(* The verifier's decision on a provisional append: keep it, or roll the   *)
(* cache back to the checkpoint (a rollback that cannot be justified       *)
(* replaces the cache).  The mirror is not rolled back.                    *)
(***************************************************************************)
Keep ==
    /\ checkpoint # None
    /\ checkpoint' = None
    /\ UNCHANGED <<cache, seen, mirror, sync, arena, prepared, handles, issued, rounds, prompt>>

RollBack ==
    /\ checkpoint # None
    /\ IF RollbackTarget(cache, checkpoint)
       THEN /\ cache' = RollbackAppend(cache, checkpoint)
            /\ seen' = SubSeq(seen, 1, Len(seen) - checkpoint.tokens)
       ELSE /\ cache' = NewCache(cache.identity + 1)
            /\ seen' = <<>>
    /\ checkpoint' = None
    /\ prepared' = None
    /\ UNCHANGED <<mirror, sync, arena, handles, issued, rounds, prompt>>

(***************************************************************************)
(* retained_prompt_subranges: which rows of the chunk [from, to) of a      *)
(* prompt survive retention, as <<offset in the chunk, position, rows>>.   *)
(***************************************************************************)
RetainedPromptSubranges(from, to, prefix) ==
    LET intervals == IF prefix <= Capacity
                     THEN <<<<0, prefix>>>>
                     ELSE <<<<0, Sink>>, <<prefix - Win, prefix>>>>
        part(i) == <<Max({from, i[1]}), Min({to, i[2]})>>
        kept == SelectSeq([k \in DOMAIN intervals |-> part(intervals[k])],
                          LAMBDA p : p[1] < p[2])
    IN  [k \in DOMAIN kept |-> <<kept[k][1] - from, kept[k][1], kept[k][2] - kept[k][1]>>]

(***************************************************************************)
(* begin_prompt_pipeline, on the cache that prepare_greedy_batch has just  *)
(* reset: no preparation survives, the arena is reallocated for whole      *)
(* chunks and the (empty) cache is mirrored.                               *)
(***************************************************************************)
BeginPromptPipeline(len, t) ==
    /\ Exclusive
    /\ cache.identity < MaxIds
    /\ cache' = NewCache(cache.identity + 1)
    /\ seen' = Block(0, len - 1, t)
    /\ sync' = Stamp(cache')
    /\ arena' = <<>>
    /\ prepared' = None
    /\ slots' = <<<<>>, <<>>>>
    /\ pipe' = [at |-> "chunk", len |-> len, tok |-> t, from |-> 0, index |-> 0]
    /\ UNCHANGED <<mirror, handles, issued, rounds, checkpoint, pending>>

(***************************************************************************)
(* finish_pending_prompt_chunk: wait for the command and commit its rows,  *)
(* provided the cache is still at the cut it was encoded for.              *)
(***************************************************************************)
Reapable == pending # None => pending.ran /\ pending.cut = Stamp(cache)

Reaped ==
    IF pending = None THEN [cache |-> cache, mirror |-> mirror, sync |-> sync]
    ELSE LET after == Forward(cache, SubSeq(arena, 1, pending.rows))
         IN  [cache |-> after, sync |-> Stamp(after),
              mirror |-> AppendCachedRows(mirror, arena, cache.ctxLen, pending.rows)]

Reap ==
    /\ Reapable
    /\ cache' = Reaped.cache
    /\ mirror' = Reaped.mirror
    /\ sync' = Reaped.sync
    /\ pending' = None

(***************************************************************************)
(* One chunk: narrow when a decode is waiting.  Only a chunk with retained *)
(* rows, or the last one, is captured; its slot alternates, and a pending  *)
(* command that reads that slot is reaped first.                           *)
(***************************************************************************)
TakeChunk(width) ==
    /\ pipe.at = "chunk"
    /\ pipe.from < pipe.len
    /\ LET to == Min({pipe.from + width, pipe.len})
           retained == RetainedPromptSubranges(pipe.from, Min({to, pipe.len - 1}), pipe.len - 1)
           slot == (pipe.index % 2) + 1
           captured == retained # <<>> \/ to = pipe.len
       IN  /\ pipe' = [at |-> "target", len |-> pipe.len, tok |-> pipe.tok, from |-> pipe.from,
                       index |-> pipe.index, to |-> to, retained |-> retained, slot |-> slot,
                       captured |-> captured]
           /\ IF captured /\ pending # None /\ pending.slot = slot
              THEN Reap
              ELSE UNCHANGED <<cache, mirror, sync, pending>>
    /\ UNCHANGED <<seen, arena, round, slots>>

(***************************************************************************)
(* The target's forward pass over the chunk writes the capture slot.       *)
(***************************************************************************)
RunTarget ==
    /\ pipe.at = "target"
    /\ slots' = IF pipe.captured
                THEN [slots EXCEPT ![pipe.slot] = Block(pipe.from, pipe.to - pipe.from, pipe.tok)]
                ELSE slots
    /\ pipe' = [pipe EXCEPT !.at = "deliver"]
    /\ UNCHANGED <<cache, seen, mirror, sync, arena, round, pending>>

(***************************************************************************)
(* advance_prompt_pipeline_to (when the cache is not at the rows' position *)
(* as far as it knows) and enqueue_prompt_chunk: reap what is pending,     *)
(* skip the rows that will not be retained, and commit the next command,   *)
(* which will pack, project and rotate from the cache's offset on.         *)
(***************************************************************************)
PromptGap(c, position) ==
    IF c.ctxOffset = position THEN c
    ELSE [c EXCEPT !.ctxOffset = position, !.revision = @ + 1]

GapAfterSink(c, position) ==
    \/ c.ctxOffset = position
    \/ c.ctxOffset < position /\ c.ctxLen = c.ctxOffset /\ c.ctxLen = Min({Sink, c.ctxOffset})

EnqueuePromptChunk ==
    /\ pipe.at = "deliver"
    /\ pipe.retained # <<>>
    /\ Reapable
    /\ LET range == Head(pipe.retained)
           after == PromptGap(Reaped.cache, range[2])
       IN  /\ GapAfterSink(Reaped.cache, range[2])
           /\ cache' = after
           /\ mirror' = Reaped.mirror
           /\ sync' = Stamp(after)
           /\ pending' = [slot |-> pipe.slot, start |-> range[1], rows |-> range[3],
                          cut |-> Stamp(after), ctxOffset |-> after.ctxOffset, ran |-> FALSE]
           /\ pipe' = [pipe EXCEPT !.retained = Tail(@)]
    /\ UNCHANGED <<seen, arena, round, slots>>

NextChunk ==
    /\ pipe.at = "deliver"
    /\ pipe.retained = <<>>
    /\ pipe' = [at |-> "chunk", len |-> pipe.len, tok |-> pipe.tok, from |-> pipe.to,
                index |-> pipe.index + 1]
    /\ UNCHANGED <<cache, seen, mirror, sync, arena, round, slots, pending>>

(***************************************************************************)
(* The GPU runs the pending command: whatever the slot holds now becomes   *)
(* the arena's rows, rotated from the offset the command was encoded with. *)
(***************************************************************************)
GpuRuns ==
    /\ pending # None
    /\ ~pending.ran
    /\ arena' = [i \in 1..pending.rows |->
                    LET row == slots[pending.slot][pending.start + i]
                    IN  <<pending.ctxOffset + i, row[2], row[3]>>]
    /\ pending' = [pending EXCEPT !.ran = TRUE]
    /\ UNCHANGED <<cache, seen, mirror, sync, round, slots, pipe>>

FinishPromptPipeline ==
    /\ pipe.at = "chunk"
    /\ pipe.from = pipe.len
    /\ Reap
    /\ slots' = <<>>
    /\ pipe' = Idle
    /\ UNCHANGED <<seen, arena, round>>

(***************************************************************************)
(* Any step of the pipeline can fail: abort_prompt_pipeline takes and      *)
(* waits out the pending command without committing its rows and drops the *)
(* mirror's stamps.  The request fails; the next one starts from a reset.  *)
(***************************************************************************)
AbortPromptPipeline ==
    /\ pipe.at \in {"chunk", "target", "deliver"}
    /\ pending # None => pending.ran
    /\ pending' = None
    /\ slots' = <<>>
    /\ sync' = None
    /\ pipe' = [at |-> "failed"]
    /\ UNCHANGED <<cache, seen, mirror, arena, round>>

Next ==
    \/ Reset
    \/ \E n \in RoundRows, t \in Tokens :
        \/ \E keep \in BOOLEAN : ForwardRound(n, t, keep)
        \/ PrepareTargetContext(n, t)
    \/ \E n \in Prompts, t \in PromptTokens :
        InstallContextSnapshot(n, t) \/ BeginPromptPipeline(n, t)
    \/ \E n \in RoundRows : ForwardFails(n)
    \/ \E h \in handles, n \in 0..Max(RoundRows), keep \in BOOLEAN :
        FinishPrepared(h, n, keep) \/ FinishRefused(h, n, keep)
    \/ \E h \in handles : DiscardPrepared(h)
    \/ Keep
    \/ RollBack
    \/ \E width \in Widths : TakeChunk(width)
    \/ RunTarget
    \/ EnqueuePromptChunk
    \/ NextChunk
    \/ GpuRuns
    \/ FinishPromptPipeline
    \/ AbortPromptPipeline

Spec == Init /\ [][Next]_vars

-----------------------------------------------------------------------------
(***************************************************************************)
(* Whenever the stamps say that the mirror is current (cache_is_           *)
(* synchronized, which lets forward, prepare and finish skip the copy), it *)
(* holds the cache's rows, in order: through appends that evict, rollbacks *)
(* that do not touch it, failed commands, gaps and replaced caches.        *)
(***************************************************************************)
MirrorExact ==
    Synchronized => \A l \in Layers : SubSeq(cache.planes[l], 1, cache.ctxLen)
                        = [i \in 1..cache.ctxLen |-> mirror[i]]

(***************************************************************************)
(* Outside the prompt pipeline the cache is what retention leaves of the   *)
(* target rows the assistant was told are real, each rotated to its own    *)
(* position: no row of a rejected suffix, of an abandoned preparation, or  *)
(* of a capture slot the target had already overwritten.                   *)
(***************************************************************************)
ContextIsHistory ==
    pipe = Idle => /\ cache.ctxOffset = Len(seen)
                   /\ \A l \in Layers : cache.planes[l] = Retained(seen)
=============================================================================
