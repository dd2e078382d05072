------------------------------ MODULE KvPlanes ------------------------------
(***************************************************************************)
(* The key/value planes of one Metal session (muser-engine/src/decode.rs   *)
(* and the ring arithmetic of api.rs).                                     *)
(*                                                                         *)
(* A session keeps one plane per layer: a sliding-window layer keeps a     *)
(* ring of Window rows, a full-attention (NoPE) layer one row per          *)
(* position.  A plane is described by the logical position of its oldest   *)
(* row (ol), the physical slot that row lives in (op) and its length.  The *)
(* module follows those three numbers and the rows through everything that *)
(* moves them: batched forwards, speculative blocks that are rolled back,  *)
(* the pipelined greedy block that can be cancelled or fail half way,      *)
(* reset, snapshot and restore, and the detached remote install with its   *)
(* delta prefix.                                                           *)
(*                                                                         *)
(* A row is the pair of its position and its token: what a K/V row holds   *)
(* is a function of the history, and the pair is enough to tell a row from *)
(* one that is stale or in the wrong slot.  hist is the history the caller *)
(* believes the session holds.                                             *)
(***************************************************************************)
EXTENDS Naturals, Sequences, FiniteSets, TLC

CONSTANTS
    Window,      \* rows of a sliding-window ring, at most MaxContext
    MaxContext,  \* rows of a NoPE plane; positions a session may reach
    MaxBlock,    \* the longest batch, block and tile (512, 16 and a chunk),
                 \* at most Window
    Pad,         \* llama.cpp's KV padding, 256 in the code; divides MaxContext
    Tokens,      \* token values
    RemoteTokens, \* those of a prompt that is installed (a session that installs
                 \* has computed the others itself: a bound on the model)
    Builds       \* may the build carry the pinned llama decode kernel?

VARIABLES
    planes,  \* layer kind -> the live plane
    n_past,  \* positions the session says it has decoded
    hist,    \* the caller's history: a row per position
    arena,   \* the single-row staging arena and its attention mask
    seen,    \* what the queries of the last forward attended to
    ckpt,    \* a speculative checkpoint in flight
    inst,    \* a detached remote install
    snap,    \* a retained snapshot
    uses,    \* which of the three this session uses (a bound on the model)
    pinned   \* whether this build carries the pinned single-row kernel

vars == <<planes, n_past, hist, arena, seen, ckpt, inst, snap, uses, pinned>>

Layers == {"swa", "nope"}
Cap == [swa |-> Window, nope |-> MaxContext]
None == <<>>
Zero == <<>>

\* One token value per call: enough to tell every two calls' rows apart.
Blocks == {[i \in 1..n |-> t] : n \in 1..MaxBlock,
              t \in IF uses = "install" THEN Tokens \ RemoteTokens ELSE Tokens}

\* The rows a block of tokens produces from position start on.
RowsOf(start, toks) == [i \in DOMAIN toks |-> <<start + i - 1, toks[i]>>]

-----------------------------------------------------------------------------
(* The ring arithmetic.                                                    *)

\* MetalKvPlane::new: zero-filled storage, empty ring.
NewPlane(l) == [ol |-> 0, op |-> 0, len |-> 0,
                key |-> [s \in 0..Cap[l] - 1 |-> Zero],
                val |-> [s \in 0..Cap[l] - 1 |-> Zero]]

\* MetalKvPlane::reset keeps the storage and forgets the ring.
ResetPlane(pl) == [pl EXCEPT !.ol = 0, !.op = 0, !.len = 0]

End(pl) == pl.ol + pl.len
Slot(l, pl, p) == (pl.op + p - pl.ol) % Cap[l]

Monus(a, b) == IF a > b THEN a - b ELSE 0

\* append_batch: only the metadata moves; append is the same for one row.
AppendBatch(l, pl, n) ==
    LET total == pl.len + n
        over == Monus(total, Cap[l])
    IN [pl EXCEPT !.len = total - over, !.ol = @ + over,
                  !.op = (@ + over) % Cap[l]]

\* encode_kv_store_batch_f16 stores the rows append_batch says survive.
StoreBatch(l, pl, start, rows) ==
    LET first == Monus(pl.ol, start)
        Put(buf) == [s \in DOMAIN buf |->
            LET hit == {i \in first + 1..Len(rows) :
                            Slot(l, pl, start + i - 1) = s}
            IN IF hit = {} THEN buf[s] ELSE rows[CHOOSE i \in hit : TRUE]]
    IN [pl EXCEPT !.key = Put(@), !.val = Put(@)]

\* The physical slot of each row a staged batch writes into the live ring.
StageSlot(l, pl, i) == (pl.op + pl.len + i - 1) % Cap[l]

\* encode_stage_swa_*: the staging kernel also writes the new rows in place.
StageWrite(l, pl, rows) ==
    LET Put(buf) == [s \in DOMAIN buf |->
            LET hit == {i \in DOMAIN rows : StageSlot(l, pl, i) = s}
            IN IF hit = {} THEN buf[s] ELSE rows[CHOOSE i \in hit : TRUE]]
    IN [pl EXCEPT !.key = Put(@), !.val = Put(@)]

\* The shadow the staged attention reads: old rows in logical order, then the
\* new ones.  The kernel's threads copy old row r out of its slot and store a
\* new row into the same slot without any ordering, so each shared slot may
\* have been overwritten first: late is the set of slots where it was.
Shadow(l, pl, rows, late) ==
    LET after == StageWrite(l, pl, rows)
    IN [r \in 1..pl.len |->
           LET s == Slot(l, pl, pl.ol + r - 1)
           IN IF s \in late THEN after.key[s] ELSE pl.key[s]] \o rows

RacedSlots(l, pl, rows) ==
    {Slot(l, pl, pl.ol + r) : r \in 0..pl.len - 1}
        \cap {StageSlot(l, pl, i) : i \in DOMAIN rows}

-----------------------------------------------------------------------------
(* One batch through the sliding-window layer.  Each route yields the      *)
(* plane, the arena and what query i saw.                                  *)

Result(pl, ar, saw) == [plane |-> pl, arena |-> ar, seen |-> saw]

\* The positions query i of a batch at start may attend to.
WindowOf(start, i) ==
    {p \in 0..start + i - 1 : p + Window > start + i - 1}

Contiguous(l, pl, n) == pl.ol = 0 /\ pl.op = 0 /\ pl.len + n <= Cap[l]

\* flash_contiguous: append, store, attend over physical = logical rows.
ContiguousRoute(pl, ar, start, rows) ==
    LET stored == StoreBatch("swa", AppendBatch("swa", pl, Len(rows)),
                             start, rows)
    IN Result(stored, ar,
              [i \in DOMAIN rows |->
                  {stored.key[p] : p \in WindowOf(start, i)}])

\* A wrapped ring: stage, attend over the shadow (base = the old origin),
\* then move the metadata.
StagedRoute(pl, ar, start, rows, late) ==
    LET shadow == Shadow("swa", pl, rows, late)
    IN Result(AppendBatch("swa", StageWrite("swa", pl, rows), Len(rows)), ar,
              [i \in DOMAIN rows |->
                  {shadow[p - pl.ol + 1] : p \in WindowOf(start, i)}])

\* llama_exact_single_row: stage at absolute positions of the retained arena
\* and attend to every unmasked cell below the padded length.  Only the cells
\* of the rows being staged get a mask value.
LlamaRowRoute(pl, ar, start, rows) ==
    LET staged == [c \in DOMAIN ar.rows |->
            CASE c = start -> rows[1]
              [] c \in pl.ol..End(pl) - 1 -> pl.key[Slot("swa", pl, c)]
              [] OTHER -> ar.rows[c]]
        touched == pl.ol..End(pl) - 1 \cup {start}
        open == (ar.open \ touched) \cup {c \in touched : c + Window >= start + 1}
        visible == ((start + Pad) \div Pad) * Pad
    IN Result(AppendBatch("swa", StageWrite("swa", pl, rows), 1),
              [rows |-> staged, open |-> open],
              <<{staged[c] : c \in open \cap 0..visible - 1}>>)

\* The ring is shorter than the window when the context is: no pinned route.
LlamaRow(n) == n = 1 /\ pinned

\* The outcomes of one batch at a sliding-window layer.
SwaOutcomes(pl, ar, start, rows) ==
    IF Contiguous("swa", pl, Len(rows))
    THEN {ContiguousRoute(pl, ar, start, rows)}
    ELSE IF LlamaRow(Len(rows))
    THEN {LlamaRowRoute(pl, ar, start, rows)}
    ELSE {StagedRoute(pl, ar, start, rows, late) :
             late \in SUBSET RacedSlots("swa", pl, rows)}

NopeStep(pl, start, rows) ==
    StoreBatch("nope", AppendBatch("nope", pl, Len(rows)), start, rows)

\* encode_batch_hidden: both layers append at n_past or the call fails with
\* CacheDiscontinuity before the first row is stored.
Continuous == \A l \in Layers : End(planes[l]) = n_past

\* A sequence of one-row commands, as the greedy pipeline encodes them.
RECURSIVE RowByRow(_, _, _, _, _)
RowByRow(pl, ar, start, rows, saw) ==
    IF rows = <<>> THEN {Result(pl, ar, saw)}
    ELSE UNION {RowByRow(o.plane, o.arena, start + 1, Tail(rows),
                         saw \o o.seen) :
                    o \in SwaOutcomes(pl, ar, start, <<Head(rows)>>)}

-----------------------------------------------------------------------------
\* A checkpoint lives inside one call; an install is driven by the request
\* that holds the session.
Idle == ckpt = None /\ inst = None

Init ==
    /\ planes = [l \in Layers |-> NewPlane(l)]
    /\ n_past = 0 /\ hist = <<>>
    /\ arena = [rows |-> [c \in 0..MaxContext - 1 |-> Zero], open |-> {}]
    /\ seen = None /\ ckpt = None /\ inst = None /\ snap = None
    /\ uses \in {"speculation", "snapshot", "install"}
    /\ pinned \in Builds

Reset ==
    /\ Idle
    /\ planes' = [l \in Layers |-> ResetPlane(planes[l])]
    /\ n_past' = 0 /\ hist' = <<>> /\ seen' = None
    /\ UNCHANGED <<arena, ckpt, inst, snap, uses, pinned>>

\* What a batch leaves in the planes; seen records the queries' rows together
\* with where the batch started and which route it took.
Advance(o, start, rows) ==
    /\ planes' = [swa |-> o.plane, nope |-> NopeStep(planes.nope, start, rows)]
    /\ arena' = o.arena

Route(pl, n) ==
    IF Contiguous("swa", pl, n) THEN "contiguous"
    ELSE IF LlamaRow(n) THEN "llama row"
    ELSE IF n = 1 THEN "row" ELSE "block"

\* forward_batch: one chunk of a prompt, or one decoded token.
ForwardBatch(toks) ==
    LET rows == RowsOf(n_past, toks) IN
    /\ Idle /\ Continuous /\ n_past + Len(toks) <= MaxContext
    /\ \E o \in SwaOutcomes(planes.swa, arena, n_past, rows) :
          /\ Advance(o, n_past, rows)
          /\ seen' = [at |-> n_past, rows |-> o.seen,
                      route |-> Route(planes.swa, Len(rows))]
    /\ n_past' = n_past + Len(toks)
    /\ hist' = hist \o rows
    /\ UNCHANGED <<ckpt, inst, snap, uses, pinned>>

\* The command buffer fails: the encoder has moved the planes, the GPU may
\* have stored the rows, n_past has not moved.  Used by a lone forward.
ForwardFails(toks) ==
    LET rows == RowsOf(n_past, toks) IN
    /\ Idle /\ Continuous /\ n_past + Len(toks) <= MaxContext
    /\ \E o \in SwaOutcomes(planes.swa, arena, n_past, rows) :
          \/ Advance(o, n_past, rows)
          \/ /\ planes' = [l \in Layers |->
                              AppendBatch(l, planes[l], Len(rows))]
             /\ arena' = arena
    /\ seen' = None
    /\ UNCHANGED <<n_past, hist, ckpt, inst, snap, uses, pinned>>

-----------------------------------------------------------------------------
(* Speculative blocks.                                                     *)

\* MetalKvPlane::speculative_checkpoint: a NoPE plane keeps its metadata, a
\* ring also the rows the block can overwrite.
PlaneCheckpoint(l, pl, n) ==
    [ol |-> pl.ol, op |-> pl.op, len |-> pl.len,
     slots |-> IF l = "swa"
               THEN [i \in 1..n |-> StageSlot(l, pl, i)] ELSE <<>>,
     key |-> IF l = "swa"
             THEN [i \in 1..n |-> pl.key[StageSlot(l, pl, i)]] ELSE <<>>,
     val |-> IF l = "swa"
             THEN [i \in 1..n |-> pl.val[StageSlot(l, pl, i)]] ELSE <<>>]

\* Mutant: the first rejected destination is taken for an accepted one.
RestoreSpeculativeShort(l, pl, saved, n, accepted) ==
    LET Undo(buf, old) == [s \in DOMAIN buf |->
            LET hit == {i \in accepted + 2..n :
                            l = "swa" /\ saved.slots[i] = s}
            IN IF hit = {} THEN buf[s] ELSE old[CHOOSE i \in hit : TRUE]]
        back == [pl EXCEPT !.key = Undo(@, saved.key),
                           !.val = Undo(@, saved.val),
                           !.ol = saved.ol, !.op = saved.op, !.len = saved.len]
    IN IF accepted = 0 THEN back ELSE AppendBatch(l, back, accepted)

\* MetalKvPlane::restore_speculative: put back every rejected destination,
\* rewind, and append the accepted prefix again.
RestoreSpeculative(l, pl, saved, n, accepted) ==
    LET Undo(buf, old) == [s \in DOMAIN buf |->
            LET hit == {i \in accepted + 1..n :
                            l = "swa" /\ saved.slots[i] = s}
            IN IF hit = {} THEN buf[s] ELSE old[CHOOSE i \in hit : TRUE]]
        back == [pl EXCEPT !.key = Undo(@, saved.key),
                           !.val = Undo(@, saved.val),
                           !.ol = saved.ol, !.op = saved.op, !.len = saved.len]
    IN IF accepted = 0 THEN back ELSE AppendBatch(l, back, accepted)

Checkpoint(n) ==
    [start |-> n_past, n |-> n,
     planes |-> [l \in Layers |-> PlaneCheckpoint(l, planes[l], n)]]

\* The verifier's batch: checkpoint, then all rows of the block in one graph.
\* ok = FALSE is a failed command buffer, as in ForwardFails.
Verify(toks, ok) ==
    LET rows == RowsOf(n_past, toks) IN
    /\ uses = "speculation" /\ Idle /\ Continuous
    /\ n_past + Len(toks) <= MaxContext
    /\ ckpt' = Checkpoint(Len(toks)) @@ [rows |-> rows]
    /\ \E o \in SwaOutcomes(planes.swa, arena, n_past, rows) :
          /\ \/ Advance(o, n_past, rows)
             \/ /\ ~ok
                /\ planes' = [l \in Layers |->
                                 AppendBatch(l, planes[l], Len(rows))]
                /\ arena' = arena
          /\ seen' = IF ok THEN [at |-> n_past, rows |-> o.seen,
                                 route |-> Route(planes.swa, Len(rows))]
                     ELSE None
    /\ n_past' = IF ok THEN n_past + Len(toks) ELSE n_past
    /\ UNCHANGED <<hist, inst, snap, uses, pinned>>

\* commit_speculative_prefix: accepted is at most what was produced; a failed
\* verification produced nothing and is rolled back with accepted = 0.
CommitSpeculativePrefix(accepted) ==
    /\ ckpt # None
    /\ accepted <= n_past - ckpt.start
    /\ planes' = [l \in Layers |->
                     RestoreSpeculative(l, planes[l], ckpt.planes[l],
                                        ckpt.n, accepted)]
    /\ n_past' = ckpt.start + accepted
    /\ hist' = hist \o SubSeq(ckpt.rows, 1, accepted)
    /\ ckpt' = None
    /\ seen' = None
    /\ UNCHANGED <<arena, inst, snap, uses, pinned>>

\* forward_greedy_streaming.  Every command is encoded before the first wait,
\* so the planes are a whole block ahead when the callback stops the stream
\* after kept tokens (the rest is rolled back) or a command fails.
Streamed(toks, o) ==
    [swa |-> o.plane,
     nope |-> NopeStep(planes.nope, n_past, RowsOf(n_past, toks))]

GreedyStream(toks, kept) ==
    LET rows == RowsOf(n_past, toks)
        saved == Checkpoint(Len(toks))
    IN
    /\ uses = "speculation" /\ Idle /\ Continuous
    /\ n_past + Len(toks) <= MaxContext
    /\ kept \in 1..Len(toks)
    /\ \E o \in RowByRow(planes.swa, arena, n_past, rows, <<>>) :
          LET full == Streamed(toks, o) IN
          /\ planes' = IF kept = Len(toks) THEN full
                       ELSE [l \in Layers |->
                                RestoreSpeculative(l, full[l], saved.planes[l],
                                                   Len(toks), kept)]
          /\ arena' = o.arena
    /\ n_past' = n_past + kept
    /\ hist' = hist \o SubSeq(rows, 1, kept)
    /\ seen' = None
    /\ UNCHANGED <<ckpt, inst, snap, uses, pinned>>

\* A failed wait or a non-finite argmax returns with the planes ahead.
GreedyStreamFails(toks) ==
    /\ uses = "speculation" /\ Idle /\ Continuous
    /\ n_past + Len(toks) <= MaxContext
    /\ \E o \in RowByRow(planes.swa, arena, n_past, RowsOf(n_past, toks), <<>>) :
          planes' = Streamed(toks, o) /\ arena' = o.arena
    /\ seen' = None
    /\ UNCHANGED <<n_past, hist, ckpt, inst, snap, uses, pinned>>

-----------------------------------------------------------------------------
(* Snapshot and restore.                                                   *)

\* MetalKvPlane::snapshot: the rows in logical order.
PlaneSnapshot(l, pl) ==
    [ol |-> pl.ol, len |-> pl.len,
     key |-> [i \in 1..pl.len |-> pl.key[(pl.op + i - 1) % Cap[l]]],
     val |-> [i \in 1..pl.len |-> pl.val[(pl.op + i - 1) % Cap[l]]]]

\* detached_from: install at the rotation a live ring has at this origin.
DetachedFrom(l, s) ==
    LET rotation == s.ol % Cap[l]
        Put(logical) == [slot \in 0..Cap[l] - 1 |->
            LET i == (slot + Cap[l] - rotation) % Cap[l]
            IN IF i < s.len THEN logical[i + 1] ELSE Zero]
    IN [ol |-> s.ol, op |-> rotation, len |-> s.len,
        key |-> Put(s.key), val |-> Put(s.val)]

Retained(l, n) == IF l = "swa" /\ n > Cap[l] THEN Cap[l] ELSE n

TakeSnapshot ==
    /\ uses = "snapshot"
    /\ snap' = [n |-> n_past, hist |-> hist,
                planes |-> [l \in Layers |-> PlaneSnapshot(l, planes[l])]]
    /\ seen' = None
    /\ UNCHANGED <<planes, n_past, hist, arena, ckpt, inst, uses, pinned>>

\* restore refuses a plane whose length or origin is not the one n implies.
Restore ==
    /\ snap # None
    /\ \A l \in Layers : /\ snap.planes[l].len = Retained(l, snap.n)
                         /\ snap.planes[l].ol = snap.n - Retained(l, snap.n)
    /\ planes' = [l \in Layers |-> DetachedFrom(l, snap.planes[l])]
    /\ n_past' = snap.n /\ hist' = snap.hist /\ seen' = None
    /\ UNCHANGED <<arena, ckpt, inst, snap, uses, pinned>>

-----------------------------------------------------------------------------
(* The detached remote install.                                            *)

\* delta_prefix_span: copy [origin, cut) when the window reaches below the
\* cut; the live ring must still hold it.
SpanHeld(origin, cut, live) ==
    cut <= End(live) /\ (cut > origin => live.ol <= origin)

\* uninitialized storage, the rotation of a sequential ring, cursors at the
\* first row that has to arrive; copy_ring_prefix_rows fills what is held.
BeginPlane(l, position, cut) ==
    LET origin == position - Retained(l, position)
        live == planes[l]
        dest == [ol |-> origin, op |-> origin % Cap[l],
                 len |-> Retained(l, position)]
        Copy(buf) == [s \in 0..Cap[l] - 1 |->
            LET held == {p \in origin..cut - 1 : Slot(l, dest, p) = s}
            IN IF held = {} THEN Zero
               ELSE buf[Slot(l, live, CHOOSE p \in held : TRUE)]]
    IN dest @@ [key |-> Copy(live.key), val |-> Copy(live.val)]

\* begin_remote_kv_install(_delta) of a prompt of the given length; cut = 0 is
\* the plain install.  The caller names a cut its own history agrees with.
BeginInstall(position, tok, cut) ==
    LET rows == [i \in 1..position |->
                    IF i <= cut THEN hist[i] ELSE <<i - 1, tok>>]
        Origin(l) == position - Retained(l, position)
        resume == [l \in Layers |-> IF cut > Origin(l) THEN cut ELSE Origin(l)]
    IN
    /\ uses = "install" /\ Idle
    /\ cut < position /\ cut <= n_past
    /\ \A l \in Layers : cut # 0 => SpanHeld(Origin(l), cut, planes[l])
    /\ \A l \in Layers : cut > Origin(l) =>
                            planes[l].op = planes[l].ol % Cap[l]
    /\ inst' = [rows |-> rows,
                planes |-> [l \in Layers |-> BeginPlane(l, position, cut)],
                key |-> resume, val |-> resume]
    /\ seen' = None
    /\ UNCHANGED <<planes, n_past, hist, arena, ckpt, snap, uses, pinned>>

\* write_f16_tile: the tile must start at its cursor and fit the ring; the
\* plane is written through its own origin, splitting at the wrap.
WriteTile(l, part, n) ==
    LET pl == inst.planes[l]
        start == inst[part][l]
        Put(buf) == [s \in DOMAIN buf |->
            LET hit == {i \in 0..n - 1 : Slot(l, pl, start + i) = s}
            IN IF hit = {} THEN buf[s]
               ELSE inst.rows[start + 1 + CHOOSE i \in hit : TRUE]]
    IN
    /\ inst # None
    /\ n <= Cap[l] /\ start + n <= Len(inst.rows)
    /\ inst' = [inst EXCEPT !.planes[l][part] = Put(@), ![part][l] = @ + n]
    /\ UNCHANGED <<planes, n_past, hist, arena, seen, ckpt, snap, uses, pinned>>

ValidateComplete ==
    \A l \in Layers : /\ inst.key[l] = End(inst.planes[l])
                      /\ inst.val[l] = End(inst.planes[l])

CommitInstall ==
    /\ inst # None /\ ValidateComplete
    /\ planes' = inst.planes
    /\ n_past' = Len(inst.rows) /\ hist' = inst.rows
    /\ inst' = None /\ seen' = None
    /\ UNCHANGED <<arena, ckpt, snap, uses, pinned>>

DropInstall ==
    /\ inst # None /\ inst' = None
    /\ UNCHANGED <<planes, n_past, hist, arena, seen, ckpt, snap, uses, pinned>>

-----------------------------------------------------------------------------
Next ==
    \/ Reset \/ TakeSnapshot \/ Restore
    \/ \E t \in Blocks : ForwardBatch(t) \/ ForwardFails(t)
                         \/ GreedyStreamFails(t)
    \/ \E t \in Blocks, ok \in BOOLEAN : Verify(t, ok)
    \/ \E t \in Blocks, k \in 1..MaxBlock : GreedyStream(t, k)
    \/ \E a \in 0..MaxBlock : CommitSpeculativePrefix(a)
    \/ \E m \in 1..MaxContext, t \in RemoteTokens, c \in 0..MaxContext :
          BeginInstall(m, t, c)
    \/ \E l \in Layers, part \in {"key", "val"}, n \in 1..MaxBlock :
          WriteTile(l, part, n)
    \/ CommitInstall \/ DropInstall

Spec == Init /\ [][Next]_vars

-----------------------------------------------------------------------------
(* Properties.                                                             *)

\* Rows of a ring that should hold the newest rows of history h.
HoldsTail(l, pl, h) ==
    \A p \in pl.ol..End(pl) - 1 :
        pl.key[Slot(l, pl, p)] = h[p + 1] /\ pl.val[Slot(l, pl, p)] = h[p + 1]

\* Whenever the planes agree with the session's position, each holds exactly
\* the rows of the caller's history that its layer may still need, whatever
\* sequence of batches, rollbacks, cancelled or failed pipelines, restores and
\* delta installs led there (MetalKvPlane and everything that writes one).
RingExact ==
    (Idle /\ Continuous) =>
        \A l \in Layers :
            /\ planes[l].len = Retained(l, n_past)
            /\ HoldsTail(l, planes[l], hist)

\* The physical slot of the oldest row is its position modulo the capacity:
\* the invariant copy_ring_prefix_rows checks and detached_from relies on to
\* replay attention in the same physical order (api.rs, RingOrigin).
SequentialRotation ==
    \A l \in Layers : planes[l].op = planes[l].ol % Cap[l]

\* The rows query i of a batch that started at position at must see.
MustSee(at, i, h) == {h[p + 1] : p \in WindowOf(at, i)}

History == IF ckpt = None THEN hist ELSE hist \o ckpt.rows

\* A query on a contiguous plane, or a single row staged from a wrapped ring,
\* attends to exactly the window of its position: no row of an earlier
\* history, no overwritten row, none missing (encode_batch_hidden_range).
RowAttendsWindow ==
    (seen # None /\ seen.route \in {"contiguous", "row"}) =>
        \A i \in DOMAIN seen.rows :
            seen.rows[i] = MustSee(seen.at, i, History)

=============================================================================
