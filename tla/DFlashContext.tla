--------------------------- MODULE DFlashContext ---------------------------
(***************************************************************************)
(* The assistant's context cache (dflash/cache.rs): for every assistant    *)
(* layer, the K/V rows of the target positions it has consumed, of which   *)
(* only the first Sink (the sink) and the last Win (the window) survive.   *)
(* A row is the pair <<position, token>> of the target row it was computed *)
(* from; the key and the value plane hold the same rows and are one here.  *)
(* A cache is a value: these operators are what the methods compute.       *)
(***************************************************************************)
EXTENDS Integers, Sequences

CONSTANTS
    NLayers,    \* assistant layers, appended to one after the other
    Sink,       \* rows at the start of the sequence that are never evicted
    Win         \* newest rows that are kept

Layers == 1..NLayers
Capacity == Sink + Win

(***************************************************************************)
(* An empty cache of incarnation id: revisions 0, nothing consumed.        *)
(***************************************************************************)
NewCache(id) ==
    [identity |-> id, planes |-> [l \in Layers |-> <<>>], ctxLen |-> 0,
     ctxOffset |-> 0, revision |-> 0, layerRev |-> [l \in Layers |-> 0]]

(***************************************************************************)
(* append_layer's two paths: a batch longer than the cache keeps the old   *)
(* sink, completes it from the batch and takes the batch's last rows; any  *)
(* other batch is appended and the rows after the sink are drained.        *)
(***************************************************************************)
AppendRows(current, fresh) ==
    IF Len(fresh) > Capacity
    THEN LET old == IF Len(current) < Sink THEN Len(current) ELSE Sink
         IN  SubSeq(current, 1, old) \o SubSeq(fresh, 1, Sink - old)
                \o SubSeq(fresh, Len(fresh) - Win + 1, Len(fresh))
    ELSE LET all == current \o fresh
             drop == Len(all) - Capacity
         IN  IF drop > 0
             THEN SubSeq(all, 1, Sink) \o SubSeq(all, Sink + drop + 1, Len(all))
             ELSE all

(***************************************************************************)
(* A forward pass that reached the first n layers and then failed.  The    *)
(* scalars move only in advance_round, after the last layer.               *)
(***************************************************************************)
PartialForward(c, rows, n) ==
    [c EXCEPT !.planes = [l \in Layers |-> IF l <= n THEN AppendRows(@[l], rows)
                                                     ELSE @[l]],
              !.layerRev = [l \in Layers |-> IF l <= n THEN @[l] + 1 ELSE @[l]]]

(***************************************************************************)
(* A whole pass: every layer, then advance_round.                          *)
(***************************************************************************)
Forward(c, rows) ==
    LET appended == PartialForward(c, rows, NLayers)
    IN  [appended EXCEPT !.ctxOffset = @ + Len(rows),
                         !.ctxLen = Len(appended.planes[1]),
                         !.revision = @ + 1]

(***************************************************************************)
(* What a pass that fails can leave: some of the layers appended, or all   *)
(* of it done when only the projection of its output failed.               *)
(***************************************************************************)
FailedForward(c, rows) ==
    {PartialForward(c, rows, n) : n \in 0..NLayers - 1} \cup {Forward(c, rows)}

(***************************************************************************)
(* checkpoint_append: the scalars, the revisions and the rows an append of *)
(* n rows will evict.                                                      *)
(***************************************************************************)
CheckpointAppend(c, n) ==
    LET evicted == IF c.ctxLen + n > Capacity THEN c.ctxLen + n - Capacity ELSE 0
    IN  [before |-> [c EXCEPT !.planes = <<>>], tokens |-> n, removedRows |-> evicted,
         removed |-> [l \in Layers |-> SubSeq(c.planes[l], Sink + 1, Sink + evicted)]]

(***************************************************************************)
(* validate_rollback_target: the cache is the checkpoint's, untouched or   *)
(* with that one append begun in some layers, or ended in all of them.     *)
(***************************************************************************)
RollbackTarget(c, cp) ==
    LET was == cp.before
        after == IF was.ctxLen + cp.tokens > Capacity THEN Capacity
                                                      ELSE was.ctxLen + cp.tokens
        isBefore == /\ c.revision = was.revision
                    /\ c.ctxLen = was.ctxLen
                    /\ c.ctxOffset = was.ctxOffset
        isAfter == /\ c.revision = was.revision + 1
                   /\ c.ctxLen = after
                   /\ c.ctxOffset = was.ctxOffset + cp.tokens
        touched == {l \in Layers : c.layerRev[l] # was.layerRev[l]}
    IN  /\ c.identity = was.identity
        /\ cp.tokens \in 1..Win
        /\ isBefore \/ isAfter
        /\ \A l \in Layers \ touched : Len(c.planes[l]) = was.ctxLen
        /\ \A l \in touched : /\ c.layerRev[l] = was.layerRev[l] + 1
                              /\ Len(c.planes[l]) = after
        /\ isAfter => touched = Layers

(***************************************************************************)
(* rollback_append of a valid target: each touched layer loses the         *)
(* appended rows and gets the evicted ones back behind the sink.           *)
(***************************************************************************)
RollbackAppend(c, cp) ==
    LET kept(rows) == SubSeq(rows, 1, Len(rows) - cp.tokens)
        undo(rows, evicted) ==
            IF evicted = <<>> THEN rows
            ELSE SubSeq(rows, 1, Sink) \o evicted \o SubSeq(rows, Sink + 1, Len(rows))
        plane(l) == IF c.layerRev[l] = cp.before.layerRev[l]
                    THEN c.planes[l]
                    ELSE undo(kept(c.planes[l]), cp.removed[l])
    IN  [cp.before EXCEPT !.planes = [l \in Layers |-> plane(l)]]

(***************************************************************************)
(* What retention should leave of a sequence of consumed rows: the first   *)
(* Sink of them and, behind those, the newest Win.                         *)
(***************************************************************************)
Retained(rows) ==
    SelectSeq(rows, LAMBDA r : r[1] <= Sink \/ r[1] > Len(rows) - Win)
=============================================================================
