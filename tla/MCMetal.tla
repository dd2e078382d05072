------------------------------- MODULE MCMetal -------------------------------
(***************************************************************************)
(* The Metal executor's data, in one run: the KV planes of a session, the  *)
(* forward graphs, and the GPU mirror of the assistant's context.  A       *)
(* behaviour is one of these three; the variables of the others rest.      *)
(*                                                                         *)
(* The graphs are those of a three-layer model: full attention, one        *)
(* sliding-window layer, full attention again.  Every entry point is       *)
(* called, in every build and shape that selects other kernels.            *)
(***************************************************************************)
EXTENDS ForwardGraph

CONSTANT none

VARIABLES which,
          planes, n_past, hist, arena, seen, ckpt, inst, snap, uses, pinned,
          cache, told, mirror, sync, round, active_prepared, handles, issued, rounds,
          checkpoint, slots, pending, pipe

SlidingLayers == {2}

Call0 == [path |-> "batch", n |-> 1, fused |-> TRUE, cross |-> FALSE,
          vec |-> TRUE, wrapped |-> FALSE, shape |-> "short",
          concurrent |-> FALSE, captures |-> {}, debug |-> 0,
          prequant |-> FALSE, full |-> FALSE, ferrite |-> FALSE, selected |-> 0]

Kernels == {[Call0 EXCEPT !.fused = f, !.cross = x, !.vec = v] :
              f \in BOOLEAN, x \in BOOLEAN, v \in BOOLEAN}

Shapes(c) ==
    {[c EXCEPT !.wrapped = w] : w \in BOOLEAN}
        \cup {[c EXCEPT !.n = 2, !.wrapped = w, !.shape = s] :
                 w \in BOOLEAN, s \in {"short", "aligned", "plain"}}
ShortShapes(c) == {b \in Shapes(c) : b.shape = "short"}

Calls ==
    LET blocks == UNION {Shapes(c) : c \in Kernels}
        shorts == UNION {ShortShapes(c) : c \in Kernels}
    IN {[c EXCEPT !.concurrent = o] : c \in blocks, o \in BOOLEAN}
       \cup {[c EXCEPT !.concurrent = TRUE, !.captures = {1, 3}] : c \in blocks}
       \cup {[c EXCEPT !.path = "verify", !.captures = {1, 2}] : c \in shorts}
       \cup {[c EXCEPT !.path = "verify", !.prequant = TRUE] : c \in {s \in shorts : s.n = 2}}
       \cup {[c EXCEPT !.path = "split", !.captures = {1}] : c \in shorts}
       \cup {[c EXCEPT !.path = "capture_fc", !.captures = {1, 2}] : c \in shorts}
       \cup {[c EXCEPT !.path = "batch", !.captures = {2}, !.debug = 2] :
                c \in {s \in shorts : s.n = 2}}
       \cup {[c EXCEPT !.path = p, !.captures = {d}, !.debug = d] :
                c \in shorts, p \in {"debug", "stopped"}, d \in {2, 3}}
       \cup {[c EXCEPT !.path = "tail", !.n = 2, !.debug = 2] : c \in Kernels}
       \cup {[c EXCEPT !.path = "token", !.fused = TRUE, !.concurrent = TRUE,
                       !.full = u, !.ferrite = f] :
                c \in Kernels, u \in BOOLEAN, f \in BOOLEAN}
       \cup {[c EXCEPT !.path = "group", !.n = 2, !.concurrent = TRUE, !.full = u] :
                c \in Kernels, u \in BOOLEAN}
       \cup {[Call0 EXCEPT !.path = p, !.n = n, !.selected = n] :
                p \in {"draft", "draft_split", "draft_prompt"}, n \in 1..2}
       \cup {[Call0 EXCEPT !.path = "draft_split", !.n = 2, !.selected = 1]}


Planes == INSTANCE KvPlanes WITH
            Window <- 2, MaxContext <- 4, MaxBlock <- 2, Pad <- 2, Tokens <- {1, 2},
            RemoteTokens <- {2}, Builds <- {FALSE}
Mirror == INSTANCE DFlashMirror WITH
            Tokens <- {1, 2}, None <- none, NLayers <- 1, Sink <- 1, Win <- 2,
            PromptTokens <- {1}, RoundRows <- {1, 2}, Prompts <- {2, 5}, MaxPos <- 5, MaxIds <- 2, MaxRounds <- 2,
            Widths <- {1, 2}, seen <- told, arena <- round,
            prepared <- active_prepared

planeVars == <<planes, n_past, hist, arena, seen, ckpt, inst, snap, uses, pinned>>
mirrorVars == <<cache, told, mirror, sync, round, active_prepared, handles, issued, rounds,
                checkpoint, slots, pending, pipe>>

MetalInit ==
    /\ which \in {"planes", "graph", "mirror"}
    /\ Planes!Init /\ (which # "planes" => uses = "install")
    /\ Init /\ (which # "graph" => conf = Call0)
    /\ Mirror!Init

MetalNext ==
    /\ UNCHANGED which
    /\ \/ which = "planes" /\ Planes!Next /\ UNCHANGED <<vars, mirrorVars>>
       \/ which = "graph" /\ Next /\ UNCHANGED <<planeVars, mirrorVars>>
       \/ which = "mirror" /\ Mirror!Next /\ UNCHANGED <<vars, planeVars>>

MetalSpec == MetalInit /\ [][MetalNext]_<<which, vars, planeVars, mirrorVars>>

-----------------------------------------------------------------------------
(* Session planes: each plane holds the rows of the session's last         *)
(* positions, each in the slot its position names, and a query attends to  *)
(* the window of its position (encode_batch_hidden_range).                 *)
PlanesHold ==
    which = "planes" =>
        Planes!RingExact /\ Planes!SequentialRotation /\ Planes!RowAttendsWindow

(* decode.rs against reference.rs: what a call returns, what it leaves in  *)
(* the planes and what it captures are the reference's tensors, and the    *)
(* assistant's graphs compute the CPU assistant.                           *)
ForwardExact ==
    which = "graph" => LogitsExact /\ PlanesExact /\ CapturesExact /\ DraftExact

(* DFlashMetal: a synchronized mirror is the cache it was copied from, and *)
(* the cache is the tail of the accepted history.                          *)
MirrorFollows == which = "mirror" => Mirror!MirrorExact /\ Mirror!ContextIsHistory
=============================================================================
