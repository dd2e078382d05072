--------------------------- MODULE CarriedFrontier ---------------------------
(***************************************************************************)
(* What a verifier session promises, with no journal, no files and no      *)
(* crash in sight: one writer extends one transcript, link by link, until  *)
(* a link closes it; the renderer shows every link once, in order, and     *)
(* nothing is decided on top of a link that is not shown yet.              *)
(***************************************************************************)
EXTENDS Naturals, Sequences

CONSTANT Links    \* what one round adds: [id, intent, n, out, frags]

VARIABLES decided,  \* links that are linearized, in order
          shown     \* links the renderer has made visible, in order

absVars == <<decided, shown>>

IsClosed(head) == head # <<>> /\ head[Len(head)].out # "open"

AbsInit == decided = <<>> /\ shown = <<>>

Decide ==
    /\ Len(decided') = Len(decided) + 1
    /\ shown = decided
    /\ ~IsClosed(decided)
    /\ \E link \in Links : decided' = Append(decided, link)
    /\ shown' = shown

Show ==
    /\ shown # decided
    /\ shown' = decided
    /\ decided' = decided

AbsNext == Decide \/ Show

AbsSpec == AbsInit /\ [][AbsNext]_absVars
=============================================================================
