----------------------------- MODULE PrefixReuse -----------------------------
(***************************************************************************)
(* The exact-prefix reuse ladder (muser-kvpack): the current session, then *)
(* the resident radix, then the durable store.  A session is what the      *)
(* backend's KV rows, its token history and its retained distribution      *)
(* stand for; a distribution is named by the tokens it was computed after. *)
(* The resident radix is the sequence of its cuts, least recently used     *)
(* first; durable is the set of authenticated cuts.  The server configures *)
(* no remote tier (set_remote has no caller in it).                        *)
(***************************************************************************)
EXTENDS Integers, Sequences, SequencesExt

CONSTANTS ResidentCut,      \* RESIDENT_CUT_TOKENS
          ResidentCap,      \* cuts the byte budget holds
          CutAlign,         \* PREFIX_CUT_ALIGN
          Interval          \* DURABLE_FULL_INTERVAL

NoLogits == <<>>
Empty == [kv |-> <<>>, hist |-> <<>>, logits |-> NoLogits]
Holding(toks, lg) == [kv |-> toks, hist |-> toks, logits |-> lg]

(***************************************************************************)
(* Appending rows computes the distribution after the last of them.        *)
(***************************************************************************)
Extend(s, toks) ==
    [kv |-> s.kv \o toks, hist |-> s.hist \o toks, logits |-> s.kv \o toks]

(***************************************************************************)
(* export_cache_snapshot refuses a session whose rows and history disagree.*)
(***************************************************************************)
ExportableIfAny(s) == s.kv # <<>>
Exportable(s) == s.kv # <<>> /\ Len(s.kv) = Len(s.hist)

Cut(s) == [toks |-> s.hist, kv |-> s.kv, logits |-> s.logits]

(***************************************************************************)
(* insert_with_logits: the cut replaces an equal one, then the least       *)
(* recently used cuts leave until the budget holds.                        *)
(***************************************************************************)
InsertWithLogits(res, s) ==
    LET all == Append(SelectSeq(res, LAMBDA e : e.toks # s.hist), Cut(s))
        over == IF Len(all) > ResidentCap THEN Len(all) - ResidentCap ELSE 0
    IN  SubSeq(all, over + 1, Len(all))

(***************************************************************************)
(* lookup_capped passes the cuts on the path of toks, shallowest first.    *)
(* Only an aligned cut serves a longer query.  Every eligible cut on the   *)
(* path counts as accessed, the deepest is the hit.                        *)
(***************************************************************************)
OnPath(res, toks, max) ==
    LET eligible(e) == /\ IsPrefix(e.toks, toks)
                       /\ Len(e.toks) <= max
                       /\ e.toks = toks \/ Len(e.toks) % ResidentCut = 0
    IN  SortSeq(SelectSeq(res, eligible), LAMBDA a, b : Len(a.toks) < Len(b.toks))

Accessed(res, path) ==
    SelectSeq(res, LAMBDA e : ~Contains(path, e)) \o path

FindDeepest(dur, toks) ==
    LET cuts == {d \in dur : IsPrefix(d.toks, toks)}
    IN  {d \in cuts : \A x \in cuts : Len(x.toks) <= Len(d.toks)}

(***************************************************************************)
(* plan: a tier and a cut, before anything is installed.  With a durable   *)
(* tier (on) its deepest cut caps the resident one; an exact resident cut  *)
(* without its distribution does not serve.                                *)
(***************************************************************************)
Cap(on, dur, toks) ==
    IF on /\ FindDeepest(dur, toks) = {} THEN 0
    ELSE IF on THEN Len((CHOOSE d \in FindDeepest(dur, toks) : TRUE).toks)
    ELSE Len(toks)

Continues(hist, toks) == hist # <<>> /\ IsPrefix(hist, toks)

Plan(res, on, dur, hist, toks) ==
    LET path == OnPath(res, toks, Cap(on, dur, toks))
        usable == path # <<>> /\ (Last(path).toks # toks \/ Last(path).logits # NoLogits)
        hit(source, e) == [source |-> source, cut |-> Len(e.toks), entry |-> e]
    IN  CASE Continues(hist, toks) ->
               [source |-> "session", cut |-> Len(hist), entry |-> Cut(Empty)]
          [] ~Continues(hist, toks) /\ usable -> hit("resident", Last(path))
          [] ~Continues(hist, toks) /\ ~usable /\ FindDeepest(dur, toks) # {} ->
               hit("durable", CHOOSE d \in FindDeepest(dur, toks) : TRUE)
          [] OTHER -> hit("miss", Cut(Empty))

(***************************************************************************)
(* The lookup's accesses, which the current-session tier never makes.      *)
(***************************************************************************)
LookedUp(res, on, dur, hist, toks) ==
    IF Continues(hist, toks) THEN res
    ELSE Accessed(res, OnPath(res, toks, Cap(on, dur, toks)))

(***************************************************************************)
(* install_resident_hit and install_durable_hit.  A resident ancestor      *)
(* brings no distribution; a durable manifest always brings its own.       *)
(***************************************************************************)
Install(s, plan, toks) ==
    LET e == plan.entry
        lg == IF plan.source = "durable" \/ e.toks = toks THEN e.logits ELSE NoLogits
    IN  IF plan.source \in {"resident", "durable"}
        THEN [kv |-> e.kv, hist |-> e.toks, logits |-> lg]
        ELSE s

(***************************************************************************)
(* remote_action: what a hit is worth to a handoff that would otherwise    *)
(* transfer the prompt without its last token.                             *)
(***************************************************************************)
RemoteAction(matched, prompt) ==
    CASE prompt < 2 -> "full"
      [] prompt >= 2 /\ matched >= prompt - 1 -> "local"
      [] prompt >= 2 /\ matched < prompt - 1 /\ matched > 0 /\ matched % CutAlign = 0 -> "delta"
      [] OTHER -> "full"

(***************************************************************************)
(* arm_remote_delta: only a cut fetched from a tier, on the alignment,     *)
(* with more than the boundary token left.                                 *)
(***************************************************************************)
ArmRemoteDelta(source, matched, prompt) ==
    /\ source \in {"resident", "durable"}
    /\ matched > 0 /\ matched % CutAlign = 0
    /\ matched + 1 < prompt
=============================================================================
