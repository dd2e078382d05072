----------------------------- MODULE Generation ------------------------------
(***************************************************************************)
(* generate_events (muser-server/src/openai.rs): one request after another *)
(* on one serving slot, from the restored, rebuilt, reused, handed-off or  *)
(* locally prefilled prompt through the speculative routes and the plain   *)
(* decode loop to the committed revision.  Every engine, store, network    *)
(* and client failure the function handles is a disjunct.  What a          *)
(* speculative route does inside is SpeculativeDecode, the handoff is      *)
(* HandoffReceive, the slot lease SlotPool, the revision store             *)
(* SessionStore; here they are the outcomes this function sees.  Token     *)
(* prompts only: an image prompt takes the last branch of every choice.    *)
(***************************************************************************)
EXTENDS PrefixReuse

CONSTANTS Prompts,          \* stateless prompts and first turns
          Turns,            \* what a continuing prompt adds to the bundle
          Shapes,           \* what a request asks for
          Configs,          \* what the server was started with
          Visible, Eos,     \* a generated token, and the one that ends
          MaxPrompt, MaxRequests

VARIABLES conf,             \* the InferenceRuntime's routes and tiers
          session,          \* the slot's session
          resident, durable,
          bundle,           \* tokens of the logical session's last revision
          req, pc,
          restored,         \* restored_positions, or None
          logits,           \* the prompt's final distribution
          rng,              \* where the sampler stands
          exhausted,        \* dflash_route_exhausted
          out,              \* tokens the client was given
          healthy,          \* the slot pool is not latched
          served, outcome,
          frontier,         \* rows the last successful request left (history)
          torn              \* rows a verifier could not take back (history)

Asked == <<conf, bundle, healthy, served, req, outcome, frontier>>
Tiers == <<resident, durable>>
Progress == <<restored, logits, rng, exhausted, out, torn>>
vars == <<Asked, Tiers, Progress, session, pc>>

None == -1
NoRequest == [prompt |-> <<>>]
Prompt == req.prompt
Held == Front(Prompt)

Init ==
    /\ conf \in Configs
    /\ session = Empty /\ resident = <<>> /\ durable = {} /\ bundle = <<>>
    /\ healthy = TRUE /\ served = 0 /\ frontier = <<>>
    /\ req = NoRequest /\ pc = "idle" /\ outcome = "none"
    /\ restored = None /\ logits = NoLogits /\ rng = "checkpoint"
    /\ exhausted = FALSE /\ out = <<>> /\ torn = FALSE

-----------------------------------------------------------------------------
(***************************************************************************)
(* Ways out.  What fails after the slot was prepared leaves through the    *)
(* reset at the end; what returns earlier leaves the session alone.  A     *)
(* target failure also latches the pool (accelerator_failure).             *)
(***************************************************************************)
Leave(why) ==
    /\ pc' = "idle" /\ outcome' = why /\ req' = NoRequest
    /\ restored' = None /\ logits' = NoLogits /\ rng' = "checkpoint"
    /\ exhausted' = FALSE /\ out' = <<>>
    /\ UNCHANGED <<conf, served>>

ResetOnError == Empty

FailWith(why) ==
    /\ Leave(why)
    /\ session' = ResetOnError /\ torn' = FALSE
    /\ UNCHANGED <<bundle, healthy, frontier>>

FailLatching ==
    /\ Leave("unavailable")
    /\ session' = ResetOnError /\ torn' = FALSE /\ healthy' = FALSE
    /\ UNCHANGED <<bundle, frontier>>

Step(to) == pc' = to /\ UNCHANGED Asked

(***************************************************************************)
(* Validation, the context policy and the session lineage.  A continuation *)
(* whose prompt does not begin with the committed frontier is rebuilt.     *)
(***************************************************************************)
Begin ==
    /\ pc = "idle" /\ healthy /\ served < MaxRequests
    /\ \E shape \in Shapes, open \in BOOLEAN,
          p \in Prompts \cup {bundle \o turn : turn \in Turns} :
          /\ p # <<>> /\ Len(p) <= MaxPrompt
          /\ conf.remote = "off" => ~open
          /\ shape.stateful => shape.shifted \/ IsPrefix(bundle, p)
          /\ req' = [prompt |-> p, ask |-> shape, remote |-> open]
          /\ pc' = CASE shape.shifted -> "rebuild"
                     [] ~shape.shifted /\ shape.stateful /\ bundle # <<>> -> "restore"
                     [] OTHER -> "start"
    /\ served' = served + 1
    /\ outcome' = "none"
    /\ UNCHANGED <<conf, bundle, healthy, frontier, Tiers, Progress, session>>

(***************************************************************************)
(* A shifted prompt is prefilled in the hidden staging session, which then *)
(* trades places with the live one.  Until then nothing is lost, whether   *)
(* the client left, the staging session is busy or its prefill failed.     *)
(***************************************************************************)
Rebuild ==
    /\ pc = "rebuild"
    /\ \/ Leave("cancelled") /\ UNCHANGED <<session, torn, bundle, healthy, frontier>>
       \/ Leave("unavailable") /\ healthy' = FALSE /\ UNCHANGED <<session, torn, bundle, frontier>>
       \/ /\ Step("start")
          /\ session' = Holding(Prompt, Prompt)
          /\ restored' = Len(Prompt) /\ torn' = FALSE
          /\ UNCHANGED <<logits, rng, exhausted, out>>
    /\ UNCHANGED Tiers

(***************************************************************************)
(* A continuation installs the bundle's rows, then its distribution.       *)
(***************************************************************************)
Restore ==
    /\ pc = "restore"
    /\ \/ /\ Leave("engine")
          /\ \/ UNCHANGED <<session, torn>>
             \/ session' = Holding(bundle, NoLogits) /\ torn' = FALSE
          /\ UNCHANGED <<bundle, healthy, frontier>>
       \/ /\ Step("start")
          /\ session' = Holding(bundle, bundle)
          /\ restored' = Len(bundle) /\ torn' = FALSE
          /\ UNCHANGED <<logits, rng, exhausted, out>>
    /\ UNCHANGED Tiers

(***************************************************************************)
(* The lease may have been waited for: probe the client, then route.       *)
(***************************************************************************)
UsesDFlash == conf.dflash /\ req.ask.compatible /\ req.ask.max > 0

Start ==
    /\ pc = "start"
    /\ \/ FailWith("cancelled")
       \/ /\ Step(CASE UsesDFlash /\ req.ask.shifted -> "shifted"
                    [] UsesDFlash /\ ~req.ask.shifted /\ req.remote -> "consult"
                    [] UsesDFlash /\ ~req.ask.shifted /\ ~req.remote -> "local"
                    [] OTHER -> "target")
          /\ UNCHANGED <<session, Progress>>
    /\ UNCHANGED Tiers

-----------------------------------------------------------------------------
(***************************************************************************)
(* consult_reuse_before_remote: a hit that leaves at most the boundary     *)
(* token skips the handoff and the speculative routes, an aligned one arms *)
(* a delta, anything else starts from an empty session.  A failing durable *)
(* catalog fails the request.                                              *)
(***************************************************************************)
PromptPlan == Plan(resident, conf.durable, durable, session.hist, Prompt)
LookUp == resident' = LookedUp(resident, conf.durable, durable, session.hist, Prompt)

Worth == IF conf.prefixCache /\ PromptPlan.source # "miss"
         THEN RemoteAction(PromptPlan.cut, Len(Prompt)) ELSE "full"

Consult ==
    /\ pc = "consult" /\ Len(Prompt) >= 2
    /\ Step(IF Worth = "local" THEN "target" ELSE "receive")
    /\ session' = IF Worth = "full" THEN Empty ELSE Install(session, PromptPlan, Prompt)
    /\ restored' = IF Worth = "local" THEN PromptPlan.cut ELSE restored
    /\ IF conf.prefixCache THEN LookUp ELSE UNCHANGED resident
    /\ UNCHANGED <<durable, logits, rng, exhausted, out, torn>>

ConsultFails ==
    /\ pc = "consult"
    /\ IF Len(Prompt) >= 2 THEN conf.durable ELSE conf.remote = "required"
    /\ FailWith("engine")
    /\ UNCHANGED Tiers

ConsultShort ==
    /\ pc = "consult" /\ Len(Prompt) < 2 /\ conf.remote = "auto"
    /\ Step("local")
    /\ UNCHANGED <<session, Tiers, Progress>>

(***************************************************************************)
(* The combined handoff installs all but the boundary token.               *)
(***************************************************************************)
Receive ==
    /\ pc = "receive"
    /\ \/ /\ Step("installed") /\ session' = Holding(Held, NoLogits)
          /\ UNCHANGED Progress
       \/ /\ conf.remote = "auto" /\ Step("local") /\ session' = Empty
          /\ UNCHANGED Progress
       \/ conf.remote = "required" /\ FailWith("engine")
    /\ UNCHANGED Tiers

-----------------------------------------------------------------------------
(***************************************************************************)
(* The speculative routes.  A finished one has streamed its tokens and     *)
(* left them, a stop token included, in the session.  The installed ones   *)
(* publish the prompt cut once the boundary token is evaluated.            *)
(***************************************************************************)
Installed == {"installed", "installed fallback"}
Speculative == Installed \cup {"shifted", "local", "local fallback"}

Text(n) == [i \in 1..n |-> Visible]
Completions == {Text(req.ask.max)} \cup {Append(Text(n), Eos) : n \in 0..req.ask.max - 1}

(***************************************************************************)
(* publish_durable saves under a key that is the digest of the history,    *)
(* with a generation of its own: the store refuses a key it has seen with  *)
(* another generation, so a history that was saved before is refused.  The *)
(* resident cut is in by then.                                             *)
(***************************************************************************)
Repeats(s) == conf.durable /\ \E e \in durable : e.toks = s.hist

PublishedResident(s) ==
    resident' = IF conf.prefixCache THEN InsertWithLogits(resident, s) ELSE resident

Published(s) ==
    /\ ~Repeats(s)
    /\ PublishedResident(s)
    /\ durable' = IF conf.durable THEN durable \cup {Cut(s)} ELSE durable

PublishRefused(s) == Repeats(s) /\ PublishedResident(s) /\ UNCHANGED durable

PublishedPrompt == IF pc \in Installed THEN Published(Holding(Prompt, Prompt))
                   ELSE UNCHANGED Tiers

SpeculativeSucceeds ==
    /\ pc \in Speculative
    /\ \E g \in Completions :
          /\ out' = g
          /\ session' = Holding(Prompt \o g, Prompt \o g)
    /\ Step("done")
    /\ PublishedPrompt
    /\ rng' = "moved" /\ torn' = FALSE
    /\ UNCHANGED <<restored, logits, exhausted>>

(***************************************************************************)
(* The client refuses a token, the cut cannot be published, or detached    *)
(* state cannot be put back: the request ends (callback_failed).           *)
(***************************************************************************)
SpeculativeEnds ==
    /\ pc \in Speculative
    /\ FailWith("cancelled")
    /\ \/ PublishedPrompt \/ UNCHANGED Tiers
       \/ pc \in Installed /\ PublishRefused(Holding(Prompt, Prompt))

(***************************************************************************)
(* into_terminal: an engine failure behind a streamed prefix latches.      *)
(***************************************************************************)
NeverTerminal(given) == FALSE
IntoTerminal(given) == given # <<>>

(***************************************************************************)
(* What a local route that failed before its first commit leaves: nothing, *)
(* rows without a history, the prompt with or without its distribution, a  *)
(* stop token behind it, or candidates the verifier could not take back.   *)
(***************************************************************************)
Untaken == [kv |-> Append(Prompt, Visible), hist |-> Prompt, logits |-> Prompt]
LeftBehind ==
    {Empty, [Empty EXCEPT !.kv = <<Head(Prompt)>>],
     Holding(Prompt, NoLogits), Holding(Prompt, Prompt),
     Holding(Append(Prompt, Eos), NoLogits), Untaken}

(***************************************************************************)
(* The next route.  The fallback assistant may fail to load.  Behind the   *)
(* installed routes the session is put back to the handed-off rows or      *)
(* emptied; behind the local ones it stays as the attempt left it.  Every  *)
(* route, the plain one included, starts from the same draw.               *)
(***************************************************************************)
NextRoutes ==
    CASE pc = "installed" -> {"local"} \cup (IF conf.fallback THEN {"installed fallback"} ELSE {})
      [] pc = "installed fallback" -> {"local"}
      [] pc = "local" -> {"target"} \cup (IF conf.fallback THEN {"local fallback"} ELSE {})
      [] OTHER -> {"target"}

FallBack(to, given) ==
    /\ Step(to)
    /\ session' \in CASE to = "installed fallback" -> {Holding(Held, NoLogits)}
                      [] to = "local" -> {Empty}
                      [] OTHER -> LeftBehind
    /\ torn' = (session' = Untaken)
    /\ exhausted' = (to = "target")
    /\ rng' = "checkpoint"
    /\ out' = given
    /\ UNCHANGED <<restored, logits>>

SpeculativeFails ==
    /\ pc \in Speculative
    /\ \E given \in {<<>>, <<Visible>>} :
          IF IntoTerminal(given) THEN FailLatching
          ELSE IF pc = "shifted" THEN FailWith("engine")
          ELSE \E to \in NextRoutes :
                 IF pc \in Installed /\ to = "local" /\ conf.remote = "required"
                 THEN FailWith("engine")
                 ELSE FallBack(to, given)
    /\ PublishedPrompt \/ UNCHANGED Tiers

-----------------------------------------------------------------------------
(***************************************************************************)
(* The plain route.  A retained history with its distribution that the     *)
(* prompt extends is as good as a restored one; otherwise start empty.     *)
(***************************************************************************)
Retained == IF restored = None /\ req.ask.cachePrompt
               /\ Continues(session.hist, Prompt) /\ session.logits # NoLogits
            THEN Len(session.hist) ELSE restored

(***************************************************************************)
(* prefill_token_suffix: evaluate the prompt behind the matched cut and    *)
(* save a durable cut at every interval and before the last token, the     *)
(* matched cut itself first.  A cut without a distribution, or one that    *)
(* was saved before, is refused, and with it the request; the ones before  *)
(* it stay.                                                                *)
(***************************************************************************)
SavedAt(c) == c > 0 /\ (c = Len(Prompt) - 1 \/ c % Interval = 0)
SavePoints(m) == IF conf.durable THEN {c \in m..Len(Prompt) - 1 : SavedAt(c)} ELSE {}
Through(s, m, c) == IF c = m THEN s ELSE Extend(s, SubSeq(Prompt, m + 1, c))
CutsBefore(s, m, end) == {Cut(Through(s, m, c)) : c \in {x \in SavePoints(m) : x < end}}
RefusedAt(s, m) ==
    {c \in SavePoints(m) : Through(s, m, c).logits = NoLogits \/ Repeats(Through(s, m, c))}

PrefillTokenSuffix(s, m) ==
    LET stop == IF RefusedAt(s, m) = {} THEN Len(Prompt) ELSE Min(RefusedAt(s, m))
    IN  \/ /\ stop = Len(Prompt)
           /\ Step("publish")
           /\ session' = Through(s, m, Len(Prompt))
           /\ logits' = session'.logits
           /\ durable' = durable \cup CutsBefore(s, m, stop)
           /\ UNCHANGED <<restored, rng, exhausted, out, torn>>
        \/ /\ stop < Len(Prompt)
           /\ FailWith(IF Through(s, m, stop).logits = NoLogits THEN "cut refused"
                                                               ELSE "cut repeated")
           /\ durable' = durable \cup CutsBefore(s, m, stop)
        \/ /\ FailLatching
           /\ \E end \in m + 1..stop : durable' = durable \cup CutsBefore(s, m, end)

Target ==
    /\ pc = "target"
    /\ LET s == IF Retained = None THEN Empty ELSE session
       IN  IF Retained = Len(Prompt) /\ s.logits = NoLogits
           THEN FailWith("engine") /\ UNCHANGED Tiers
           ELSE /\ Step(IF Retained \in 1..Len(Prompt) - 1 /\ ~conf.prefixCache
                        THEN "suffix" ELSE "ladder")
                /\ session' = s /\ torn' = (torn /\ Retained # None)
                /\ restored' = Retained
                /\ logits' = IF Retained = Len(Prompt) THEN s.logits ELSE NoLogits
                /\ UNCHANGED <<rng, exhausted, out, Tiers>>

Suffix ==
    /\ pc = "suffix"
    /\ PrefillTokenSuffix(session, restored)
    /\ UNCHANGED resident

(***************************************************************************)
(* The reuse ladder, before any network work.                              *)
(***************************************************************************)
Ladder ==
    /\ pc = "ladder"
    /\ IF ~conf.prefixCache
       THEN Step("remote") /\ UNCHANGED <<session, Progress, Tiers>>
       ELSE LET s == Install(session, PromptPlan, Prompt)
                cut == PromptPlan.cut
                armed == req.remote /\ ArmRemoteDelta(PromptPlan.source, cut, Len(Prompt))
            IN  /\ LookUp
                /\ CASE PromptPlan.source = "miss" ->
                          Step("remote") /\ UNCHANGED <<session, Progress, durable>>
                     [] PromptPlan.source # "miss" /\ cut = Len(Prompt) ->
                          IF s.logits = NoLogits
                          THEN FailWith("engine") /\ UNCHANGED durable
                          ELSE /\ Step("remote") /\ session' = s /\ logits' = s.logits
                               /\ UNCHANGED <<restored, rng, exhausted, out, torn, durable>>
                     [] PromptPlan.source # "miss" /\ cut < Len(Prompt) /\ armed ->
                          /\ Step("remote") /\ session' = s /\ logits' = NoLogits
                          /\ UNCHANGED <<restored, rng, exhausted, out, torn, durable>>
                     [] OTHER -> PrefillTokenSuffix(s, cut)

LadderFails == pc = "ladder" /\ conf.durable /\ FailWith("engine") /\ UNCHANGED Tiers

(***************************************************************************)
(* The target-only handoff, for a prompt no local tier answered.  Its rows *)
(* are saved as a durable cut before the boundary token is evaluated.      *)
(***************************************************************************)
AsksRemote == logits = NoLogits /\ restored = None /\ req.remote

Remote ==
    /\ pc = "remote"
    /\ IF ~AsksRemote \/ (Len(Prompt) < 2 /\ conf.remote = "auto")
       THEN Step("prefill") /\ UNCHANGED <<session, Progress>>
       ELSE \/ conf.remote = "required" /\ FailWith("engine")
            \/ /\ conf.remote = "auto"
               /\ Step("prefill") /\ session' = Empty
               /\ UNCHANGED Progress
            \/ /\ Len(Prompt) >= 2 /\ conf.durable
               /\ FailWith("handoff refused")
            \/ /\ Len(Prompt) >= 2 /\ ~conf.durable
               /\ Step("prefill")
               /\ session' = Extend(Holding(Held, NoLogits), <<Last(Prompt)>>)
               /\ logits' = session'.logits
               /\ UNCHANGED <<restored, rng, exhausted, out, torn>>
            \/ Len(Prompt) >= 2 /\ ~conf.durable /\ FailLatching
    /\ UNCHANGED Tiers

Prefill ==
    /\ pc = "prefill"
    /\ IF logits # NoLogits
       THEN Step("publish") /\ UNCHANGED <<session, Progress, durable>>
       ELSE PrefillTokenSuffix(Empty, 0)
    /\ UNCHANGED resident

(***************************************************************************)
(* The completed prompt is published, loudly, before decoding extends it;  *)
(* then the client is probed again.                                        *)
(***************************************************************************)
Publishable == ~conf.prefixCache \/ (Exportable(session) /\ (conf.durable => session.logits # NoLogits))

Publish ==
    /\ pc = "publish"
    /\ \/ /\ Publishable
          /\ Published(session)
          /\ \/ Step(IF req.ask.max = 0 THEN "done" ELSE "decode") /\ UNCHANGED <<session, Progress>>
             \/ FailWith("cancelled")
       \/ Publishable /\ PublishRefused(session) /\ FailWith("cut repeated")
       \/ ~Publishable /\ FailWith("engine") /\ UNCHANGED Tiers

PublishFails == pc = "publish" /\ conf.prefixCache /\ FailWith("engine") /\ UNCHANGED Tiers

-----------------------------------------------------------------------------
(***************************************************************************)
(* The decode loop.  A chosen stop token is shown and counted but not fed  *)
(* back.  Any other token is shown and then evaluated, the last one too,   *)
(* before a stop word, a closed tool call, the time limit or the length    *)
(* ends the request.                                                       *)
(***************************************************************************)
Decoded(toks, ends) ==
    /\ out' = out \o toks
    /\ session' = Extend(session, toks)
    /\ logits' = session'.logits
    /\ Step(IF ends THEN "done" ELSE "decode")
    /\ UNCHANGED <<restored, rng, exhausted, torn>>

Decode ==
    /\ pc = "decode" /\ ~req.ask.block
    /\ \/ /\ Step("done") /\ out' = Append(out, Eos)
          /\ UNCHANGED <<session, restored, logits, rng, exhausted, torn>>
       \/ \E stopped \in BOOLEAN :
             Decoded(<<Visible>>, stopped \/ Len(out) + 1 = req.ask.max)
       \/ FailWith("cancelled")
       \/ FailLatching
    /\ UNCHANGED Tiers

(***************************************************************************)
(* decode_greedy_block: a run of greedy tokens in one engine call.         *)
(***************************************************************************)
GreedyBlock == 2
WholeBlock == GreedyBlock
BlockLength == IF req.ask.max - Len(out) < GreedyBlock THEN req.ask.max - Len(out)
               ELSE GreedyBlock

DecodeBlock ==
    /\ pc = "decode" /\ req.ask.block
    /\ \/ Decoded(Text(BlockLength), Len(out) + BlockLength >= req.ask.max)
       \/ FailWith("cancelled")
       \/ FailLatching
    /\ UNCHANGED Tiers

(***************************************************************************)
(* The tool calls are validated; a stateful request commits its frontier   *)
(* as the next revision, or fails.                                         *)
(***************************************************************************)
Commit ==
    /\ pc = "done"
    /\ Leave("ok")
    /\ frontier' = session.kv
    /\ IF req.ask.stateful
       THEN Exportable(session) /\ session.logits # NoLogits /\ bundle' = session.hist
       ELSE UNCHANGED bundle
    /\ UNCHANGED <<session, torn, healthy, Tiers>>

CommitFails == pc = "done" /\ FailWith("engine") /\ UNCHANGED Tiers

Next ==
    \/ Begin \/ Rebuild \/ Restore \/ Start
    \/ Consult \/ ConsultFails \/ ConsultShort \/ Receive
    \/ SpeculativeSucceeds \/ SpeculativeEnds \/ SpeculativeFails
    \/ Target \/ Suffix \/ Ladder \/ LadderFails \/ Remote \/ Prefill
    \/ Publish \/ PublishFails \/ Decode \/ DecodeBlock \/ Commit \/ CommitFails

Spec == Init /\ [][Next]_vars

-----------------------------------------------------------------------------
(***************************************************************************)
(* The route of a restored revision whose speculative routes all failed,   *)
(* with the prefix cache off: restored still names the bundle's length,    *)
(* while the routes have rewritten the session.                            *)
(***************************************************************************)
StaleRestore ==
    exhausted /\ ~conf.prefixCache /\ req.ask.stateful /\ bundle # <<>>

Evaluated == SelectSeq(out, LAMBDA t : t # Eos)

(***************************************************************************)
(* Whichever way the prompt got into the slot (restored, rebuilt, reused,  *)
(* handed off, left behind by a failed route, prefilled), decoding goes on *)
(* from exactly the prompt and the tokens shown so far: the rows, the      *)
(* history and the retained distribution are those, and nothing was shown  *)
(* before, and no draw taken, that this route did not make.                *)
(***************************************************************************)
DecodesFromPrompt ==
    pc \in {"publish", "decode"} /\ ~torn /\ ~StaleRestore =>
        /\ session = Holding(Prompt \o out, Prompt \o out)
        /\ logits = session.logits
        /\ rng = "checkpoint"

(***************************************************************************)
(* What a successful request leaves, and a stateful one commits, is the    *)
(* prompt and what the client was shown, as rows, as history and as the    *)
(* distribution after them, whichever route produced it; only a stop token *)
(* the plain route ended on is not among the rows.                         *)
(***************************************************************************)
CommitsWhatWasShown ==
    pc = "done" /\ ~torn /\ ~StaleRestore =>
        /\ session \in {Holding(Prompt \o shown, Prompt \o shown) : shown \in {out, Evaluated}}
        /\ Len(out) <= req.ask.max

(***************************************************************************)
(* The idle pool ("failed requests must never return a partial or          *)
(* unvalidated frontier"): between requests a healthy slot holds nothing,  *)
(* the frontier of the last success or a committed revision, whole.        *)
(***************************************************************************)
IdleIsWhole ==
    pc = "idle" /\ healthy /\ ~torn =>
        /\ session.kv = session.hist
        /\ session.kv \in {<<>>, frontier, bundle}
        /\ session.logits \in {NoLogits, session.kv}

(***************************************************************************)
(* Every published cut is what its key says: rows of exactly those tokens, *)
(* with no distribution but the one after them.  A durable cut has one.    *)
(***************************************************************************)
CacheIsExact ==
    \A e \in ToSet(resident) \cup durable :
        /\ e.kv = e.toks
        /\ e.logits \in {NoLogits, e.toks}
        /\ e \in durable => e.logits = e.toks

(***************************************************************************)
(* docs/kvpack.md, "Warm prefix, one Mac": "Local resident/durable cache   *)
(* answers from installed state".  No request fails because its prompt, or *)
(* a cut of it, is in the durable store already.                           *)
(***************************************************************************)
WarmPrefixAnswers == outcome # "cut repeated"

(* The session at rest is whole and both cache tiers hold cuts of what     *)
(* they claim: what the next request starts from.                          *)
StateIsExact == IdleIsWhole /\ CacheIsExact
=============================================================================
