------------------------- MODULE SpeculativeDecode -------------------------
(***************************************************************************)
(* Speculative generation of one request (dflash/spec.rs over the session  *)
(* of api.rs): an assistant drafts tokens, the target verifies them in one *)
(* batch and commits the prefix it agrees with.  Three routes share the    *)
(* loop: greedy, the mirror route, which drafts the next round while the   *)
(* target still verifies this one, and sampled.                            *)
(*                                                                         *)
(* The target is an oracle on token sequences: Greedy(s) is its argmax     *)
(* after s and Support(s) the tokens its sampler can draw.  Drafts are     *)
(* arbitrary, so nothing below rests on the assistant being any good.      *)
(***************************************************************************)
EXTENDS DFlashContext

CONSTANTS
    Tokens,             \* the vocabulary
    Stops,              \* end of sequence and the caller's stop tokens
    Prompt,             \* the request's prompt, not empty
    Greedy(_),          \* the target's greedy next token
    Support(_),         \* the tokens the target's sampler gives positive weight
    VerifyLength,       \* drafts a round may propose
    MaxNew,             \* tokens the request may generate
    WindowRounds, WarmupRounds, MinWindowDrafts,    \* the gate's evidence
    BaseCooldown, MaxShift, MaxCooldown             \* and its backoff

VARIABLES
    route,      \* "greedy", "mirror" or "sampled"
    pc,         \* where the request is; "done" and "failed" are its two ends
    kv,         \* the tokens the target session's cache stands for
    ctx,        \* the assistant's context cache
    batch,      \* target rows captured and not yet given to the assistant
    seed,       \* the next token, chosen by the target
    candidates, \* seed and drafts submitted to the target
    prefetched, \* drafts made ahead by the mirror route, or NoDrafts
    overlap,    \* the mirror route may still overlap
    pending,    \* the round's drafts; if overlapped, checkpoint and drafts made ahead
    generated,  \* tokens counted as generated
    streamed,   \* tokens the caller's callback has accepted
    stats       \* the numbers the acceptance gate is computed from

vars == <<route, pc, kv, ctx, batch, seed, candidates, prefetched, overlap,
          pending, generated, streamed, stats>>

NoDrafts == <<"none">>
NoRound == [drafts |-> <<>>, checkpoint |-> <<>>, ahead |-> NoDrafts]
Verified == VerifyLength - 1    \* the mirror route verifies all drafts but one

Routes == {"greedy", "mirror", "sampled"}
Room == MaxNew - Len(generated)

(***************************************************************************)
(* The target rows of toks when they follow n tokens.                      *)
(***************************************************************************)
Rows(n, toks) == [i \in 1..Len(toks) |-> <<n + i, toks[i]>>]

(***************************************************************************)
(* The tokens the target may choose after s on this request's route.       *)
(***************************************************************************)
Choices(s) == IF route = "sampled" THEN Support(s) ELSE {Greedy(s)}

Sum(seq, from) ==
    LET total[i \in 0..Len(seq)] ==
            IF i = 0 THEN 0 ELSE total[i - 1] + (IF i > from THEN seq[i] ELSE 0)
    IN  total[Len(seq)]

-----------------------------------------------------------------------------
(***************************************************************************)
(* The acceptance gate.  window_acceptance looks at the last WindowRounds  *)
(* rounds, none of them older than the floor set when the gate reopened.   *)
(***************************************************************************)
InitStats ==
    [rounds |-> 0, accepted |-> <<>>, drafted |-> <<>>, floor |-> 0,
     disabled |-> FALSE, requalify |-> 0, events |-> 0, committed |-> 0,
     fallbacks |-> 0]

WindowStart(s) ==
    LET n == Len(s.accepted) - WindowRounds
    IN  IF n > s.floor THEN n ELSE s.floor

ShouldDisable(s) ==
    /\ s.rounds > WarmupRounds
    /\ WindowStart(s) < Len(s.accepted)
    /\ LET drafted == Sum(s.drafted, WindowStart(s))
       IN  /\ drafted >= MinWindowDrafts
           /\ 4 * Sum(s.accepted, WindowStart(s)) < drafted

Cooldown(events) ==
    LET shift == IF events - 1 < MaxShift THEN events - 1 ELSE MaxShift
        tokens == BaseCooldown * 2 ^ shift
    IN  IF tokens < MaxCooldown THEN tokens ELSE MaxCooldown

UpdateGate(s) ==
    IF s.disabled \/ ~ShouldDisable(s) THEN s
    ELSE [s EXCEPT !.disabled = TRUE, !.events = @ + 1,
                   !.requalify = s.committed + Cooldown(s.events + 1)]

(***************************************************************************)
(* fallback_round: whether this round is plain target decode; it reopens   *)
(* the gate, and moves the floor past every old round, after the cooldown. *)
(***************************************************************************)
FallbackRound(s) == s.disabled /\ s.committed < s.requalify
Reopen(s) == IF s.disabled
             THEN [s EXCEPT !.disabled = FALSE, !.floor = Len(s.accepted)]
             ELSE s

Counted(s, acc, drafted) ==
    [s EXCEPT !.rounds = @ + 1, !.committed = @ + acc,
              !.accepted = Append(@, acc - 1), !.drafted = Append(@, drafted)]

-----------------------------------------------------------------------------
(***************************************************************************)
(* A request starts with whatever an earlier one left in the session and   *)
(* the assistant, or with a prefix a remote producer installed in both:    *)
(* all of the prompt but the boundary token.                               *)
(***************************************************************************)
Held == SubSeq(Prompt, 1, Len(Prompt) - 1)
Imported == Forward(NewCache(1), Rows(0, Held))

Init ==
    /\ route \in Routes
    /\ \/ pc = "local" /\ kv \in {<<>>, Held} /\ ctx = NewCache(0)
       \/ pc = "installed" /\ kv = Held /\ ctx \in {Imported, NewCache(0)}
    /\ batch = <<>> /\ seed = 0 /\ candidates = <<>>
    /\ prefetched = NoDrafts /\ overlap = TRUE /\ pending = NoRound
    /\ generated = <<>> /\ streamed = <<>> /\ stats = InitStats

Untouched == <<route, candidates, prefetched, overlap, pending, generated,
               streamed, stats>>

(***************************************************************************)
(* prepare_*_batch: reset both sides and prefill the prompt.  The greedy   *)
(* routes feed the assistant every prompt row but the newest; the sampled  *)
(* one leaves them all to the first draft.                                 *)
(***************************************************************************)
PromptRows == IF route = "sampled" THEN <<>> ELSE Rows(0, Held)

PrepareLocal ==
    /\ pc = "local"
    /\ pc' = "loop"
    /\ kv' = Prompt
    /\ ctx' = IF PromptRows = <<>> THEN NewCache(2) ELSE Forward(NewCache(2), PromptRows)
    /\ batch' = SubSeq(Rows(0, Prompt), Len(PromptRows) + 1, Len(Prompt))
    /\ seed' \in Choices(Prompt)
    /\ UNCHANGED Untouched

(***************************************************************************)
(* The same when the prefill or the assistant's pass over the prompt fails. *)
(***************************************************************************)
PrepareFails ==
    /\ pc = "local"
    /\ pc' = "failed"
    /\ \/ kv' = <<>> /\ ctx' = NewCache(2)
       \/ /\ kv' = Prompt /\ PromptRows # <<>>
          /\ ctx' \in FailedForward(NewCache(2), PromptRows)
    /\ UNCHANGED <<batch, seed, Untouched>>

(***************************************************************************)
(* prepare_*_from_installed: both sides must stand at the same position;   *)
(* the boundary token is evaluated here.                                   *)
(***************************************************************************)
PrepareInstalled ==
    /\ pc = "installed"
    /\ IF ctx.ctxOffset = Len(kv)
       THEN /\ pc' = "loop"
            /\ kv' = Prompt
            /\ batch' = <<Rows(0, Prompt)[Len(Prompt)]>>
            /\ seed' \in Choices(Prompt)
       ELSE pc' = "failed" /\ UNCHANGED <<kv, batch, seed>>
    /\ UNCHANGED <<ctx, Untouched>>

-----------------------------------------------------------------------------
(***************************************************************************)
(* The loop head.  A request that has all its tokens ends.                 *)
(***************************************************************************)
Finish ==
    /\ pc = "loop" /\ Room = 0
    /\ pc' = "done"
    /\ UNCHANGED <<kv, ctx, batch, seed, Untouched>>

(***************************************************************************)
(* One plain target step on the seed: for a stop token, which ends the     *)
(* request, and for every token while the gate is closed.  The captured    *)
(* batch and the assistant stay as they are.                               *)
(***************************************************************************)
DecodeSeed ==
    /\ pc = "loop" /\ Room > 0
    /\ seed \in Stops \/ FallbackRound(stats)
    /\ kv' = Append(kv, seed)
    /\ generated' = Append(generated, seed)
    /\ stats' = [stats EXCEPT !.committed = @ + 1,
                              !.fallbacks = IF seed \in Stops THEN @ ELSE @ + 1]
    /\ \/ /\ streamed' = Append(streamed, seed)
          /\ IF seed \in Stops \/ Len(generated') = MaxNew
             THEN pc' = "done" /\ UNCHANGED seed
             ELSE pc' = "loop" /\ seed' \in Choices(kv')
       \/ pc' = "failed" /\ UNCHANGED <<seed, streamed>>       \* the callback refuses
    /\ UNCHANGED <<route, ctx, batch, candidates, prefetched, overlap, pending>>

(***************************************************************************)
(* The target step fails, before or after it has advanced the cache (the   *)
(* new distribution is not finite).                                        *)
(***************************************************************************)
DecodeFails ==
    /\ pc = "loop" /\ Room > 0
    /\ seed \in Stops \/ FallbackRound(stats)
    /\ pc' = "failed"
    /\ kv' \in {kv, Append(kv, seed)}
    /\ UNCHANGED <<ctx, batch, seed, Untouched>>

(***************************************************************************)
(* The seed and as many drafts as the route submits, cut behind the first  *)
(* stop token so that the target never sees what follows one.              *)
(***************************************************************************)
Submitted(drafts) ==
    IF route = "mirror" /\ overlap /\ Len(drafts) = VerifyLength /\ Room > Verified + 1
    THEN SubSeq(drafts, 1, Verified)
    ELSE SubSeq(drafts, 1, IF Len(drafts) < Room - 1 THEN Len(drafts) ELSE Room - 1)

Cut(toks) ==
    LET stops == {i \in 1..Len(toks) : toks[i] \in Stops}
    IN  IF stops = {} THEN toks
        ELSE SubSeq(toks, 1, CHOOSE i \in stops : \A j \in stops : i <= j)

TruncateCandidates(cands) == Cut(cands)

CanOverlap(drafts) ==
    /\ route = "mirror" /\ overlap /\ Len(drafts) = VerifyLength /\ Room > Verified + 1
    /\ \A i \in 1..Verified : drafts[i] \notin Stops

Speculates == pc = "loop" /\ Room > 0 /\ seed \notin Stops /\ ~FallbackRound(stats)
Drafts == [1..VerifyLength -> Tokens]

(***************************************************************************)
(* Drafting feeds the assistant the captured batch.  The greedy and the    *)
(* sampled route skip it when only the seed fits; the mirror route uses    *)
(* the drafts it made ahead, which already consumed the batch.             *)
(***************************************************************************)
SkipsDraft == route # "mirror" /\ Room = 1

Draft ==
    /\ Speculates
    /\ stats' = Reopen(stats)
    /\ \E drafts \in IF SkipsDraft THEN {<<>>}
                      ELSE IF prefetched # NoDrafts THEN {prefetched}
                      ELSE Drafts :
          /\ candidates' = TruncateCandidates(<<seed>> \o Submitted(drafts))
          /\ pc' = IF CanOverlap(drafts) THEN "overlap" ELSE "verify"
          /\ pending' = [NoRound EXCEPT !.drafts = drafts]
    /\ ctx' = IF SkipsDraft \/ prefetched # NoDrafts THEN ctx ELSE Forward(ctx, batch)
    /\ prefetched' = NoDrafts
    /\ UNCHANGED <<route, kv, batch, seed, overlap, generated, streamed>>

(***************************************************************************)
(* An assistant pass that fails leaves the layers it reached appended.     *)
(***************************************************************************)
DraftFails ==
    /\ Speculates /\ ~SkipsDraft /\ prefetched = NoDrafts
    /\ pc' = "failed"
    /\ ctx' \in FailedForward(ctx, batch)
    /\ stats' = Reopen(stats)
    /\ UNCHANGED <<route, kv, batch, seed, candidates, prefetched, overlap,
                   pending, generated, streamed>>

-----------------------------------------------------------------------------
(***************************************************************************)
(* The target's verdict on the candidates: how many of them it commits and *)
(* the next seed.  Greedy commits the candidates its own argmax agrees     *)
(* with; sampled commits the seed and any accepted drafts, and draws the   *)
(* next token from what the rejected draft leaves of the distribution.     *)
(***************************************************************************)
Prefix(n) == SubSeq(candidates, 1, n)
AgreedButLast(n) == \A i \in 1..n - 1 : candidates[i] = Greedy(kv \o Prefix(i - 1))
Agreed(n) == \A i \in 1..n : candidates[i] = Greedy(kv \o Prefix(i - 1))

GreedyVerdict ==
    {v \in (0..Len(candidates)) \X Tokens :
        /\ Agreed(v[1])
        /\ v[1] < Len(candidates) => ~Agreed(v[1] + 1)
        /\ v[2] = Greedy(kv \o Prefix(v[1]))}

SampledVerdict ==
    {v \in (1..Len(candidates)) \X Tokens :
        /\ \A i \in 2..v[1] : candidates[i] \in Support(kv \o Prefix(i - 1))
        /\ v[2] \in Support(kv \o Prefix(v[1]))
        /\ v[1] < Len(candidates) => v[2] # candidates[v[1] + 1]}

Verdict == IF route = "sampled" THEN SampledVerdict ELSE GreedyVerdict

(***************************************************************************)
(* Proposals the round's statistics count: the drafts that fit, on the     *)
(* sampled route those before a stop token, on the mirror route all made.  *)
(***************************************************************************)
DraftedCount ==
    CASE route = "greedy" -> Len(Submitted(pending.drafts))
      [] route = "mirror" -> Len(pending.drafts)
      [] OTHER -> Len(candidates) - 1

Commits(acc) ==
    /\ kv' = kv \o Prefix(acc)
    /\ batch' = Rows(Len(kv), Prefix(acc))
    /\ generated' = Cut(generated \o Prefix(acc))

Stopped(acc) == \E i \in 1..acc : candidates[i] \in Stops

(***************************************************************************)
(* A verification round: one target batch, the accepted prefix committed   *)
(* and handed to the caller, then the next seed.  The mirror route goes on *)
(* without consulting the gate.                                            *)
(***************************************************************************)
Verify ==
    /\ pc = "verify"
    /\ \E v \in Verdict :
        LET counted == Counted(stats, v[1], DraftedCount)
        IN  /\ Commits(v[1])
            /\ \/ /\ streamed' = streamed \o Prefix(v[1])
                  /\ IF Stopped(v[1]) \/ v[1] = 0
                     THEN /\ pc' = IF v[1] = 0 THEN "failed" ELSE "done"
                          /\ stats' = counted
                          /\ UNCHANGED seed
                     ELSE /\ pc' = "loop"
                          /\ seed' = v[2]
                          /\ stats' = IF route = "mirror" THEN counted ELSE UpdateGate(counted)
               \/ pc' = "failed" /\ stats' = counted /\ UNCHANGED <<seed, streamed>>
    /\ candidates' = <<>> /\ pending' = NoRound
    /\ UNCHANGED <<route, ctx, prefetched, overlap>>

(***************************************************************************)
(* The target's batch, or its decision, fails.  The session is restored to *)
(* the cut before the call, unless restoring it fails too.                 *)
(***************************************************************************)
VerifyFails ==
    /\ pc = "verify"
    /\ pc' = "failed"
    /\ kv' \in {kv, kv \o candidates}
    /\ UNCHANGED <<ctx, batch, seed, Untouched>>

-----------------------------------------------------------------------------
(***************************************************************************)
(* The mirror route's overlapped round.  The last draft predicts the token *)
(* after the verified ones; once the target has captured the candidates'   *)
(* rows, the assistant consumes them and drafts the next round from that   *)
(* prediction, under a checkpoint of its cache.                            *)
(***************************************************************************)
PredictedBonus == pending.drafts[VerifyLength]

BeginOverlap ==
    /\ pc = "overlap"
    /\ pc' = "finish"
    /\ \/ /\ \E ahead \in Drafts :
                pending' = [pending EXCEPT !.ahead = ahead,
                                           !.checkpoint = CheckpointAppend(ctx, Len(candidates))]
          /\ ctx' = Forward(ctx, Rows(Len(kv), candidates))
       \/ /\ pending' = [pending EXCEPT !.checkpoint = CheckpointAppend(ctx, Len(candidates))]
          /\ ctx' \in FailedForward(ctx, Rows(Len(kv), candidates))
    /\ UNCHANGED <<route, kv, batch, seed, candidates, prefetched, overlap,
                   generated, streamed, stats>>

(***************************************************************************)
(* rollback_mirror_append: a cache that cannot be proved to be the         *)
(* checkpoint's is thrown away, and the request fails.                     *)
(***************************************************************************)
Recovered == IF RollbackTarget(ctx, pending.checkpoint)
             THEN RollbackAppend(ctx, pending.checkpoint)
             ELSE NewCache(3)
Quarantined == ~RollbackTarget(ctx, pending.checkpoint)

(***************************************************************************)
(* The target finishes.  The drafts made ahead are kept only when it       *)
(* committed every candidate and chose the predicted token; every other    *)
(* outcome takes the assistant back to the checkpoint and ends overlapping.*)
(* An overlapped round has no stop token among its candidates, so the      *)
(* truncation behind it cuts nothing.                                      *)
(***************************************************************************)
FinishOverlap ==
    /\ pc = "finish"
    /\ \E v \in GreedyVerdict :
        LET counted == Counted(stats, v[1], DraftedCount)
            exact == /\ v[1] = Len(candidates)
                     /\ v[2] = PredictedBonus
                     /\ pending.ahead # NoDrafts
        IN  /\ Commits(v[1])
            /\ \/ /\ v[1] > 0
                  /\ streamed' = streamed \o Prefix(v[1])
                  /\ pc' = IF exact \/ (pending.ahead # NoDrafts /\ ~Quarantined)
                           THEN "loop" ELSE "failed"
                  /\ ctx' = IF exact THEN ctx ELSE Recovered
                  /\ prefetched' = IF exact THEN pending.ahead ELSE NoDrafts
                  /\ overlap' = exact
                  /\ seed' = v[2]
                  /\ stats' = UpdateGate(counted)
               \/ /\ pc' = "failed"               \* the callback refuses
                  /\ ctx' = Recovered
                  /\ stats' = counted
                  /\ UNCHANGED <<seed, streamed, prefetched, overlap>>
    /\ candidates' = <<>> /\ pending' = NoRound
    /\ UNCHANGED route

(***************************************************************************)
(* The target fails before the overlap began, or while it finishes.        *)
(***************************************************************************)
OverlapFails ==
    /\ pc \in {"overlap", "finish"}
    /\ pc' = "failed"
    /\ ctx' = IF pc = "finish" THEN Recovered ELSE ctx
    /\ kv' \in {kv, kv \o candidates}
    /\ UNCHANGED <<batch, seed, Untouched>>

Next ==
    \/ PrepareLocal \/ PrepareFails \/ PrepareInstalled
    \/ Finish \/ DecodeSeed \/ DecodeFails
    \/ Draft \/ DraftFails \/ Verify \/ VerifyFails
    \/ BeginOverlap \/ FinishOverlap \/ OverlapFails

Spec == Init /\ [][Next]_vars

-----------------------------------------------------------------------------
TypeOK ==
    /\ route \in Routes
    /\ pc \in {"local", "installed", "loop", "verify", "overlap", "finish", "done", "failed"}
    /\ kv \in Seq(Tokens) /\ generated \in Seq(Tokens) /\ streamed \in Seq(Tokens)
    /\ candidates \in Seq(Tokens)
    /\ overlap \in BOOLEAN

(***************************************************************************)
(* Speculation is lossless (verify_batch_capturing_layers and              *)
(* sampled_round_decision): whatever the assistant drafted and whatever    *)
(* failed, every token the caller was given is one the target itself would *)
(* choose after the prompt and the tokens before it, no stop token is      *)
(* followed by another, and no more than max_new_tokens are given.         *)
(***************************************************************************)
Lossless ==
    /\ \A i \in 1..Len(streamed) :
         /\ streamed[i] \in Choices(Prompt \o SubSeq(streamed, 1, i - 1))
         /\ i < Len(streamed) => streamed[i] \notin Stops
    /\ Len(streamed) <= MaxNew

(***************************************************************************)
(* The assistant is conditioned on exactly the target's rows: at the loop  *)
(* head every committed position is either in its cache (as far as sink    *)
(* and window keep it) or in the captured batch, once, in order, in every  *)
(* layer, through provisional passes and rollbacks.  The gate's fallback   *)
(* rounds capture nothing, so this speaks of requests that had none.       *)
(***************************************************************************)
ContextFollows ==
    pc = "loop" /\ Room > 0 /\ stats.fallbacks = 0 =>
        LET rows == Rows(0, kv)
            unread == IF prefetched = NoDrafts THEN batch ELSE <<>>
        IN  /\ ctx.ctxOffset + Len(unread) = Len(kv)
            /\ unread = SubSeq(rows, ctx.ctxOffset + 1, Len(kv))
            /\ \A l \in Layers :
                 ctx.planes[l] = Retained(SubSeq(rows, 1, ctx.ctxOffset))

(***************************************************************************)
(* Every closing of the gate is judged on proposals of its own             *)
(* (window_floor): a request that drafted badly before a reopening is not  *)
(* closed again on that old evidence.                                      *)
(***************************************************************************)
FreshEvidence == stats.events * MinWindowDrafts <= Sum(stats.drafted, 0)
=============================================================================
