------------------------------ MODULE MCEngine ------------------------------
(***************************************************************************)
(* One generation from inside, in one run: the routes a request takes      *)
(* through the server, the rounds of the speculative decoder, and the      *)
(* journal of a remote verifier.  A behaviour is one of these three; the   *)
(* variables of the others rest.                                           *)
(*                                                                         *)
(* The target of the speculative decoder is over two words and a stop      *)
(* token.  Its argmax depends on the whole sequence, so that a session     *)
(* holding one token too many or too few is told apart, and it stops only  *)
(* after several tokens.                                                   *)
(***************************************************************************)
EXTENDS MCGeneration, VerifierJournal, TLC

CONSTANTS i1, i2, f1, f2

MCIds == {i1, i2}
MCFrags == {f1, f2}
MCClosures == {{f1}, {f1, f2}}
MCSymmetry == Permutations(MCIds)

Weight(s) ==
    LET w[i \in 0..Len(s)] == IF i = 0 THEN 0 ELSE w[i - 1] + i * (s[i] + 1)
    IN  w[Len(s)]

MCGreedy(s) == IF Len(s) = 8 THEN 2 ELSE Weight(s) % 2
MCSupport(s) == IF Weight(s) % 5 = 0 THEN {0, 2} ELSE {0, 1}

VARIABLES which,
          route, round, kv, ctx, batch, seed, candidates, prefetched, overlap,
          pending, generated, streamed, stats

Decoder == INSTANCE SpeculativeDecode WITH
    NLayers <- 2, Sink <- 1, Win <- 3,
    Tokens <- 0..2, Stops <- {2}, Prompt <- <<1, 0>>, Greedy <- MCGreedy, Support <- MCSupport,
    VerifyLength <- 2, MaxNew <- 7,
    WindowRounds <- 2, WarmupRounds <- 1, MinWindowDrafts <- 3,
    BaseCooldown <- 1, MaxShift <- 1, MaxCooldown <- 2,
    pc <- round

roundVars == <<route, round, kv, ctx, batch, seed, candidates, prefetched, overlap,
               pending, generated, streamed, stats>>

RequestRests == Init /\ conf = CHOOSE c \in McConfigs : TRUE
RoundsRest == Decoder!Init /\ route = "greedy" /\ round = "local" /\ kv = <<>>

EngineInit ==
    /\ JournalInit
    /\ \/ which = "request" /\ Init /\ RoundsRest
       \/ which = "rounds" /\ RequestRests /\ Decoder!Init
       \/ which = "journal" /\ RequestRests /\ RoundsRest

EngineNext ==
    /\ UNCHANGED which
    /\ \/ which = "request" /\ Next /\ UNCHANGED <<roundVars, journalVars>>
       \/ which = "rounds" /\ Decoder!Next /\ UNCHANGED <<vars, journalVars>>
       \/ which = "journal" /\ JournalNext /\ UNCHANGED <<vars, roundVars>>

EngineSpec == EngineInit /\ [][EngineNext]_<<which, vars, roundVars, journalVars>>

-----------------------------------------------------------------------------
(* The speculative routes emit what the target alone would have; the       *)
(* assistant's cache never runs ahead of the target; and                   *)
(* update_speculation_gate decides on rounds since the last reopening.     *)
Lossless == Decoder!Lossless /\ Decoder!ContextFollows /\ Decoder!FreshEvidence
=============================================================================
