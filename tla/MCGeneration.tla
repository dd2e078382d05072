---------------------------- MODULE MCGeneration -----------------------------
(***************************************************************************)
(* A small instance of Generation: two requests on one slot, prompts of up *)
(* to six tokens, alignments of two.                                       *)
(***************************************************************************)
EXTENDS Generation

McPrompts == {<<1>>, <<1, 1>>, <<1, 1, 1>>, <<1, 2, 1>>}
McTurns == {<<>>, <<1>>, <<1, 1>>}

Ask(stateful, compatible, cachePrompt, shifted, block, max) ==
    [stateful |-> stateful, compatible |-> compatible, cachePrompt |-> cachePrompt,
     shifted |-> shifted, block |-> block, max |-> max]

McShapes ==
    {Ask(TRUE, TRUE, TRUE, FALSE, FALSE, 2), Ask(TRUE, FALSE, TRUE, FALSE, FALSE, 2),
     Ask(TRUE, TRUE, TRUE, TRUE, FALSE, 1), Ask(FALSE, TRUE, TRUE, FALSE, FALSE, 1),
     Ask(FALSE, FALSE, FALSE, TRUE, FALSE, 1), Ask(FALSE, FALSE, TRUE, FALSE, TRUE, 3),
     Ask(FALSE, FALSE, FALSE, FALSE, FALSE, 0)}

Conf(dflash, fallback, prefixCache, dur, remote) ==
    [dflash |-> dflash, fallback |-> fallback, prefixCache |-> prefixCache,
     durable |-> dur, remote |-> remote]

McConfigs ==
    {Conf(FALSE, FALSE, TRUE, FALSE, "off"), Conf(FALSE, FALSE, TRUE, TRUE, "auto"),
     Conf(TRUE, TRUE, TRUE, TRUE, "auto"), Conf(TRUE, TRUE, FALSE, FALSE, "auto"),
     Conf(TRUE, FALSE, TRUE, FALSE, "required"), Conf(FALSE, FALSE, FALSE, FALSE, "required")}
=============================================================================
