------------------------- MODULE AtMostOnceInstall -------------------------
(***************************************************************************)
(* What a remote prefill handoff promises to the decoder, with no ledger,  *)
(* no wire and no crash recovery in sight: every authenticated generation  *)
(* of a key epoch becomes live at most once and in increasing order, it    *)
(* becomes live as a whole, and it is the generation of the prompt that    *)
(* was asked for.                                                          *)
(***************************************************************************)
EXTENDS Naturals

CONSTANTS Scopes,       \* "<hmac key id>:<epoch>", the key of the ledger
          Generations,  \* generations a producer can stamp
          Prompts,      \* prompts a request can carry
          None          \* no live generation

VARIABLES wanted,       \* the prompt the decoder asked for, or None
          installed,    \* every [scope, gen] that ever became live
          live          \* the generation decode reads now, or None

absVars == <<wanted, installed, live>>

AbsInit ==
    /\ wanted = None
    /\ installed = {}
    /\ live = None

(* The decoder asks for a prefix, or stops asking.                         *)
Ask ==
    /\ wanted' \in Prompts \cup {None}
    /\ UNCHANGED <<installed, live>>

(* One new generation, above all the earlier ones of its scope, is live.   *)
Publish(s, g) ==
    /\ wanted # None
    /\ \A i \in installed : i.scope = s => i.gen < g
    /\ installed' = installed \cup {[scope |-> s, gen |-> g]}
    /\ live' = [scope |-> s, gen |-> g, prompt |-> wanted]
    /\ wanted' = wanted

(* The decoder process stops: its cache is gone, what happened is not.     *)
Lose ==
    /\ wanted' = None
    /\ live' = None
    /\ installed' = installed

AbsNext ==
    \/ Ask
    \/ \E s \in Scopes, g \in Generations : Publish(s, g)
    \/ Lose

AbsSpec == AbsInit /\ [][AbsNext]_absVars
=============================================================================
