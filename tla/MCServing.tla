----------------------------- MODULE MCServing ------------------------------
(***************************************************************************)
(* What requests wait for on their way through the server, in one run: a   *)
(* slot (unnamed acquires), a decode batch, the accelerator's permit and   *)
(* the remote route.  A behaviour is one of these four; the variables of   *)
(* the others rest.                                                        *)
(***************************************************************************)
EXTENDS SlotPool, DecodeBatcher, RemoteBreaker, AcceleratorScheduler

CONSTANTS t1, t2, t3, s0, r1, r2, any, none

MCThreads == {t1, t2, t3}
MCSlots == {s0}
MCUnnamed == {any}
MCIndices == 0..2
MCOutcomes == {"ok", "err"}
MCRequests == {r1, r2}
MCSeqs == 0..2
MCWholeGroup == {MCSeqs}

VARIABLE which

servingVars == <<which, poolVars, batcherVars, breakerVars, permitVars>>

ServingInit ==
    /\ which \in {"pool", "batcher", "breaker", "permit"}
    /\ PoolInit
    /\ BatcherInit
    /\ BreakerInit
    /\ PermitInit

InPool == UNCHANGED <<which, batcherVars, breakerVars, permitVars>>
InBatcher == UNCHANGED <<which, poolVars, breakerVars, permitVars>>
InBreaker == UNCHANGED <<which, poolVars, batcherVars, permitVars>>
InPermit == UNCHANGED <<which, poolVars, batcherVars, breakerVars>>

ServingNext ==
    \/ which = "pool" /\ PoolNext /\ InPool
    \/ which = "batcher" /\ BatcherNext /\ InBatcher
    \/ which = "breaker" /\ BreakerNext /\ InBreaker
    \/ which = "permit" /\ PermitNext /\ InPermit

(***************************************************************************)
(* The fairness of the components' own specifications.                     *)
(***************************************************************************)
ServingSpec ==
    /\ ServingInit /\ [][ServingNext]_servingVars
    /\ \A t \in MCThreads :
         /\ WF_servingVars(which = "pool" /\ InMutex(t) /\ InPool)
         /\ SF_servingVars(which = "pool" /\ Acquiring(t) /\ InPool)
         /\ WF_servingVars(which = "pool" /\ Expire(t) /\ InPool)
         /\ WF_servingVars(which = "pool" /\ WakeUp(t, "timedout") /\ InPool)
    /\ \A s \in MCIndices : WF_servingVars(which = "batcher" /\ InDecode(s) /\ InBatcher)
    /\ WF_servingVars(which = "breaker" /\ CooldownEnds /\ InBreaker)
    /\ \A r \in MCRequests : WF_servingVars(which = "breaker" /\ InRequest(r) /\ InBreaker)
    /\ WF_servingVars(which = "permit" /\ Release /\ InPermit)
    /\ WF_servingVars(which = "permit" /\ GrantGroup /\ InPermit)
    /\ \A s \in MCSeqs : WF_servingVars(which = "permit" /\ GrantDecode(s) /\ InPermit)

-----------------------------------------------------------------------------
(* SlotPool::acquire returns, even if the owners of the slots never do.    *)
(* The threads are interchangeable: one stands for all.                    *)
UnnamedAcquireEnds == AcquireEnds(t1)

(* remote_route_is_open: the route opens again, unless a probe is lost.    *)
RouteRecovers == [](which = "breaker") => ReopensUnlessAbandoned
=============================================================================
