---------------------------- MODULE RemoteBreaker ---------------------------
(***************************************************************************)
(* The breaker of the remote prefill route (mode Auto).  A request asks    *)
(* remote_route_is_open once, before it is validated, matched with its     *)
(* logical session and given a slot; much later it may attempt the remote  *)
(* receive, under the single-flight producer lease, and record how that    *)
(* went.  The three pieces of breaker state are an atomic counter, an      *)
(* atomic flag and a mutex, so recording is several steps.                 *)
(*                                                                         *)
(* The count of consecutive failures is only ever compared with the limit  *)
(* and saturates there.                                                    *)
(***************************************************************************)
EXTENDS Naturals, FiniteSets

CONSTANTS Requests,
          FailureLimit, \* REMOTE_BREAKER_FAILURES
          NoRequest

ASSUME BreakerAssumption ==
    /\ FailureLimit \in Nat \ {0}
    /\ NoRequest \notin Requests

VARIABLES failures, \* remote_consecutive_failures
          probe,    \* remote_probe_in_flight
          cooldown, \* remote_cooldown_until
          lease,    \* who holds producer_lease
          stage,
          retried,  \* the request attempted the route once already
          admitted, \* history: how the request was let through
          leaked    \* history: a probe ended unrecorded since the flag went up

breakerVars == <<failures, probe, cooldown, lease, stage, retried, admitted, leaked>>

Failing == {"failed", "cooling", "clearing", "rearming"}
Healing == {"committed", "healing", "closing"}
Stages == {"idle", "selected", "receiving"} \cup Failing \cup Healing

BreakerTypeOK ==
    /\ failures \in 0..FailureLimit
    /\ probe \in BOOLEAN
    /\ cooldown \in {"none", "pending", "expired"}
    /\ lease \in Requests \cup {NoRequest}
    /\ stage \in [Requests -> Stages]
    /\ retried \in [Requests -> BOOLEAN]
    /\ admitted \in [Requests -> {"open", "probe"}]
    /\ leaked \in BOOLEAN

BreakerInit ==
    /\ failures = 0
    /\ probe = FALSE
    /\ cooldown = "none"
    /\ lease = NoRequest
    /\ stage = [r \in Requests |-> "idle"]
    /\ retried = [r \in Requests |-> FALSE]
    /\ admitted = [r \in Requests |-> "open"]
    /\ leaked = FALSE

Enter(r, l) == stage' = [stage EXCEPT ![r] = l]

(* Thirty seconds pass.                                                    *)
CooldownEnds ==
    /\ cooldown = "pending"
    /\ cooldown' = "expired"
    /\ UNCHANGED <<failures, probe, lease, stage, retried, admitted, leaked>>

(* remote_route_is_open answers false: the prompt is prefilled locally.    *)
TurnedAway(r) ==
    /\ stage[r] = "idle"
    /\ cooldown = "pending" \/ (cooldown = "none" /\ probe)
    /\ UNCHANGED breakerVars

Open(r) ==
    /\ stage[r] = "idle"
    /\ cooldown = "none"
    /\ ~probe
    /\ Enter(r, "selected")
    /\ retried' = [retried EXCEPT ![r] = FALSE]
    /\ admitted' = [admitted EXCEPT ![r] = "open"]
    /\ UNCHANGED <<failures, probe, cooldown, lease, leaked>>

(* The cool-down is over: take it down and the probe flag up, in one       *)
(* critical section; the caller goes on only if it raised the flag.        *)
HalfOpen(r) ==
    /\ stage[r] = "idle"
    /\ cooldown = "expired"
    /\ cooldown' = "none"
    /\ probe' = TRUE
    /\ \/ /\ ~probe
          /\ Enter(r, "selected")
          /\ retried' = [retried EXCEPT ![r] = FALSE]
          /\ admitted' = [admitted EXCEPT ![r] = "probe"]
       \/ probe /\ UNCHANGED <<stage, retried, admitted>>
    /\ UNCHANGED <<failures, lease, leaked>>

(* generate_events ends, or serves the prompt locally, without a receive:  *)
(* a malformed or conflicting stateful request, a replayed response, no    *)
(* slot in time, a prompt out of the route's range, a cache hit.           *)
Abandon(r) ==
    /\ stage[r] = "selected"
    /\ Enter(r, "idle")
    /\ leaked' = (leaked \/ admitted[r] = "probe")
    /\ UNCHANGED <<failures, probe, cooldown, lease, retried, admitted>>

(* What follows an attempt: the request ends, or it comes to the second    *)
(* receive of generate_events with the route it selected at the start.     *)
AfterAttempt(r) ==
    /\ \/ Enter(r, "idle") /\ retried' = retried
       \/ ~retried[r] /\ Enter(r, "selected") /\ retried' = [retried EXCEPT ![r] = TRUE]
    /\ admitted' = [admitted EXCEPT ![r] = "open"]

(* try_producer_lease finds the lease taken; record_remote_failure then    *)
(* returns before it touches the breaker.                                  *)
Busy(r) ==
    /\ stage[r] = "selected"
    /\ lease # NoRequest
    /\ AfterAttempt(r)
    /\ UNCHANGED <<failures, probe, cooldown, lease, leaked>>

Attempt(r) ==
    /\ stage[r] = "selected"
    /\ lease = NoRequest
    /\ lease' = r
    /\ Enter(r, "receiving")
    /\ UNCHANGED <<failures, probe, cooldown, retried, admitted, leaked>>

(* receive returns and the lease is dropped.                               *)
Received(r, l) ==
    /\ stage[r] = "receiving"
    /\ lease' = NoRequest
    /\ Enter(r, l)
    /\ UNCHANGED <<failures, probe, cooldown, retried, admitted, leaked>>

(* record_remote_failure                                                   *)
CountFailure(r) ==
    /\ stage[r] = "failed"
    /\ failures' = IF failures = FailureLimit THEN failures ELSE failures + 1
    /\ Enter(r, IF failures' = FailureLimit THEN "cooling" ELSE "clearing")
    /\ UNCHANGED <<probe, cooldown, lease, retried, admitted, leaked>>

Cool(r) ==
    /\ stage[r] = "cooling"
    /\ cooldown' = "pending"
    /\ Enter(r, "clearing")
    /\ UNCHANGED <<failures, probe, lease, retried, admitted, leaked>>

(* mutant: a failed probe re-arms the cool-down and keeps its flag         *)
ClearProbeKeeping(r) ==
    /\ stage[r] = "clearing"
    /\ \/ probe /\ Enter(r, "rearming") /\ UNCHANGED <<retried, admitted>>
       \/ ~probe /\ AfterAttempt(r)
    /\ UNCHANGED <<failures, probe, cooldown, lease, leaked>>

ClearProbe(r) ==
    /\ stage[r] = "clearing"
    /\ probe' = FALSE
    /\ leaked' = FALSE
    /\ \/ probe /\ Enter(r, "rearming") /\ UNCHANGED <<retried, admitted>>
       \/ ~probe /\ AfterAttempt(r)
    /\ UNCHANGED <<failures, cooldown, lease>>

Rearm(r) ==
    /\ stage[r] = "rearming"
    /\ cooldown' = "pending"
    /\ AfterAttempt(r)
    /\ UNCHANGED <<failures, probe, lease, leaked>>

(* record_remote_transfer                                                  *)
ResetFailures(r) ==
    /\ stage[r] = "committed"
    /\ failures' = 0
    /\ Enter(r, "healing")
    /\ UNCHANGED <<probe, cooldown, lease, retried, admitted, leaked>>

(* mutant: a committed transfer only resets the count and the cool-down    *)
HealProbeKeeping(r) ==
    /\ stage[r] = "healing"
    /\ Enter(r, "closing")
    /\ UNCHANGED <<failures, probe, cooldown, lease, retried, admitted, leaked>>

HealProbe(r) ==
    /\ stage[r] = "healing"
    /\ probe' = FALSE
    /\ leaked' = FALSE
    /\ Enter(r, "closing")
    /\ UNCHANGED <<failures, cooldown, lease, retried, admitted>>

HealCooldown(r) ==
    /\ stage[r] = "closing"
    /\ cooldown' = "none"
    /\ AfterAttempt(r)
    /\ UNCHANGED <<failures, probe, lease, leaked>>

InRequest(r) ==
    \/ Abandon(r) \/ Busy(r) \/ Attempt(r)
    \/ Received(r, "failed") \/ Received(r, "committed")
    \/ CountFailure(r) \/ Cool(r) \/ ClearProbe(r) \/ Rearm(r)
    \/ ResetFailures(r) \/ HealProbe(r) \/ HealCooldown(r)

BreakerNext ==
    \/ CooldownEnds
    \/ \E r \in Requests : TurnedAway(r) \/ Open(r) \/ HalfOpen(r) \/ InRequest(r)

BreakerSpec == BreakerInit /\ [][BreakerNext]_breakerVars

(* Time passes, and a request in progress proceeds: receive is bounded by  *)
(* its own timeouts.  Nothing says that requests keep arriving.            *)
BreakerFairSpec ==
    /\ BreakerSpec /\ WF_breakerVars(CooldownEnds)
    /\ \A r \in Requests : WF_breakerVars(InRequest(r))

-----------------------------------------------------------------------------
LeaseHeld == \A r \in Requests : lease = r <=> stage[r] = "receiving"

(* While the probe flag of remote_route_is_open is up, and with it the     *)
(* route closed to everybody, some request is on its way to clear it,      *)
(* unless a probe was abandoned.  A probe that finds the producer busy     *)
(* clears nothing; the holder of the lease does.                           *)
Resolver(r) ==
    \/ stage[r] = "selected" /\ admitted[r] = "probe"
    \/ stage[r] \in {"receiving", "failed", "cooling", "clearing", "committed", "healing"}

ProbeHasResolver == probe /\ ~leaked => \E r \in Requests : Resolver(r)

BreakerInv == BreakerTypeOK /\ LeaseHeld /\ ProbeHasResolver

(* The route does not stay closed: whatever fails, there comes a time when *)
(* remote_route_is_open would answer true.                                 *)
RouteReopens == []<>(~probe /\ cooldown # "pending")

(* Only an abandoned probe can keep the route closed for good: otherwise   *)
(* failures, busy leases and late answers to the probe all leave it open   *)
(* again, however record_remote_failure and record_remote_transfer meet.   *)
ReopensUnlessAbandoned == []~leaked => RouteReopens
=============================================================================
