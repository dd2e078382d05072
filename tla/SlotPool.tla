------------------------------ MODULE SlotPool ------------------------------
(***************************************************************************)
(* SlotPool: bounded admission of requests to the resident sessions, with  *)
(* one mutex, one condition variable and a health latch that is an atomic  *)
(* outside the mutex.  Each thread is one HTTP request at a time: it       *)
(* acquires a slot (any, or the one its client named), works and drops the *)
(* permit; or it is an operator call that erases or restores an idle slot. *)
(*                                                                         *)
(* A critical section is one step, except the window between the health    *)
(* check and the wait, where latch_unhealthy can run because it takes no   *)
(* mutex.  The order of the free list is abstracted to a set; deadlines    *)
(* are choices.                                                            *)
(***************************************************************************)
EXTENDS Naturals, FiniteSets

CONSTANTS Threads,
          Slots,
          AnySlot,        \* acquire(): no slot is named
          Wants,      \* what requests ask for, a subset of Slots and AnySlot
          MaxQueued,  \* MAX_QUEUED_REQUESTS
          NoThread, NoSlot

ASSUME SlotPoolAssumption ==
    /\ IsFiniteSet(Threads)
    /\ NoThread \notin Threads
    /\ NoSlot \notin Slots
    /\ AnySlot \notin Slots
    /\ Wants \subseteq Slots \cup {AnySlot}
    /\ MaxQueued \in Nat

VARIABLES available, \* free list: indices of idle slots
          sessions,  \* indices whose Session is in the registry (Some)
          waiting,   \* count of queued requests
          unhealthy, \* the latch
          mutex,     \* who holds the state mutex between two steps
          pc, want,
          slot,      \* the slot a permit or an operator call owns
          expired    \* the deadline of the request has passed

poolVars == <<available, sessions, waiting, unhealthy, mutex, pc, want, slot, expired>>

Rest == {"idle", "unhealthy", "overloaded", "served", "crashed"}
Queued == {"check", "armed", "asleep", "woken", "timedout"}
Owning == {"holding", "failing", "returning", "managing"}
PCs == Rest \cup Queued \cup Owning \cup {"locking", "restoring", "panicked"}

PoolTypeOK ==
    /\ available \subseteq Slots
    /\ sessions \subseteq Slots
    /\ waiting \in 0..MaxQueued
    /\ unhealthy \in BOOLEAN
    /\ mutex \in Threads \cup {NoThread}
    /\ pc \in [Threads -> PCs]
    /\ want \in [Threads -> Slots \cup {AnySlot}]
    /\ slot \in [Threads -> Slots \cup {NoSlot}]
    /\ expired \in [Threads -> BOOLEAN]

PoolInit ==
    /\ available = Slots
    /\ sessions = Slots
    /\ waiting = 0
    /\ unhealthy = FALSE
    /\ mutex = NoThread
    /\ pc = [t \in Threads |-> "idle"]
    /\ want = [t \in Threads |-> AnySlot]
    /\ slot = [t \in Threads |-> NoSlot]
    /\ expired = [t \in Threads |-> FALSE]

Free == mutex = NoThread
Goto(t, l) == pc' = [pc EXCEPT ![t] = l]
Usable(t, s) == s \in available /\ want[t] \in {AnySlot, s}

(* mutant: the session is used in place, the index stays on the free list  *)
TakeShared(t, s, l) ==
    /\ slot' = [slot EXCEPT ![t] = s]
    /\ Goto(t, l)
    /\ UNCHANGED <<available, sessions>>

(* The permit: the index leaves the free list, the Session the registry.   *)
Take(t, s, l) ==
    /\ available' = available \ {s}
    /\ sessions' = sessions \ {s}
    /\ slot' = [slot EXCEPT ![t] = s]
    /\ Goto(t, l)

(* acquire and acquire_specific, first line: the health check, no mutex.   *)
Arrive(t, w) ==
    /\ pc[t] \in Rest
    /\ want' = [want EXCEPT ![t] = w]
    /\ Goto(t, IF unhealthy THEN "unhealthy" ELSE "locking")
    /\ expired' = [expired EXCEPT ![t] = FALSE]
    /\ UNCHANGED <<available, sessions, waiting, unhealthy, mutex, slot>>

(* Time passes: Instant::now() reaches the request's deadline.             *)
Expire(t) ==
    /\ pc[t] \in Queued \cup {"locking"}
    /\ ~expired[t]
    /\ expired' = [expired EXCEPT ![t] = TRUE]
    /\ UNCHANGED <<available, sessions, waiting, unhealthy, mutex, pc, want, slot>>

Grant(t) ==
    /\ pc[t] = "locking" /\ Free
    /\ \E s \in Slots : Usable(t, s) /\ Take(t, s, "holding")
    /\ UNCHANGED <<waiting, unhealthy, mutex, want, expired>>

Shed(t) ==
    /\ pc[t] = "locking" /\ Free
    /\ \A s \in Slots : ~Usable(t, s)
    /\ waiting >= MaxQueued
    /\ Goto(t, "overloaded")
    /\ UNCHANGED <<available, sessions, waiting, unhealthy, mutex, want, slot, expired>>

Enqueue(t) ==
    /\ pc[t] = "locking" /\ Free
    /\ \A s \in Slots : ~Usable(t, s)
    /\ waiting < MaxQueued
    /\ waiting' = waiting + 1
    /\ mutex' = t
    /\ Goto(t, "check")
    /\ UNCHANGED <<available, sessions, unhealthy, want, slot, expired>>

Dequeue(t, l) ==
    /\ waiting' = waiting - 1
    /\ mutex' = NoThread
    /\ Goto(t, l)

(* The loop of acquire: health, then deadline, then wait_timeout.          *)
CheckUnhealthy(t) ==
    /\ pc[t] = "check" /\ unhealthy
    /\ Dequeue(t, "unhealthy")
    /\ UNCHANGED <<available, sessions, unhealthy, want, slot, expired>>

CheckDeadline(t) ==
    /\ pc[t] = "check" /\ ~unhealthy
    /\ expired[t]
    /\ Dequeue(t, "overloaded")
    /\ UNCHANGED <<available, sessions, unhealthy, want, slot, expired>>

CheckPassed(t) ==
    /\ pc[t] = "check" /\ ~unhealthy
    /\ ~expired[t]
    /\ Goto(t, "armed")
    /\ UNCHANGED <<available, sessions, waiting, unhealthy, mutex, want, slot, expired>>

Sleep(t) ==
    /\ pc[t] = "armed"
    /\ Goto(t, "asleep")
    /\ mutex' = NoThread
    /\ UNCHANGED <<available, sessions, waiting, unhealthy, want, slot, expired>>

(* mutant: wait() in place of wait_timeout()                               *)
WakeUpSpurious(t, l) ==
    /\ pc[t] = "asleep"
    /\ l = "woken"
    /\ Goto(t, l)
    /\ UNCHANGED <<available, sessions, waiting, unhealthy, mutex, want, slot, expired>>

(* wait_timeout returns unasked, spuriously or at the deadline.            *)
WakeUp(t, l) ==
    /\ pc[t] = "asleep"
    /\ l = "timedout" => expired[t]
    /\ Goto(t, l)
    /\ UNCHANGED <<available, sessions, waiting, unhealthy, mutex, want, slot, expired>>

(* wait_timeout returned: a usable slot is taken before the timeout is     *)
(* looked at, and before health is looked at again.                        *)
ResumeGrant(t) ==
    /\ pc[t] \in {"woken", "timedout"} /\ Free
    /\ \E s \in Slots : Usable(t, s) /\ Take(t, s, "holding")
    /\ waiting' = waiting - 1
    /\ UNCHANGED <<unhealthy, mutex, want, expired>>

ResumeTimedOut(t) ==
    /\ pc[t] = "timedout" /\ Free
    /\ \A s \in Slots : ~Usable(t, s)
    /\ Dequeue(t, "overloaded")
    /\ UNCHANGED <<available, sessions, unhealthy, want, slot, expired>>

ResumeLoop(t) ==
    /\ pc[t] = "woken" /\ Free
    /\ \A s \in Slots : ~Usable(t, s)
    /\ mutex' = t
    /\ Goto(t, "check")
    /\ UNCHANGED <<available, sessions, waiting, unhealthy, want, slot, expired>>

(* A request's target forward fails (accelerator_failure), or its thread   *)
(* panics with the permit: the latch is stored ...                         *)
Fail(t, l) ==
    /\ pc[t] = "holding"
    /\ unhealthy' = TRUE
    /\ Goto(t, l)
    /\ UNCHANGED <<available, sessions, waiting, mutex, want, slot, expired>>

(* ... and every thread asleep at this moment is notified.  A panicking    *)
(* drop keeps the session out of the registry for good.                    *)
NotifyAll(t) ==
    /\ pc[t] \in {"failing", "panicked"}
    /\ pc' = [u \in Threads |->
                IF u = t THEN IF pc[t] = "failing" THEN "returning" ELSE "crashed"
                ELSE IF pc[u] = "asleep" THEN "woken" ELSE pc[u]]
    /\ slot' = IF pc[t] = "panicked" THEN [slot EXCEPT ![t] = NoSlot] ELSE slot
    /\ UNCHANGED <<available, sessions, waiting, unhealthy, mutex, want, expired>>

(* Drop of a permit, and the second half of erase_idle and restore_idle:   *)
(* the session returns, one sleeper (if any) is notified.                  *)
Return(t) ==
    /\ pc[t] \in {"holding", "returning", "managing"} /\ Free
    /\ available' = available \cup {slot[t]}
    /\ sessions' = sessions \cup {slot[t]}
    /\ slot' = [slot EXCEPT ![t] = NoSlot]
    /\ \/ /\ \A u \in Threads : pc[u] # "asleep"
          /\ Goto(t, "served")
       \/ \E u \in Threads :
            /\ pc[u] = "asleep"
            /\ pc' = [pc EXCEPT ![t] = "served", ![u] = "woken"]
    /\ UNCHANGED <<waiting, unhealthy, mutex, want, expired>>

(* erase_idle takes an idle slot without asking whether the pool is well.  *)
EraseIdle(t, s) ==
    /\ pc[t] \in Rest /\ Free
    /\ s \in available
    /\ Take(t, s, "managing")
    /\ UNCHANGED <<waiting, unhealthy, mutex, want, expired>>

(* restore_idle asks, then locks.                                          *)
RestoreIdle(t, s) ==
    /\ pc[t] \in Rest
    /\ ~unhealthy
    /\ want' = [want EXCEPT ![t] = s]
    /\ Goto(t, "restoring")
    /\ UNCHANGED <<available, sessions, waiting, unhealthy, mutex, slot, expired>>

RestoreTake(t) ==
    /\ pc[t] = "restoring" /\ Free
    /\ \/ want[t] \in available /\ Take(t, want[t], "managing")
       \/ /\ want[t] \notin available
          /\ Goto(t, "overloaded")
          /\ UNCHANGED <<available, sessions, slot>>
    /\ UNCHANGED <<waiting, unhealthy, mutex, want, expired>>

Acquiring(t) ==
    \/ Grant(t) \/ Shed(t) \/ Enqueue(t)
    \/ ResumeGrant(t) \/ ResumeTimedOut(t) \/ ResumeLoop(t)

InMutex(t) ==
    CheckUnhealthy(t) \/ CheckDeadline(t) \/ CheckPassed(t) \/ Sleep(t)

Step(t) ==
    \/ \E w \in Wants : Arrive(t, w)
    \/ Acquiring(t)
    \/ InMutex(t)
    \/ \E l \in {"woken", "timedout"} : WakeUp(t, l)
    \/ Expire(t)
    \/ Fail(t, "failing")
    \/ Fail(t, "panicked")
    \/ NotifyAll(t)
    \/ Return(t)
    \/ \E s \in Slots : EraseIdle(t, s) \/ RestoreIdle(t, s)
    \/ RestoreTake(t)

PoolNext == \E t \in Threads : Step(t)

PoolSpec == PoolInit /\ [][PoolNext]_poolVars

(* A thread inside a critical section leaves it, a thread that keeps being *)
(* able to lock the mutex eventually does, and deadlines pass.  Nothing is *)
(* asked of the requests that own the slots: they may hold them for ever.  *)
PoolFairness ==
    \A t \in Threads :
        /\ WF_poolVars(InMutex(t))
        /\ SF_poolVars(Acquiring(t))
        /\ WF_poolVars(Expire(t))
        /\ WF_poolVars(WakeUp(t, "timedout"))

-----------------------------------------------------------------------------
(* A slot is idle in the registry or owned by one permit or operator call, *)
(* never both and never by two; while the pool is well none is lost.  This *)
(* is why take() and replace() never find the other outcome.               *)
OwnedOnce ==
    /\ sessions = available
    /\ \A t \in Threads :
         /\ slot[t] # NoSlot <=> pc[t] \in Owning \cup {"panicked"}
         /\ slot[t] \notin available
         /\ \A u \in Threads \ {t} : slot[t] = slot[u] => slot[t] = NoSlot
    /\ ~unhealthy => \A s \in Slots : s \in available \/ \E t \in Threads : slot[t] = s

(* The admission bound counts exactly the requests in the wait loop, so    *)
(* neither a timeout nor a latch leaks a place in the queue.               *)
QueueCount == waiting = Cardinality({t \in Threads : pc[t] \in Queued})

(* What the pool's mutex protects: every slot has one owner, and the count *)
(* that admits requests is exact.                                          *)
PoolExact == OwnedOnce /\ QueueCount

(* Every request that is admitted to acquire gets a slot or an answer.     *)
AcquireEnds(t) ==
    (pc[t] \in Queued \cup {"locking"}) ~> (pc[t] \in Rest \cup Owning)
=============================================================================
