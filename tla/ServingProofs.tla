---------------------------- MODULE ServingProofs ----------------------------
(***************************************************************************)
(* Who owns a session, and when it is decoded.  SlotPool, for every number *)
(* of threads and slots and every queue bound: exclusive ownership of the  *)
(* sessions and an exact admission count.  DecodeBatcher, for every set of *)
(* slots and every batch width: the raw session pointers a leader          *)
(* dereferences are valid and exclusive, no row is forwarded twice, panics *)
(* of the engine included, and the rotation bounds how often a queued slot *)
(* is passed over.                                                         *)
(***************************************************************************)
EXTENDS SlotPool, DecodeBatcher, FiniteSetTheorems, WellFoundedInduction, TLAPS

(* SlotPool                                                                *)
(* The latch is set before it is announced: a request that failed or       *)
(* panicked has stored it.                                                 *)
LatchStored ==
    \A t \in Threads : pc[t] \in {"failing", "panicked", "returning"} => unhealthy

Waiters == {t \in Threads : pc[t] \in Queued}

PoolInv == PoolTypeOK /\ OwnedOnce /\ QueueCount /\ LatchStored

USE SlotPoolAssumption DEF SlotPoolAssumption

LEMMA PoolStarts == PoolInit => PoolInv
<1> SUFFICES ASSUME PoolInit PROVE PoolInv
    BY Zenon
<1>1. PoolTypeOK
  <2>1. unhealthy \in BOOLEAN /\ expired \in [Threads -> BOOLEAN]
    BY Zenon DEF PoolInit
  <2>2. waiting \in 0..MaxQueued
    BY DEF PoolInit
  <2> QED BY Zenon, <2>1, <2>2 DEF PoolInit, PoolTypeOK, PCs, Rest
<1>2. OwnedOnce
    BY Zenon DEF PoolInit, OwnedOnce, Owning
<1>3. QueueCount
  <2>1. Waiters = {}
    BY Zenon DEF PoolInit, Waiters, Queued
  <2> QED BY Zenon, <2>1, FS_EmptySet DEF PoolInit, QueueCount, Waiters
<1>4. LatchStored
    BY Zenon DEF PoolInit, LatchStored
<1> QED BY Zenon, <1>1, <1>2, <1>3, <1>4 DEF PoolInv

(* The count after a request joins the queue, leaves it, or does neither.  *)
LEMMA CountJoin ==
    ASSUME PoolTypeOK, QueueCount, NEW t \in Threads, t \notin Waiters,
           Waiters' = Waiters \cup {t}, waiting' = waiting + 1
    PROVE  QueueCount'
<1>1. IsFiniteSet(Waiters)
    BY Zenon, FS_Subset DEF Waiters
<1>2. Cardinality(Waiters \cup {t}) = Cardinality(Waiters) + 1
    BY Zenon, <1>1, FS_AddElement
<1> QED BY Zenon, <1>2 DEF QueueCount, Waiters

LEMMA CountLeave ==
    ASSUME PoolTypeOK, QueueCount, NEW t \in Threads, t \in Waiters,
           Waiters' = Waiters \ {t}, waiting' = waiting - 1
    PROVE  QueueCount' /\ waiting' \in 0..MaxQueued
<1>1. IsFiniteSet(Waiters)
    BY Zenon, FS_Subset DEF Waiters
<1>2. Cardinality(Waiters \ {t}) = Cardinality(Waiters) - 1
    BY Zenon, <1>1, FS_RemoveElement
<1>3. Cardinality(Waiters) \in Nat /\ Cardinality(Waiters \ {t}) \in Nat
    BY Zenon, <1>1, FS_CardinalityType, FS_RemoveElement
<1>4. QueueCount'
    BY Zenon, <1>2 DEF QueueCount, Waiters
<1>5. waiting \in 0..MaxQueued /\ waiting = Cardinality(Waiters)
    BY Zenon DEF PoolTypeOK, QueueCount, Waiters
<1> QED BY <1>2, <1>3, <1>4, <1>5

LEMMA CountStay ==
    ASSUME QueueCount, Waiters' = Waiters, waiting' = waiting
    PROVE  QueueCount'
    BY Zenon DEF QueueCount, Waiters

(* A slot that is taken from the free list has one owner.                  *)
LEMMA TakeOwned ==
    ASSUME PoolTypeOK, OwnedOnce, NEW t \in Threads, NEW s \in Slots, s \in available,
           NEW l \in {"holding", "managing"}, slot[t] = NoSlot,
           Take(t, s, l), unhealthy' = unhealthy
    PROVE  OwnedOnce' /\ pc' \in [Threads -> PCs]
                      /\ available' \subseteq Slots /\ sessions' \subseteq Slots
                      /\ slot' \in [Threads -> Slots \cup {NoSlot}]
<1>1. pc' \in [Threads -> PCs] /\ available' \subseteq Slots /\ sessions' \subseteq Slots
      /\ slot' \in [Threads -> Slots \cup {NoSlot}]
    BY Zenon DEF PoolTypeOK, Take, Goto, PCs, Owning
<1>2. slot'[t] = s /\ pc'[t] = l /\ \A u \in Threads \ {t} : slot'[u] = slot[u] /\ pc'[u] = pc[u]
    BY Zenon DEF PoolTypeOK, Take, Goto
<1>3. sessions' = available'
    BY Zenon DEF Take, OwnedOnce
<1>4. \A u \in Threads :
         /\ slot'[u] # NoSlot <=> pc'[u] \in Owning \cup {"panicked"}
         /\ slot'[u] \notin available'
         /\ \A v \in Threads \ {u} : slot'[u] = slot'[v] => slot'[u] = NoSlot
    BY <1>2 DEF OwnedOnce, Take, PoolTypeOK, Owning
<1>5. ~unhealthy' => \A r \in Slots : r \in available' \/ \E u \in Threads : slot'[u] = r
    BY <1>2 DEF OwnedOnce, Take
<1> QED BY Zenon, <1>1, <1>3, <1>4, <1>5 DEF OwnedOnce

(* A thread that moves without touching a slot changes nobody's ownership. *)
LEMMA MoveOwned ==
    ASSUME PoolTypeOK, OwnedOnce, NEW t \in Threads, NEW l \in PCs, Goto(t, l),
           pc[t] \in Owning \cup {"panicked"} <=> l \in Owning \cup {"panicked"},
           UNCHANGED <<available, sessions, slot>>, unhealthy \/ unhealthy' = unhealthy,
           unhealthy => unhealthy'
    PROVE  OwnedOnce' /\ pc' \in [Threads -> PCs]
<1>1. pc' \in [Threads -> PCs] /\ pc'[t] = l /\ \A u \in Threads \ {t} : pc'[u] = pc[u]
    BY Zenon DEF PoolTypeOK, Goto
<1>2. \A u \in Threads : slot'[u] # NoSlot <=> pc'[u] \in Owning \cup {"panicked"}
    BY Zenon, <1>1 DEF OwnedOnce
<1> QED BY Zenon, <1>1, <1>2 DEF OwnedOnce

(* Where a thread that owns nothing can be.                                *)
LEMMA NotOwning ==
    ASSUME OwnedOnce, NEW t \in Threads,
           pc[t] \in Rest \cup Queued \cup {"locking", "restoring"}
    PROVE  slot[t] = NoSlot
    BY Zenon DEF OwnedOnce, Owning, Rest, Queued

(* Every step keeps the invariant.                                         *)
LEMMA PoolSteps == ASSUME PoolInv, NEW t \in Threads, Step(t) PROVE PoolInv'
<1> USE DEF PoolInv
<1>1. ASSUME NEW w \in Wants, Arrive(t, w) PROVE PoolInv'
  <2> DEFINE l == IF unhealthy THEN "unhealthy" ELSE "locking"
  <2>1. l \in PCs /\ l \notin Owning \cup {"panicked"} /\ pc[t] \notin Owning \cup {"panicked"}
    BY Zenon, <1>1 DEF Arrive, PCs, Rest, Owning
  <2>2. OwnedOnce' /\ pc' \in [Threads -> PCs]
    BY Zenon, <1>1, <2>1, MoveOwned DEF Arrive
  <2>3. PoolTypeOK'
    BY Zenon, <1>1, <2>2 DEF Arrive, PoolTypeOK
  <2>4. Waiters' = Waiters
    BY Zenon, <1>1 DEF Arrive, Waiters, Goto, PoolTypeOK, Rest, Queued
  <2>5. LatchStored'
    BY Zenon, <1>1 DEF Arrive, LatchStored, Goto, PoolTypeOK, Rest
  <2> QED BY Zenon, <1>1, <2>2, <2>3, <2>4, <2>5, CountStay DEF Arrive
<1>2. CASE Expire(t)
  <2>1. PoolTypeOK'
    BY Zenon, <1>2 DEF Expire, PoolTypeOK
  <2>2. OwnedOnce' /\ LatchStored' /\ Waiters' = Waiters
    BY Zenon, <1>2 DEF Expire, OwnedOnce, LatchStored, Waiters
  <2> QED BY Zenon, <1>2, <2>1, <2>2, CountStay DEF Expire
<1>3. CASE Grant(t)
  <2>1. PICK s \in Slots : Usable(t, s) /\ Take(t, s, "holding")
    BY Zenon, <1>3 DEF Grant
  <2>2. slot[t] = NoSlot
    BY Zenon, <1>3, NotOwning DEF Grant
  <2>3. OwnedOnce' /\ pc' \in [Threads -> PCs] /\ available' \subseteq Slots
        /\ sessions' \subseteq Slots /\ slot' \in [Threads -> Slots \cup {NoSlot}]
    BY Zenon, <1>3, <2>1, <2>2, TakeOwned DEF Grant, Usable
  <2>4. PoolTypeOK'
    BY Zenon, <1>3, <2>3 DEF Grant, PoolTypeOK
  <2>5. Waiters' = Waiters /\ LatchStored'
    BY Zenon, <1>3, <2>1 DEF Grant, Take, Goto, Waiters, PoolTypeOK, LatchStored, Queued
  <2> QED BY Zenon, <1>3, <2>3, <2>4, <2>5, CountStay DEF Grant
<1>4. CASE ResumeGrant(t)
  <2>1. PICK s \in Slots : Usable(t, s) /\ Take(t, s, "holding")
    BY Zenon, <1>4 DEF ResumeGrant
  <2>2. slot[t] = NoSlot
    BY Zenon, <1>4, NotOwning DEF ResumeGrant, Queued
  <2>3. OwnedOnce' /\ pc' \in [Threads -> PCs] /\ available' \subseteq Slots
        /\ sessions' \subseteq Slots /\ slot' \in [Threads -> Slots \cup {NoSlot}]
    BY Zenon, <1>4, <2>1, <2>2, TakeOwned DEF ResumeGrant, Usable
  <2>4. t \in Waiters /\ Waiters' = Waiters \ {t}
    BY Zenon, <1>4, <2>1 DEF ResumeGrant, Take, Goto, Waiters, PoolTypeOK, Queued
  <2>5. QueueCount' /\ waiting' \in 0..MaxQueued
    BY Zenon, <1>4, <2>4, CountLeave DEF ResumeGrant
  <2>6. PoolTypeOK'
    BY Zenon, <1>4, <2>3, <2>5 DEF ResumeGrant, PoolTypeOK
  <2>7. LatchStored'
    BY Zenon, <1>4, <2>1 DEF ResumeGrant, Take, Goto, PoolTypeOK, LatchStored
  <2> QED BY Zenon, <2>3, <2>5, <2>6, <2>7
<1>5. CASE Shed(t)
  <2>1. OwnedOnce' /\ pc' \in [Threads -> PCs]
    BY Zenon, <1>5, MoveOwned DEF Shed, PCs, Rest, Owning
  <2>2. PoolTypeOK'
    BY Zenon, <1>5, <2>1 DEF Shed, PoolTypeOK
  <2>3. Waiters' = Waiters /\ LatchStored'
    BY Zenon, <1>5 DEF Shed, Waiters, LatchStored, Goto, PoolTypeOK, Queued
  <2> QED BY Zenon, <1>5, <2>1, <2>2, <2>3, CountStay DEF Shed
<1>6. CASE Enqueue(t)
  <2>1. OwnedOnce' /\ pc' \in [Threads -> PCs]
    BY Zenon, <1>6, MoveOwned DEF Enqueue, PCs, Queued, Owning
  <2>2. PoolTypeOK'
    BY <1>6, <2>1 DEF Enqueue, PoolTypeOK
  <2>3. t \notin Waiters /\ Waiters' = Waiters \cup {t} /\ LatchStored'
    BY <1>6 DEF Enqueue, Waiters, LatchStored, Goto, PoolTypeOK, Queued
  <2> QED BY Zenon, <1>6, <2>1, <2>2, <2>3, CountJoin DEF Enqueue
<1>7. ASSUME NEW l \in {"unhealthy", "overloaded"}, Dequeue(t, l),
             pc[t] \in Queued, UNCHANGED <<available, sessions, unhealthy, want, slot, expired>>
      PROVE  PoolInv'
  <2>1. OwnedOnce' /\ pc' \in [Threads -> PCs]
    BY Zenon, <1>7, MoveOwned DEF Dequeue, PCs, Rest, Queued, Owning
  <2>2. t \in Waiters /\ Waiters' = Waiters \ {t} /\ LatchStored'
    BY Zenon, <1>7 DEF Dequeue, Waiters, LatchStored, Goto, PoolTypeOK, Queued
  <2>3. QueueCount' /\ waiting' \in 0..MaxQueued
    BY Zenon, <1>7, <2>2, CountLeave DEF Dequeue
  <2>4. PoolTypeOK'
    BY Zenon, <1>7, <2>1, <2>3 DEF Dequeue, PoolTypeOK
  <2> QED BY Zenon, <2>1, <2>2, <2>3, <2>4
<1>8. CASE CheckUnhealthy(t) \/ CheckDeadline(t) \/ ResumeTimedOut(t)
    BY Zenon, <1>7, <1>8 DEF CheckUnhealthy, CheckDeadline, ResumeTimedOut, Queued
<1>9. ASSUME NEW l \in Queued, Goto(t, l), pc[t] \in Queued, mutex' \in Threads \cup {NoThread},
             UNCHANGED <<available, sessions, waiting, unhealthy, want, slot, expired>>
      PROVE  PoolInv'
  <2>1. OwnedOnce' /\ pc' \in [Threads -> PCs]
    BY Zenon, <1>9, MoveOwned DEF PCs, Queued, Owning
  <2>2. PoolTypeOK'
    BY Zenon, <1>9, <2>1 DEF PoolTypeOK
  <2>3. Waiters' = Waiters /\ LatchStored'
    BY Zenon, <1>9 DEF Waiters, LatchStored, Goto, PoolTypeOK, Queued
  <2> QED BY Zenon, <1>9, <2>1, <2>2, <2>3, CountStay
<1>10. CASE CheckPassed(t) \/ Sleep(t) \/ ResumeLoop(t)
  <2>1. mutex \in Threads \cup {NoThread}
    BY Zenon DEF PoolTypeOK
  <2>2. CASE CheckPassed(t)
    <3>1. mutex' \in Threads \cup {NoThread} /\ pc[t] \in Queued /\ "armed" \in Queued
      BY Zenon, <2>1, <2>2 DEF CheckPassed, Queued
    <3> QED BY Zenon, <1>9, <2>2, <3>1 DEF CheckPassed
  <2>3. CASE Sleep(t)
    <3>1. mutex' \in Threads \cup {NoThread} /\ pc[t] \in Queued /\ "asleep" \in Queued
      BY Zenon, <2>3 DEF Sleep, Queued
    <3> QED BY Zenon, <1>9, <2>3, <3>1 DEF Sleep
  <2>4. CASE ResumeLoop(t)
    <3>1. mutex' \in Threads \cup {NoThread} /\ pc[t] \in Queued /\ "check" \in Queued
      BY Zenon, <2>4 DEF ResumeLoop, Queued
    <3> QED BY Zenon, <1>9, <2>4, <3>1 DEF ResumeLoop
  <2> QED BY Zenon, <1>10, <2>2, <2>3, <2>4
<1>11. ASSUME NEW l \in {"woken", "timedout"}, WakeUp(t, l) PROVE PoolInv'
  <2>1. mutex' \in Threads \cup {NoThread} /\ pc[t] \in Queued /\ l \in Queued
    BY Zenon, <1>11 DEF PoolTypeOK, WakeUp, Queued
  <2> QED BY Zenon, <1>9, <1>11, <2>1 DEF WakeUp
<1>12. ASSUME NEW l \in {"failing", "panicked"}, Fail(t, l) PROVE PoolInv'
  <2>1. unhealthy' \in BOOLEAN /\ unhealthy'
    BY Zenon, <1>12, Zenon DEF Fail
  <2>2. OwnedOnce' /\ pc' \in [Threads -> PCs]
    BY <1>12, <2>1 DEF Fail, Goto, PoolTypeOK, OwnedOnce, PCs, Owning
  <2>3. PoolTypeOK'
    BY Zenon, <1>12, <2>1, <2>2 DEF Fail, PoolTypeOK
  <2>4. Waiters' = Waiters
    BY Zenon, <1>12 DEF Fail, Waiters, Goto, PoolTypeOK, Queued
  <2>5. LatchStored'
    BY Zenon, <2>1 DEF LatchStored
  <2> QED BY Zenon, <1>12, <2>2, <2>3, <2>4, <2>5, CountStay DEF Fail
<1>13. CASE NotifyAll(t)
  <2>1. pc' \in [Threads -> PCs]
    BY Zenon, <1>13 DEF NotifyAll, PoolTypeOK, PCs, Rest, Queued, Owning
  <2>2. slot' \in [Threads -> Slots \cup {NoSlot}]
    BY Zenon, <1>13 DEF NotifyAll, PoolTypeOK
  <2>3. PoolTypeOK'
    BY Zenon, <1>13, <2>1, <2>2 DEF NotifyAll, PoolTypeOK
  <2>4. unhealthy /\ unhealthy'
    BY Zenon, <1>13 DEF NotifyAll, LatchStored
  <2>5. \A u \in Threads \ {t} : /\ slot'[u] = slot[u]
                                 /\ pc'[u] \in Owning \cup {"panicked"}
                                      <=> pc[u] \in Owning \cup {"panicked"}
                                 /\ pc'[u] \in Queued <=> pc[u] \in Queued
    BY Zenon, <1>13 DEF NotifyAll, PoolTypeOK, Queued, Owning
  <2>6. OwnedOnce'
    <3>1. CASE pc[t] = "failing"
      <4>1. pc'[t] = "returning" /\ slot' = slot
        BY Zenon, <1>13, <3>1 DEF NotifyAll
      <4> QED BY <1>13, <2>4, <2>5, <3>1, <4>1 DEF NotifyAll, OwnedOnce, Owning
    <3>2. CASE pc[t] = "panicked"
      <4>1. pc'[t] = "crashed" /\ slot'[t] = NoSlot
        BY Zenon, <1>13, <3>2 DEF NotifyAll, PoolTypeOK
      <4> QED BY <1>13, <2>4, <2>5, <3>2, <4>1 DEF NotifyAll, OwnedOnce, Owning, PoolTypeOK
    <3> QED BY Zenon, <1>13, <3>1, <3>2 DEF NotifyAll
  <2>8. Waiters' = Waiters
    BY Zenon, <1>13, <2>5 DEF NotifyAll, Waiters, Queued
  <2>9. LatchStored'
    BY Zenon, <2>4 DEF LatchStored
  <2> QED BY Zenon, <1>13, <2>3, <2>6, <2>8, <2>9, CountStay DEF NotifyAll
<1>14. CASE Return(t)
  <2>1. slot[t] \in Slots /\ slot[t] # NoSlot
    BY <1>14 DEF Return, OwnedOnce, PoolTypeOK, Owning
  <2>2. /\ pc' \in [Threads -> PCs]
        /\ pc'[t] = "served"
        /\ \A u \in Threads \ {t} : pc'[u] = pc[u] \/ (pc[u] = "asleep" /\ pc'[u] = "woken")
    <3>1. CASE Goto(t, "served")
      BY Zenon, <3>1 DEF Goto, PoolTypeOK, PCs, Rest
    <3>2. ASSUME NEW u \in Threads, pc[u] = "asleep",
                 pc' = [pc EXCEPT ![t] = "served", ![u] = "woken"]
          PROVE  /\ pc' \in [Threads -> PCs]
                 /\ pc'[t] = "served"
                 /\ \A v \in Threads \ {t} : pc'[v] = pc[v] \/ (pc[v] = "asleep" /\ pc'[v] = "woken")
      <4>1. u # t
        BY Zenon, <1>14, <3>2 DEF Return
      <4> QED BY Zenon, <3>2, <4>1 DEF PoolTypeOK, PCs, Rest, Queued
    <3> QED BY Zenon, <1>14, <3>1, <3>2 DEF Return
  <2>3. PoolTypeOK'
    BY Zenon, <1>14, <2>1, <2>2 DEF Return, PoolTypeOK
  <2>4. /\ slot'[t] = NoSlot
        /\ \A u \in Threads \ {t} : slot'[u] = slot[u] /\ slot[u] # slot[t]
    BY <1>14, <2>1 DEF Return, PoolTypeOK, OwnedOnce
  <2>5. \A u \in Threads : slot'[u] # NoSlot <=> pc'[u] \in Owning \cup {"panicked"}
    BY <2>2, <2>4 DEF OwnedOnce, Owning
  <2>6. \A u \in Threads : slot'[u] \notin available'
    BY <1>14, <2>1, <2>4 DEF Return, OwnedOnce, PoolTypeOK
  <2>7. OwnedOnce'
    BY <1>14, <2>1, <2>4, <2>5, <2>6 DEF Return, OwnedOnce
  <2>8. Waiters' = Waiters
    BY Zenon, <1>14, <2>2 DEF Return, Waiters, Queued
  <2>9. LatchStored'
    BY Zenon, <1>14, <2>2 DEF Return, LatchStored
  <2> QED BY Zenon, <1>14, <2>3, <2>7, <2>8, <2>9, CountStay DEF Return
<1>15. ASSUME NEW s \in Slots, s \in available, Take(t, s, "managing"),
              pc[t] \in Rest \cup {"restoring"},
              UNCHANGED <<waiting, unhealthy, mutex, want, expired>>
       PROVE  PoolInv'
  <2>1. slot[t] = NoSlot
    BY Zenon, <1>15, NotOwning
  <2>2. OwnedOnce' /\ pc' \in [Threads -> PCs] /\ available' \subseteq Slots
        /\ sessions' \subseteq Slots /\ slot' \in [Threads -> Slots \cup {NoSlot}]
    BY Zenon, <1>15, <2>1, TakeOwned
  <2>3. PoolTypeOK'
    BY Zenon, <1>15, <2>2 DEF PoolTypeOK
  <2>4. Waiters' = Waiters /\ LatchStored'
    BY Zenon, <1>15 DEF Take, Goto, Waiters, PoolTypeOK, LatchStored, Queued, Rest
  <2> QED BY Zenon, <1>15, <2>2, <2>3, <2>4, CountStay
<1>16. ASSUME NEW s \in Slots, EraseIdle(t, s) PROVE PoolInv'
    BY Zenon, <1>15, <1>16 DEF EraseIdle
<1>17. ASSUME NEW l \in {"restoring", "overloaded"}, Goto(t, l), pc[t] \in Rest \cup {"restoring"},
              want' \in [Threads -> Slots \cup {AnySlot}],
              UNCHANGED <<available, sessions, waiting, unhealthy, mutex, slot, expired>>
       PROVE  PoolInv'
  <2>1. OwnedOnce' /\ pc' \in [Threads -> PCs]
    BY Zenon, <1>17, MoveOwned DEF PCs, Rest, Owning
  <2>2. PoolTypeOK'
    BY Zenon, <1>17, <2>1 DEF PoolTypeOK
  <2>3. Waiters' = Waiters /\ LatchStored'
    BY Zenon, <1>17 DEF Waiters, LatchStored, Goto, PoolTypeOK, Queued, Rest
  <2> QED BY Zenon, <1>17, <2>1, <2>2, <2>3, CountStay
<1>18. ASSUME NEW s \in Slots, RestoreIdle(t, s) PROVE PoolInv'
  <2>1. want' \in [Threads -> Slots \cup {AnySlot}]
    BY Zenon, <1>18 DEF RestoreIdle, PoolTypeOK
  <2> QED BY Zenon, <1>17, <1>18, <2>1 DEF RestoreIdle
<1>19. CASE RestoreTake(t)
  <2>1. want \in [Threads -> Slots \cup {AnySlot}] /\ available \subseteq Slots
    BY Zenon DEF PoolTypeOK
  <2> QED BY Zenon, <1>15, <1>17, <1>19, <2>1 DEF RestoreTake
<1> QED BY Zenon, <1>1, <1>2, <1>3, <1>4, <1>5, <1>6, <1>8, <1>10, <1>11, <1>12, <1>13,
           <1>14, <1>16, <1>18, <1>19 DEF Step, Acquiring, InMutex

LEMMA PoolInvariance == PoolSpec => []PoolInv
<1>1. PoolInv /\ [PoolNext]_poolVars => PoolInv'
  <2>1. ASSUME PoolInv, PoolNext PROVE PoolInv'
    BY Zenon, <2>1, PoolSteps DEF PoolNext
  <2>2. ASSUME PoolInv, UNCHANGED poolVars PROVE PoolInv'
    BY <2>2 DEF PoolInv, PoolTypeOK, OwnedOnce, QueueCount, LatchStored, poolVars
  <2> QED BY Zenon, <2>1, <2>2
<1> QED BY PoolStarts, <1>1, PTL DEF PoolSpec

(* acquire, the permit's drop and the operator calls of SlotPool keep the  *)
(* pool's state well-typed; the queue length stays within MaxQueued.       *)
THEOREM PoolTypes == PoolSpec => []PoolTypeOK
<1>1. PoolInv => PoolTypeOK
    BY Zenon DEF PoolInv
<1> QED BY <1>1, PoolInvariance, PTL

(* A resident session is never handed to two requests by acquire,          *)
(* acquire_specific, erase_idle or restore_idle, nor returned twice, for   *)
(* any number of threads and slots; and none is lost while the pool is     *)
(* healthy.                                                                *)
THEOREM ExclusiveSlots == PoolSpec => []OwnedOnce
<1>1. PoolInv => OwnedOnce
    BY Zenon DEF PoolInv
<1> QED BY <1>1, PoolInvariance, PTL

(* Every exit of the wait loop of acquire, by grant, timeout or latch,     *)
(* gives back exactly the place it took in the queue.                      *)
THEOREM ExactQueue == PoolSpec => []QueueCount
<1>1. PoolInv => QueueCount
    BY Zenon DEF PoolInv
<1> QED BY <1>1, PoolInvariance, PTL

(* The two halves of the pool's bookkeeping together: acquire, drop,        *)
(* erase_idle and restore_idle keep slots exclusive and the queue counted.  *)
THEOREM PoolIsExact == PoolSpec => []PoolExact
BY ExclusiveSlots, ExactQueue, PTL DEF PoolExact

-----------------------------------------------------------------------------
(* DecodeBatcher                                                           *)
(* There is one leader at a time, running says so, and only a leader past  *)
(* its drain has jobs.  A leader that died in a panic leads forever, which *)
(* is what keeps its peers from using the pointer of a row it left queued. *)
Leads(l) == row[l] \in Leading \cup {"dead"}

OneLeader ==
    /\ \A l \in SlotIndices : Leads(l) => running
    /\ \A l, k \in SlotIndices : Leads(l) /\ Leads(k) => l = k
    /\ \A l \in SlotIndices : batch[l] # {} => row[l] \in {"decoding", "installing"}

(* A row is in one place: queued and not forwarded, in a batch and         *)
(* forwarded, or answered and forwarded.                                   *)
RowPlace ==
    \A s \in SlotIndices :
        /\ s \in queue => row[s] # "idle" /\ forwards[s] = 0 /\ result[s] = NoResult
        /\ \A l \in SlotIndices : s \in batch[l] => forwards[s] = 1
        /\ result[s] # NoResult => forwards[s] = 1 /\ row[s] # "idle"
        /\ forwards[s] <= 1

BatcherInv == BatcherTypeOK /\ PointersLive /\ OneLeader /\ RowPlace

USE BatcherAssumption DEF BatcherAssumption

LEMMA BatcherStarts == BatcherInit => BatcherInv
<1> SUFFICES ASSUME BatcherInit PROVE BatcherInv
    BY Zenon
<1>1. running \in BOOLEAN
    BY Zenon DEF BatcherInit
<1>2. BatcherTypeOK
    BY Zenon, <1>1 DEF BatcherInit, BatcherTypeOK, RowStages
<1>3. PointersLive /\ OneLeader /\ RowPlace
    BY DEF BatcherInit, PointersLive, OneLeader, Leads, RowPlace, Leading
<1> QED BY Zenon, <1>2, <1>3 DEF BatcherInv

LEMMA CandidatesQueued == Candidates \subseteq queue
    BY Zenon DEF Candidates

LEMMA BatcherSteps == ASSUME BatcherInv, NEW s \in SlotIndices, Submit(s) \/ InDecode(s) \/ Panic(s)
                 PROVE  BatcherInv'
<1> USE DEF BatcherInv
<1>1. CASE Submit(s)
  <2>1. BatcherTypeOK'
    BY Zenon, <1>1 DEF Submit, BatcherTypeOK, Moves, RowStages, Blocked
  <2>2. OneLeader'
    BY <1>1 DEF Submit, BatcherTypeOK, Moves, OneLeader, Leads, Leading
  <2>3. \A l \in SlotIndices : s \notin batch[l]
    BY Zenon, <1>1 DEF Submit, PointersLive, Blocked, Leading
  <2>4. PointersLive' /\ RowPlace'
    BY <1>1, <2>3 DEF Submit, BatcherTypeOK, Moves, PointersLive, RowPlace, Blocked
  <2> QED BY Zenon, <2>1, <2>2, <2>4
<1>2. CASE TakeResult(s)
  <2>1. BatcherTypeOK'
    BY Zenon, <1>2 DEF TakeResult, BatcherTypeOK, Moves, RowStages
  <2>2. OneLeader'
    BY <1>2 DEF TakeResult, BatcherTypeOK, Moves, OneLeader, Leads, Leading
  <2>3. PointersLive' /\ RowPlace'
    BY <1>2 DEF TakeResult, BatcherTypeOK, Moves, PointersLive, RowPlace
  <2> QED BY Zenon, <2>1, <2>2, <2>3
<1>3. ASSUME NEW l \in {"poll", "elect"}, Moves(s, l), row[s] \in {"poll", "elect"},
             UNCHANGED <<running, last, queue, result, batch, outcome, forwards, skipped>>
      PROVE  BatcherInv'
  <2>1. BatcherTypeOK'
    BY Zenon, <1>3 DEF BatcherTypeOK, Moves, RowStages, Blocked
  <2>2. OneLeader'
    BY <1>3 DEF BatcherTypeOK, Moves, OneLeader, Leads, Leading
  <2>3. PointersLive' /\ RowPlace'
    BY <1>3 DEF BatcherTypeOK, Moves, PointersLive, RowPlace, Blocked
  <2> QED BY Zenon, <2>1, <2>2, <2>3
<1>4. CASE NotYet(s) \/ Wait(s)
    BY Zenon, <1>3, <1>4 DEF NotYet, Wait
<1>5. CASE Elect(s)
  <2>1. running' \in BOOLEAN /\ running'
    BY Zenon, <1>5, Zenon DEF Elect
  <2>2. BatcherTypeOK'
    BY Zenon, <1>5, <2>1 DEF Elect, BatcherTypeOK, Moves, RowStages, Blocked, Leading
  <2>3. OneLeader'
    BY <1>5, <2>1 DEF Elect, BatcherTypeOK, Moves, OneLeader, Leads, Leading
  <2>4. PointersLive' /\ RowPlace'
    BY <1>5 DEF Elect, BatcherTypeOK, Moves, PointersLive, RowPlace, Blocked, Leading
  <2> QED BY Zenon, <2>2, <2>3, <2>4
<1>6. CASE Drain(s)
  <2> DEFINE C == Candidates
  <2>1. C \subseteq queue
    BY Zenon, CandidatesQueued
  <2> HIDE DEF C
  <2>2. /\ row[s] = "gather"
        /\ batch' = [batch EXCEPT ![s] = C]
        /\ queue' = queue \ C
        /\ forwards' = [u \in SlotIndices |-> forwards[u] + (IF u \in C THEN 1 ELSE 0)]
        /\ skipped' = [u \in SlotIndices |-> skipped[u] + (IF u \in queue \ C THEN 1 ELSE 0)]
        /\ row' = [row EXCEPT ![s] = IF C = {} THEN "installing" ELSE "decoding"]
        /\ UNCHANGED <<running, result, outcome>>
    BY Zenon, <1>6 DEF Drain, C, Moves
  <2>3. last' \in SlotIndices \cup {NoIndex}
    BY Zenon, <1>6, CandidatesQueued DEF Drain, BatcherTypeOK
  <2>4. BatcherTypeOK'
    BY <2>1, <2>2, <2>3 DEF BatcherTypeOK, RowStages, Blocked, Leading
  <2>5. \A l \in SlotIndices : batch[l] = {}
    BY Zenon, <2>2 DEF OneLeader, Leads, Leading
  <2>6. OneLeader'
    BY <2>2, <2>5 DEF BatcherTypeOK, OneLeader, Leads, Leading
  <2>7. \A u \in C : row[u] \in Blocked
    BY <2>1, <2>2 DEF BatcherTypeOK, RowPlace, OneLeader, Leads, RowStages, Blocked, Leading
  <2>8. PointersLive' /\ RowPlace'
    BY <2>1, <2>2, <2>5, <2>7 DEF BatcherTypeOK, PointersLive, RowPlace, Blocked, Leading
  <2> QED BY Zenon, <2>4, <2>6, <2>8
<1>7. ASSUME NEW o \in Outcomes, Decode(s, o) PROVE BatcherInv'
  <2>1. BatcherTypeOK'
    BY Zenon, <1>7 DEF Decode, BatcherTypeOK, Moves, RowStages, Blocked, Leading
  <2>2. OneLeader'
    BY <1>7 DEF Decode, BatcherTypeOK, Moves, OneLeader, Leads, Leading
  <2>3. PointersLive' /\ RowPlace'
    BY <1>7 DEF Decode, BatcherTypeOK, Moves, PointersLive, RowPlace, Blocked, Leading
  <2> QED BY Zenon, <2>1, <2>2, <2>3
<1>8. ASSUME NEW u \in SlotIndices, Install(s, u) PROVE BatcherInv'
  <2>1. BatcherTypeOK'
    BY Zenon, <1>8 DEF Install, BatcherTypeOK
  <2>2. OneLeader'
    BY <1>8 DEF Install, BatcherTypeOK, OneLeader, Leads, Leading
  <2>3. PointersLive'
    BY <1>8 DEF Install, BatcherTypeOK, PointersLive
  <2>4. RowPlace'
    BY <1>8 DEF Install, BatcherTypeOK, PointersLive, RowPlace, Blocked, Leading
  <2> QED BY Zenon, <2>1, <2>2, <2>3, <2>4
<1>9. CASE Finish(s)
  <2>1. running' \in BOOLEAN
    BY Zenon, <1>9, Zenon DEF Finish
  <2>2. BatcherTypeOK'
    BY Zenon, <1>9, <2>1 DEF Finish, BatcherTypeOK, Moves, RowStages, Blocked
  <2>3. OneLeader'
    BY <1>9 DEF Finish, BatcherTypeOK, Moves, OneLeader, Leads, Leading
  <2>4. PointersLive' /\ RowPlace'
    BY <1>9 DEF Finish, BatcherTypeOK, Moves, PointersLive, RowPlace, Blocked
  <2> QED BY Zenon, <2>2, <2>3, <2>4
<1>10. CASE Panic(s)
  <2>1. BatcherTypeOK'
    BY Zenon, <1>10 DEF Panic, BatcherTypeOK, Moves, RowStages
  <2>2. OneLeader'
    BY <1>10 DEF Panic, BatcherTypeOK, Moves, OneLeader, Leads, Leading
  <2>3. \A l \in SlotIndices : batch'[l] = {}
    BY <1>10 DEF Panic, BatcherTypeOK, OneLeader, Leads, Leading
  <2>4. PointersLive' /\ RowPlace'
    BY <1>10, <2>3 DEF Panic, BatcherTypeOK, Moves, PointersLive, RowPlace
  <2> QED BY Zenon, <2>1, <2>2, <2>4
<1> QED BY Zenon, <1>1, <1>2, <1>4, <1>5, <1>6, <1>7, <1>8, <1>9, <1>10 DEF InDecode

LEMMA BatcherInvariance == BatcherSpec => []BatcherInv
<1>1. BatcherInv /\ [BatcherNext]_batcherVars => BatcherInv'
  <2>1. ASSUME BatcherInv, BatcherNext PROVE BatcherInv'
    BY Zenon, <2>1, BatcherSteps DEF BatcherNext
  <2>2. ASSUME BatcherInv, UNCHANGED batcherVars PROVE BatcherInv'
    BY Zenon, <2>2 DEF BatcherInv, BatcherTypeOK, PointersLive, OneLeader, Leads, RowPlace, batcherVars
  <2> QED BY Zenon, <2>1, <2>2
<1> QED BY BatcherStarts, <1>1, PTL DEF BatcherSpec

(* The SAFETY comments of run_one_batch hold for any number of slots and   *)
(* any width: a Session dereferenced by a leader belongs to a request that *)
(* is still blocked in decode, and to no other batch.                      *)
THEOREM SafePointers == BatcherSpec => []PointersLive
<1>1. BatcherInv => PointersLive
    BY Zenon DEF BatcherInv
<1> QED BY <1>1, BatcherInvariance, PTL

(* run_one_batch never forwards a row twice, and an installed result is    *)
(* the result of exactly one forward.                                      *)
THEOREM OneForward == BatcherSpec => []ForwardedOnce
<1>1. BatcherInv => ForwardedOnce
    BY Zenon DEF BatcherInv, RowPlace, ForwardedOnce
<1> QED BY <1>1, BatcherInvariance, PTL

-----------------------------------------------------------------------------
(* Fairness of the rotation.  Ahead(s) are the slots that decode_rotation_key *)
(* puts before s, queued or not.  Every batch that leaves s behind is full   *)
(* and consists of slots ahead of s, and afterwards they are behind it.      *)
Ahead(s) == {u \in SlotIndices : Before(u, s)}

RotationInv ==
    \A s \in SlotIndices :
        /\ s \in queue => skipped[s] * Width + Cardinality(Ahead(s))
                              <= Cardinality(SlotIndices) - 1
        /\ skipped[s] * Width <= Cardinality(SlotIndices) - 1

(* A nonempty set of natural numbers has a least element.                  *)
LEMMA NatLeast ==
    ASSUME NEW T \in SUBSET Nat, T # {}
    PROVE  \E x \in T : \A y \in T : x <= y
<1>1. PICK x \in T : \A y \in T : ~ (<<y, x>> \in OpToRel(<, Nat))
    BY Zenon, NatLessThanWellFounded, WFMin
<1>2. ASSUME NEW y \in T PROVE x <= y
  <2>1. ~(y < x)
    BY Zenon, <1>1, <1>2 DEF OpToRel
  <2> QED BY <2>1
<1> QED BY Zenon, <1>2

(* decode_rotation_key orders the slots totally.                           *)
LEMMA RotationOrder ==
    ASSUME BatcherTypeOK
    PROVE  /\ \A a \in SlotIndices : ~Before(a, a)
           /\ \A a, b \in SlotIndices : a = b \/ Before(a, b) \/ Before(b, a)
           /\ \A a, b, c \in SlotIndices : Before(a, b) /\ Before(b, c) => Before(a, c)
<1>1. CASE last = NoIndex
    BY <1>1 DEF Before
<1>2. CASE last \in SlotIndices
    BY <1>2 DEF Before
<1> QED BY Zenon, <1>1, <1>2 DEF BatcherTypeOK

LEMMA QueueFinite ==
    ASSUME BatcherTypeOK, NEW S \in SUBSET SlotIndices
    PROVE  IsFiniteSet(S) /\ Cardinality(S) \in Nat
    BY Zenon, FS_Subset, FS_CardinalityType

(* The first in rotation order of a set of slots.                          *)
LEMMA RotationFirst ==
    ASSUME BatcherTypeOK, NEW T \in SUBSET SlotIndices, T # {}
    PROVE  \E m \in T : \A u \in T : ~Before(u, m)
<1>1. CASE last = NoIndex
  <2>1. PICK m \in T : \A u \in T : m <= u
    BY Zenon, NatLeast
  <2> QED BY <1>1, <2>1 DEF Before
<1>2. CASE last \in SlotIndices
  <2> DEFINE U == {u \in T : u > last}
  <2>1. CASE U # {}
    <3>1. PICK m \in U : \A u \in U : m <= u
        BY Zenon, <2>1, NatLeast
    <3>2. ASSUME NEW u \in T PROVE ~Before(u, m)
        BY <1>2, <3>1, <3>2 DEF Before
    <3> QED BY Zenon, <3>2
  <2>2. CASE U = {}
    <3>1. PICK m \in T : \A u \in T : m <= u
        BY Zenon, NatLeast
    <3>2. \A u \in T : u <= last
        BY <1>2, <2>2
    <3> QED BY <1>2, <3>1, <3>2 DEF Before
  <2> QED BY Zenon, <2>1, <2>2
<1> QED BY Zenon, <1>1, <1>2 DEF BatcherTypeOK

(* A drain that leaves s behind takes a full batch, all of it ahead of s:   *)
(* the rows before the first one that stays queued fill the batch already.  *)
LEMMA FullBatch ==
    ASSUME BatcherTypeOK, NEW s \in queue \ Candidates
    PROVE  /\ Width <= Cardinality(Candidates)
           /\ \A c \in Candidates : Before(c, s)
<1> DEFINE Rank(x) == {u \in queue : Before(u, x)}
<1>0. queue \subseteq SlotIndices /\ Candidates \subseteq queue
    BY Zenon, CandidatesQueued DEF BatcherTypeOK
<1>1. PICK m \in queue \ Candidates : \A u \in queue \ Candidates : ~Before(u, m)
    BY Zenon, <1>0, RotationFirst
<1>2. Rank(m) \subseteq Candidates
    BY Zenon, <1>1
<1>3. ASSUME NEW x \in queue \ Candidates PROVE Width <= Cardinality(Rank(x))
    BY <1>0, <1>3, QueueFinite DEF Candidates
<1>4. Cardinality(Rank(m)) <= Cardinality(Candidates)
    BY Zenon, <1>0, <1>2, QueueFinite, FS_Subset
<1>5. ASSUME NEW c \in Candidates, ~Before(c, s) PROVE FALSE
  <2>1. Before(s, c)
    BY Zenon, <1>0, <1>5, RotationOrder
  <2>2. Rank(s) \subseteq Rank(c)
    BY Zenon, <1>0, <2>1, RotationOrder
  <2>3. Cardinality(Rank(s)) <= Cardinality(Rank(c))
    BY Zenon, <1>0, <2>2, QueueFinite, FS_Subset
  <2>4. Cardinality(Rank(c)) < Width
    BY Zenon DEF Candidates
  <2> QED BY <1>0, <1>3, <2>3, <2>4, QueueFinite
<1> QED BY <1>0, <1>1, <1>3, <1>4, <1>5, QueueFinite

(* After that drain the rotation starts behind the batch, and who is ahead  *)
(* of s was ahead of it before and was not served.                          *)
LEMMA Rotated ==
    ASSUME BatcherTypeOK, NEW s \in queue \ Candidates,
           NEW u \in Candidates, LastOf(u), last' = u
    PROVE  Ahead(s)' \subseteq Ahead(s) \ Candidates
<1>0. queue \subseteq SlotIndices /\ Candidates \subseteq queue
    BY Zenon, CandidatesQueued DEF BatcherTypeOK
<1>1. Before(u, s)
    BY Zenon, FullBatch
<1>2. ASSUME NEW a \in SlotIndices, Before(a, s)' PROVE Before(a, s) /\ Before(u, a)
  <2>1. CASE last = NoIndex
    BY <1>0, <1>1, <1>2, <2>1 DEF Before
  <2>2. CASE last \in SlotIndices
    BY <1>0, <1>1, <1>2, <2>2 DEF Before
  <2> QED BY Zenon, <2>1, <2>2 DEF BatcherTypeOK
<1>3. \A c \in Candidates : ~Before(u, c)
    BY Zenon DEF LastOf
<1> QED BY Zenon, <1>2, <1>3 DEF Ahead

LEMMA Overtaken ==
    ASSUME BatcherTypeOK, NEW s \in queue \ Candidates,
           NEW u \in Candidates, LastOf(u), last' = u
    PROVE  Cardinality(Ahead(s)') + Width <= Cardinality(Ahead(s))
<1>0. queue \subseteq SlotIndices /\ Candidates \subseteq queue
    BY Zenon, CandidatesQueued DEF BatcherTypeOK
<1>1. Candidates \subseteq Ahead(s) /\ Ahead(s) \subseteq SlotIndices
    BY Zenon, <1>0, FullBatch DEF Ahead
<1>2. Cardinality(Ahead(s) \ Candidates) = Cardinality(Ahead(s)) - Cardinality(Candidates)
  <2>1. Ahead(s) \cap Candidates = Candidates
    BY Zenon, <1>1
  <2> QED BY Zenon, <1>1, <2>1, QueueFinite, FS_Difference
<1>3. Cardinality(Ahead(s)') <= Cardinality(Ahead(s) \ Candidates)
    BY Zenon, <1>1, Rotated, QueueFinite, FS_Subset
<1>4. /\ Cardinality(Ahead(s)') \in Nat
      /\ Cardinality(Ahead(s)) \in Nat
      /\ Cardinality(Candidates) \in Nat
  <2>1. Ahead(s)' \subseteq SlotIndices
    BY Zenon, <1>1, Rotated
  <2> QED BY Zenon, <1>0, <1>1, <2>1, QueueFinite
<1> QED BY <1>2, <1>3, <1>4, FullBatch

LEMMA InitRotation == BatcherInit => RotationInv
<1> SUFFICES ASSUME BatcherInit, NEW s \in SlotIndices
             PROVE  skipped[s] * Width <= Cardinality(SlotIndices) - 1
    BY Zenon DEF RotationInv, BatcherInit
<1>1. Cardinality(SlotIndices) \in Nat /\ Cardinality(SlotIndices) # 0
    BY Zenon, FS_CardinalityType, FS_EmptySet
<1> QED BY <1>1 DEF BatcherInit

(* Whoever joins the queue has every other slot ahead of it, at worst.     *)
LEMMA Joins ==
    ASSUME BatcherTypeOK, NEW s \in SlotIndices
    PROVE  Cardinality(Ahead(s)) <= Cardinality(SlotIndices) - 1
<1>1. Ahead(s) \subseteq SlotIndices \ {s}
    BY Zenon, RotationOrder DEF Ahead
<1>2. /\ IsFiniteSet(SlotIndices \ {s})
      /\ Cardinality(SlotIndices \ {s}) = Cardinality(SlotIndices) - 1
    BY Zenon, FS_RemoveElement
<1> QED BY <1>1, <1>2, FS_Subset

LEMMA SubmitRotation ==
    ASSUME BatcherInv, RotationInv, NEW s \in SlotIndices, Submit(s)
    PROVE  RotationInv'
<1> SUFFICES ASSUME NEW t \in SlotIndices
             PROVE  /\ t \in queue' => skipped'[t] * Width + Cardinality(Ahead(t))
                                          <= Cardinality(SlotIndices) - 1
                    /\ skipped'[t] * Width <= Cardinality(SlotIndices) - 1
  <2>1. \A v \in SlotIndices : Ahead(v)' = Ahead(v)
    BY Zenon DEF Submit, Ahead, Before
  <2> QED BY Zenon, <2>1 DEF RotationInv
<1>1. Cardinality(SlotIndices) \in Nat /\ Cardinality(SlotIndices) # 0
    BY Zenon, FS_CardinalityType, FS_EmptySet
<1>2. Cardinality(Ahead(t)) \in Nat /\ Cardinality(Ahead(t)) <= Cardinality(SlotIndices) - 1
    BY Zenon, Joins, QueueFinite DEF BatcherInv, Ahead
<1>3. CASE t = s
    BY <1>1, <1>2, <1>3 DEF Submit, BatcherInv, BatcherTypeOK
<1>4. CASE t # s
    BY Zenon, <1>4 DEF Submit, BatcherInv, BatcherTypeOK, RotationInv
<1> QED BY Zenon, <1>3, <1>4

LEMMA DrainRotation ==
    ASSUME BatcherInv, RotationInv, NEW s \in SlotIndices, Drain(s)
    PROVE  RotationInv'
<1>0. queue \subseteq SlotIndices /\ Candidates \subseteq queue /\ skipped \in [SlotIndices -> Nat]
    BY Zenon, CandidatesQueued DEF BatcherInv, BatcherTypeOK
<1>1. ASSUME NEW t \in queue \ Candidates
      PROVE  skipped'[t] * Width + Cardinality(Ahead(t)') <= Cardinality(SlotIndices) - 1
  <2>0. Candidates # {}
    <3>1. Width <= Cardinality(Candidates)
        BY Zenon, FullBatch DEF BatcherInv
    <3>2. Cardinality({}) = 0
        BY Zenon, FS_EmptySet
    <3> QED BY <3>1, <3>2
  <2>1. PICK u \in Candidates : LastOf(u) /\ last' = u
    BY Zenon, <2>0 DEF Drain
  <2>2. Cardinality(Ahead(t)') + Width <= Cardinality(Ahead(t))
    BY Zenon, <2>1, Overtaken DEF BatcherInv
  <2>3. skipped'[t] = skipped[t] + 1
    BY Zenon, <1>0, <1>1 DEF Drain
  <2>4. skipped[t] * Width + Cardinality(Ahead(t)) <= Cardinality(SlotIndices) - 1
    BY Zenon, <1>0, <1>1 DEF RotationInv
  <2>5. /\ Cardinality(Ahead(t)) \in Nat /\ Cardinality(Ahead(t)') \in Nat
        /\ Cardinality(SlotIndices) \in Nat /\ skipped[t] \in Nat
    <3>1. Ahead(t) \subseteq SlotIndices /\ Ahead(t)' \subseteq SlotIndices
        BY Zenon DEF Ahead
    <3> QED BY Zenon, <1>0, <3>1, QueueFinite DEF BatcherInv
  <2>6. (skipped[t] + 1) * Width = skipped[t] * Width + Width
    BY <2>5
  <2> HIDE DEF Ahead
  <2> QED BY <2>2, <2>3, <2>4, <2>5, <2>6
<1>2. ASSUME NEW t \in SlotIndices, t \notin queue \ Candidates
      PROVE  skipped'[t] = skipped[t]
    BY <1>0, <1>2 DEF Drain
<1>3. ASSUME NEW t \in queue \ Candidates
      PROVE  skipped'[t] * Width <= Cardinality(SlotIndices) - 1
  <2>1. /\ Cardinality(Ahead(t)') \in Nat /\ Cardinality(SlotIndices) \in Nat
        /\ skipped'[t] \in Nat
    <3>1. Ahead(t)' \subseteq SlotIndices
        BY Zenon DEF Ahead
    <3> QED BY <1>0, <3>1, QueueFinite DEF BatcherInv, Drain
  <2> QED BY <1>1, <2>1
<1>4. queue' = queue \ Candidates
    BY Zenon DEF Drain
<1> QED BY Zenon, <1>0, <1>1, <1>2, <1>3, <1>4 DEF RotationInv

LEMMA StepRotation == ASSUME BatcherInv, RotationInv, BatcherNext PROVE RotationInv'
<1>1. ASSUME UNCHANGED <<last, queue, skipped>> PROVE RotationInv'
  <2>1. \A t \in SlotIndices : Ahead(t)' = Ahead(t)
    BY Zenon, <1>1 DEF Ahead, Before
  <2> QED BY Zenon, <1>1, <2>1 DEF RotationInv
<1>2. ASSUME NEW s \in SlotIndices, Submit(s) \/ Drain(s) PROVE RotationInv'
    BY Zenon, <1>2, SubmitRotation, DrainRotation
<1>3. ASSUME NEW s \in SlotIndices, InDecode(s) \/ Panic(s), ~Drain(s)
      PROVE  UNCHANGED <<last, queue, skipped>>
    BY Zenon, <1>3 DEF InDecode, TakeResult, NotYet, Elect, Wait, Decode, Install, Finish, Panic
<1> QED BY Zenon, <1>1, <1>2, <1>3 DEF BatcherNext

LEMMA DivBound ==
    ASSUME NEW a \in Nat, NEW n \in Nat, NEW w \in Nat \ {0}, a * w <= n
    PROVE  a <= n \div w
    OBVIOUS

(* No queued row is left behind more often than the other slots fill       *)
(* batches: the rotation key of run_one_batch starves nobody.              *)
THEOREM FairRotation == BatcherSpec => []BoundedSkip
<1>1. BatcherInv /\ RotationInv /\ [BatcherNext]_batcherVars => RotationInv'
  <2>1. ASSUME RotationInv, UNCHANGED batcherVars PROVE RotationInv'
    <3>1. \A t \in SlotIndices : Ahead(t)' = Ahead(t)
        BY Zenon, <2>1 DEF batcherVars, Ahead, Before
    <3> QED BY Zenon, <2>1, <3>1 DEF batcherVars, RotationInv
  <2> QED BY Zenon, <2>1, StepRotation
<1>2. BatcherInv /\ RotationInv => BoundedSkip
  <2> SUFFICES ASSUME BatcherInv, RotationInv, NEW s \in SlotIndices
               PROVE  skipped[s] <= (Cardinality(SlotIndices) - 1) \div Width
    BY Zenon DEF BoundedSkip
  <2>1. Cardinality(SlotIndices) - 1 \in Nat
    BY FS_CardinalityType, FS_EmptySet
  <2>2. skipped[s] \in Nat /\ skipped[s] * Width <= Cardinality(SlotIndices) - 1
    BY Zenon DEF BatcherInv, BatcherTypeOK, RotationInv
  <2> QED BY Zenon, <2>1, <2>2, DivBound
<1> QED BY <1>1, <1>2, InitRotation, BatcherInvariance, PTL DEF BatcherSpec
=============================================================================
