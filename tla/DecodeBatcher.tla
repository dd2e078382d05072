--------------------------- MODULE DecodeBatcher ----------------------------
(***************************************************************************)
(* DecodeBatcher: requests that each own a resident slot submit one decode *)
(* row at a time.  Whichever of them finds no batch running becomes the    *)
(* leader, drains the queue in rotation order and runs the model forward   *)
(* on everybody's sessions through raw pointers, then leaves each row's    *)
(* result for its owner.                                                   *)
(*                                                                         *)
(* A slot stands for the request that owns it (SlotPool's OwnedOnce).  The *)
(* rotation order is total on slots and a slot queues one row, so queue    *)
(* and batch are sets.  The coalescing wait of the leader and the          *)
(* one-millisecond wait of the others only pass time.                      *)
(***************************************************************************)
EXTENDS Naturals, FiniteSets

CONSTANTS SlotIndices, \* resident slots
          Width,       \* rows of one packed forward: 4 in the source
          Outcomes,    \* how a model forward ends here
          NoIndex, NoResult

ASSUME BatcherAssumption ==
    /\ SlotIndices \subseteq Nat
    /\ IsFiniteSet(SlotIndices)
    /\ Width \in Nat \ {0}
    /\ Outcomes \subseteq {"ok", "err"}
    /\ NoIndex \notin SlotIndices
    /\ NoResult \notin {"ok", "err"}

VARIABLES running,  \* DecodeBatchState.running
          last,     \* DecodeBatchState.last_slot
          queue,    \* slots with a row in DecodeBatchState.queue
          result,   \* DecodeJob.result of the slot's current row
          row,
          batch,    \* a leader's local jobs whose result is not installed yet
          outcome,  \* what a leader's forward returned
          forwards, \* history: forwards the slot's current row took part in
          skipped   \* history: batches that left the slot's queued row behind

batcherVars == <<running, last, queue, result, row, batch, outcome, forwards, skipped>>

Leading == {"gather", "decoding", "installing"}
Blocked == Leading \cup {"poll", "elect"}  \* inside decode
RowStages == Blocked \cup {"idle", "dead"}

BatcherTypeOK ==
    /\ running \in BOOLEAN
    /\ last \in SlotIndices \cup {NoIndex}
    /\ queue \subseteq SlotIndices
    /\ result \in [SlotIndices -> {"ok", "err", NoResult}]
    /\ row \in [SlotIndices -> RowStages]
    /\ batch \in [SlotIndices -> SUBSET SlotIndices]
    /\ outcome \in [SlotIndices -> {"ok", "err", NoResult}]
    /\ forwards \in [SlotIndices -> Nat]
    /\ skipped \in [SlotIndices -> Nat]

BatcherInit ==
    /\ running = FALSE
    /\ last = NoIndex
    /\ queue = {}
    /\ result = [s \in SlotIndices |-> NoResult]
    /\ row = [s \in SlotIndices |-> "idle"]
    /\ batch = [s \in SlotIndices |-> {}]
    /\ outcome = [s \in SlotIndices |-> NoResult]
    /\ forwards = [s \in SlotIndices |-> 0]
    /\ skipped = [s \in SlotIndices |-> 0]

Moves(s, l) == row' = [row EXCEPT ![s] = l]

(* mutant: slots in index order, wherever the last batch stopped           *)
BeforeByIndex(a, b) == a < b

(* decode_rotation_key: slots after the last one served come first.        *)
Before(a, b) ==
    LET wrapped(s) == last # NoIndex /\ s <= last
    IN  IF wrapped(a) = wrapped(b) THEN a < b ELSE wrapped(b)

Candidates == {s \in queue : Cardinality({u \in queue : Before(u, s)}) < Width}

LastOf(u) == \A v \in Candidates : ~Before(u, v)

(* A slot has no other row queued, so decode accepts this one.             *)
Submit(s) ==
    /\ row[s] = "idle"
    /\ s \notin queue
    /\ queue' = queue \cup {s}
    /\ result' = [result EXCEPT ![s] = NoResult]
    /\ forwards' = [forwards EXCEPT ![s] = 0]
    /\ skipped' = [skipped EXCEPT ![s] = 0]
    /\ Moves(s, "poll")
    /\ UNCHANGED <<running, last, batch, outcome>>

TakeResult(s) ==
    /\ row[s] = "poll"
    /\ result[s] # NoResult
    /\ result' = [result EXCEPT ![s] = NoResult]
    /\ Moves(s, "idle")
    /\ UNCHANGED <<running, last, queue, batch, outcome, forwards, skipped>>

NotYet(s) ==
    /\ row[s] = "poll"
    /\ result[s] = NoResult
    /\ Moves(s, "elect")
    /\ UNCHANGED <<running, last, queue, result, batch, outcome, forwards, skipped>>

Elect(s) ==
    /\ row[s] = "elect"
    /\ ~running
    /\ running' = TRUE
    /\ Moves(s, "gather")
    /\ UNCHANGED <<last, queue, result, batch, outcome, forwards, skipped>>

(* mutant: the bounded wait reports a timeout to the caller               *)
WaitGivesUp(s) ==
    /\ row[s] = "elect"
    /\ running
    /\ Moves(s, "idle")
    /\ UNCHANGED <<running, last, queue, result, batch, outcome, forwards, skipped>>

Wait(s) ==
    /\ row[s] = "elect"
    /\ running
    /\ Moves(s, "poll")
    /\ UNCHANGED <<running, last, queue, result, batch, outcome, forwards, skipped>>

(* run_one_batch up to the forward: the queue is drained, sorted and split *)
(* at Width; what remains goes back.  An empty drain has nothing to run.   *)
Drain(s) ==
    /\ row[s] = "gather"
    /\ batch' = [batch EXCEPT ![s] = Candidates]
    /\ queue' = queue \ Candidates
    /\ \/ last' = last /\ Candidates = {}
       \/ \E u \in Candidates : LastOf(u) /\ last' = u
    /\ forwards' = [u \in SlotIndices |-> forwards[u] + (IF u \in Candidates THEN 1 ELSE 0)]
    /\ skipped' = [u \in SlotIndices |-> skipped[u] + (IF u \in queue \ Candidates THEN 1 ELSE 0)]
    /\ Moves(s, IF Candidates = {} THEN "installing" ELSE "decoding")
    /\ UNCHANGED <<running, result, outcome>>

(* Session::decode or decode_group returns: one outcome for every row.     *)
Decode(s, o) ==
    /\ row[s] = "decoding"
    /\ outcome' = [outcome EXCEPT ![s] = o]
    /\ Moves(s, "installing")
    /\ UNCHANGED <<running, last, queue, result, batch, forwards, skipped>>

(* The forward panics: the leader's stack, its job list included, unwinds. *)
Panic(s) ==
    /\ row[s] = "decoding"
    /\ batch' = [batch EXCEPT ![s] = {}]
    /\ Moves(s, "dead")
    /\ UNCHANGED <<running, last, queue, result, outcome, forwards, skipped>>

(* mutant: one row's answer is dropped with the end of the batch           *)
InstallLosing(s, u) ==
    /\ row[s] = "installing"
    /\ u \in batch[s]
    /\ result' = [result EXCEPT ![u] = outcome[s]]
    /\ batch' = [batch EXCEPT ![s] = {}]
    /\ UNCHANGED <<running, last, queue, row, outcome, forwards, skipped>>

(* One row's owner gets its result; it may return and submit its next row  *)
(* before the others get theirs.                                           *)
Install(s, u) ==
    /\ row[s] = "installing"
    /\ u \in batch[s]
    /\ result' = [result EXCEPT ![u] = outcome[s]]
    /\ batch' = [batch EXCEPT ![s] = @ \ {u}]
    /\ UNCHANGED <<running, last, queue, row, outcome, forwards, skipped>>

Finish(s) ==
    /\ row[s] = "installing"
    /\ batch[s] = {}
    /\ running' = FALSE
    /\ outcome' = [outcome EXCEPT ![s] = NoResult]
    /\ Moves(s, "poll")
    /\ UNCHANGED <<last, queue, result, batch, forwards, skipped>>

(* What a request does once it is inside decode.                           *)
InDecode(s) ==
    \/ TakeResult(s) \/ NotYet(s) \/ Elect(s) \/ Wait(s) \/ Drain(s)
    \/ \E o \in Outcomes : Decode(s, o)
    \/ \E u \in SlotIndices : Install(s, u)
    \/ Finish(s)

BatcherNext == \E s \in SlotIndices : Submit(s) \/ InDecode(s) \/ Panic(s)

BatcherSpec == BatcherInit /\ [][BatcherNext]_batcherVars

(* The source loops with timed waits and takes locks that are always       *)
(* released, so a request inside decode keeps taking steps.                *)
BatcherFairSpec == BatcherSpec /\ \A s \in SlotIndices : WF_batcherVars(InDecode(s))

-----------------------------------------------------------------------------
(* The SAFETY comments of run_one_batch: every session a leader uses       *)
(* belongs to a request that is still inside decode and has no result yet, *)
(* no other leader uses it, and it is not queued a second time.  A         *)
(* violation would be two mutable references to one Session.               *)
PointersLive ==
    \A l, s \in SlotIndices :
        s \in batch[l] =>
            /\ row[s] \in Blocked
            /\ result[s] = NoResult
            /\ s \notin queue
            /\ \A k \in SlotIndices \ {l} : s \notin batch[k]

(* A token is consumed by the model once: the row of a request inside      *)
(* decode is still queued and was not forwarded, or was forwarded once.    *)
ForwardedOnce ==
    \A s \in SlotIndices :
        /\ row[s] \in Blocked /\ s \in queue => forwards[s] = 0
        /\ forwards[s] <= 1
        /\ result[s] # NoResult => forwards[s] = 1

(* The rotation of decode_rotation_key: with more rows than a batch holds, *)
(* no row is left behind for longer than the others take to go round.      *)
BoundedSkip ==
    \A s \in SlotIndices :
        row[s] \in Blocked => skipped[s] <= (Cardinality(SlotIndices) - 1) \div Width

(* As long as the engine never panics, every decode call returns: no row   *)
(* is left without a leader and none waits behind the others for ever.     *)
DecodeEnds ==
    [](\A s \in SlotIndices : row[s] # "dead")
        => \A s \in SlotIndices : (row[s] \in Blocked) ~> (row[s] = "idle")

(* lock_recoveries: "One engine panic costs one request, never the         *)
(* process": a request either ends with the panic or goes on and returns.  *)
PanicCostsOne ==
    \A s \in SlotIndices : (row[s] \in Blocked) ~> (row[s] \in {"idle", "dead"})
=============================================================================
