------------------------ MODULE AcceleratorScheduler ------------------------
(***************************************************************************)
(* The accelerator scheduler of the Metal executor (muser-engine/src/      *)
(* decode.rs): one permit for the shared command queue.  Every sequence's  *)
(* thread asks for it before a decode step or a prefill chunk; the leader  *)
(* of a packed decode asks once for all the sequences of its group.  The   *)
(* permit is a value that is dropped when the forward returns, with a      *)
(* result or with an error, so a release needs no action of its own for    *)
(* the two.                                                                *)
(*                                                                         *)
(* A waiter holds the mutex while it looks, and every release wakes all of *)
(* them; whichever locks first and finds itself eligible wins.             *)
(***************************************************************************)
EXTENDS Integers, FiniteSets, FiniteSetsExt

CONSTANTS
    Seqs,    \* resident sequence ids, 0..N-1
    Groups   \* the groups a packed decode may be formed of, none of them empty

VARIABLES
    active,   \* the permit is out
    decode_waiting,  \* sequences with a queued decode
    last_decode,     \* the last one served, -1 when there is none
    at,       \* what each sequence's thread is doing
    group,    \* the group being waited for or running, {} when there is none
    passed    \* history: grants to others since the sequence queued a decode

permitVars == <<active, decode_waiting, last_decode, at, group, passed>>

NoSeq == -1

PermitTypeOK ==
    /\ active \in BOOLEAN /\ decode_waiting \subseteq Seqs
    /\ last_decode \in Seqs \cup {NoSeq}
    /\ at \in [Seqs -> {"idle", "decode", "prefill", "grouped",
                        "decoding", "prefilling", "packed"}]
    /\ group \in Groups \cup {{}}
    /\ passed \in [Seqs -> [decodes : Nat, prefills : Nat]]

PermitInit ==
    /\ active = FALSE /\ decode_waiting = {} /\ last_decode = NoSeq /\ group = {}
    /\ at = [s \in Seqs |-> "idle"]
    /\ passed = [s \in Seqs |-> [decodes |-> 0, prefills |-> 0]]

\* Mutant: the lowest waiting id, wherever the rotation stands.
SelectLowest == IF decode_waiting = {} THEN NoSeq ELSE Min(decode_waiting)

\* next_decode_sequence: the first waiting id after the last one served, else
\* the lowest.
Selected ==
    LET later == {s \in decode_waiting : s > last_decode} IN
    CASE decode_waiting = {} -> NoSeq
      [] later # {} -> Min(later)
      [] OTHER -> Min(decode_waiting)

Move(S, to) == at' = [s \in Seqs |-> IF s \in S THEN to ELSE at[s]]

\* Everybody who still waits has been passed by a grant of the given kind
\* (counted up to one more than there are sequences).
Pass(kind, left) ==
    passed' = [s \in Seqs |->
                  IF s \in left
                  THEN [passed[s] EXCEPT ![kind] = Min({@ + 1, Cardinality(Seqs) + 1})]
                  ELSE [decodes |-> 0, prefills |-> 0]]

\* acquire: queue a decode; a second one of the same sequence is refused.
QueueDecode(s) ==
    /\ at[s] = "idle" /\ s \notin decode_waiting
    /\ decode_waiting' = decode_waiting \cup {s}
    /\ Move({s}, "decode")
    /\ UNCHANGED <<active, last_decode, group, passed>>

GrantDecode(s) ==
    /\ at[s] = "decode" /\ ~active /\ Selected = s
    /\ active' = TRUE
    /\ decode_waiting' = decode_waiting \ {s}
    /\ last_decode' = s
    /\ Move({s}, "decoding")
    /\ Pass("decodes", decode_waiting')
    /\ UNCHANGED group

\* acquire_decode_group: all its ids are queued under one lock, or none when
\* one of them is queued already.
QueueGroup(g) ==
    /\ group = {} /\ \A s \in g : at[s] = "idle"
    /\ g \cap decode_waiting = {}
    /\ decode_waiting' = decode_waiting \cup g
    /\ group' = g
    /\ Move(g, "grouped")
    /\ UNCHANGED <<active, last_decode, passed>>

\* The members leave the queue in rotation order; the last of them is where
\* the rotation stands afterwards.
LastOfGroup(g) ==
    LET wrapped == {s \in g : last_decode # NoSeq /\ s <= last_decode} IN
    IF last_decode = NoSeq \/ wrapped = {} THEN Max(g) ELSE Max(wrapped)

GrantGroup ==
    /\ group # {} /\ group \subseteq decode_waiting /\ ~active
    /\ Selected \in group
    /\ active' = TRUE
    /\ decode_waiting' = decode_waiting \ group
    /\ last_decode' = LastOfGroup(group)
    /\ Move(group, "packed")
    /\ Pass("decodes", decode_waiting')
    /\ UNCHANGED group

\* A prefill chunk only waits until no decode does.
QueuePrefill(s) ==
    /\ at[s] = "idle"
    /\ Move({s}, "prefill")
    /\ UNCHANGED <<active, decode_waiting, last_decode, group, passed>>

\* Mutant: a prefill chunk takes the permit as soon as it is free.
GrantPrefillEager(s) ==
    /\ at[s] = "prefill" /\ ~active
    /\ active' = TRUE
    /\ Move({s}, "prefilling")
    /\ Pass("prefills", decode_waiting)
    /\ UNCHANGED <<decode_waiting, last_decode, group>>

GrantPrefill(s) ==
    /\ at[s] = "prefill" /\ ~active /\ Selected = NoSeq
    /\ active' = TRUE
    /\ Move({s}, "prefilling")
    /\ Pass("prefills", decode_waiting)
    /\ UNCHANGED <<decode_waiting, last_decode, group>>

Running == {s \in Seqs : at[s] \in {"decoding", "prefilling", "packed"}}

\* Drop for AcceleratorPermit.
Release ==
    /\ Running # {}
    /\ active' = FALSE
    /\ Move(Running, "idle")
    /\ group' = IF group \subseteq Running THEN {} ELSE group
    /\ UNCHANGED <<decode_waiting, last_decode, passed>>

PermitNext ==
    \/ \E s \in Seqs : \/ QueueDecode(s) \/ GrantDecode(s)
                       \/ QueuePrefill(s) \/ GrantPrefill(s)
    \/ \E g \in Groups : QueueGroup(g)
    \/ GrantGroup
    \/ Release

\* A forward ends (the completion wait has a deadline), and a woken waiter
\* that finds itself eligible takes the permit.
PermitFairness ==
    /\ WF_permitVars(Release) /\ WF_permitVars(GrantGroup)
    /\ \A s \in Seqs : WF_permitVars(GrantDecode(s))

PermitSpec == PermitInit /\ [][PermitNext]_permitVars /\ PermitFairness

-----------------------------------------------------------------------------
\* While a sequence waits for a decode no prefill chunk starts, and every
\* other sequence is served at most once before it: the rotation of
\* next_decode_sequence over everything that can be queued meanwhile.
BoundedOvertake ==
    \A s \in decode_waiting : /\ passed[s].prefills = 0
                       /\ passed[s].decodes < Cardinality(Seqs)

\* The permit has one holder: one thread, or the members of one group.
OneOwner ==
    /\ active <=> Running # {}
    /\ Cardinality(Running) > 1 => Running = group

\* A queued decode runs, however busy the other sequences keep the permit.
DecodeServed ==
    \A s \in Seqs : at[s] \in {"decode", "grouped"} ~> s \in Running
=============================================================================
