--------------------------- MODULE ResumableStream ---------------------------
(***************************************************************************)
(* The resumable SSE streams of one conversation id: the StreamManager's   *)
(* entry, the byte ring of every StreamSession ever registered, the        *)
(* generation that writes it, and the tasks of GET /v1/stream that replay  *)
(* it from an offset and then follow it.                                   *)
(*                                                                         *)
(* The k-th byte of a stream is the number k.  A state change and the      *)
(* notify_waiters() that follows it are two steps; notify_waiters() wakes  *)
(* only the tasks that are already waiting (tokio stores no permit).       *)
(***************************************************************************)
EXTENDS Naturals, Sequences

CONSTANTS Readers,     \* tasks of resumable_stream_get
          MaxSessions, \* bound: streams registered under the id
          MaxBytes,    \* MAX_STREAM_BYTES
          MaxFrame,    \* bound: bytes of one frame
          MaxTotal,    \* bound: bytes written to one stream
          NoSession

ASSUME StreamAssumption ==
    /\ MaxSessions \in Nat /\ MaxFrame \in Nat /\ MaxTotal \in Nat
    /\ MaxBytes \in Nat \ {0}
    /\ NoSession \notin Nat

Sessions == 1..MaxSessions
Ended == {"complete", "lost", "left"}

VARIABLES current,  \* StreamManager.sessions[id], or NoSession
          created,  \* number of sessions created
          bytes, dropped, total, done, cancelled, \* Inner of every session
          writing,  \* sessions whose finish guard is alive
          notify,   \* sessions changed and not yet notified
          reader, reads, from, offset, \* of every reader, and what it reads
          got       \* history: what the reader's client was sent

ring == <<bytes, dropped, total>>
flags == <<done, cancelled>>
readers == <<reads, from, offset, got>>
streamVars == <<current, created, ring, flags, writing, notify, reader, readers>>

StreamTypeOK ==
    /\ current \in Sessions \cup {NoSession} /\ created \in 0..MaxSessions
    /\ bytes \in [Sessions -> UNION {[1..n -> 1..MaxTotal] : n \in 0..MaxBytes}]
    /\ dropped \in [Sessions -> 0..MaxTotal] /\ total \in [Sessions -> 0..MaxTotal]
    /\ done \in [Sessions -> BOOLEAN] /\ cancelled \in [Sessions -> BOOLEAN]
    /\ writing \subseteq Sessions /\ notify \subseteq Sessions
    /\ reader \in [Readers -> {"idle", "read", "pending", "waiting"} \cup Ended]
    /\ reads \in [Readers -> Sessions \cup {NoSession}]
    /\ from \in [Readers -> 0..MaxTotal] /\ offset \in [Readers -> 0..MaxTotal]

StreamInit ==
    /\ current = NoSession /\ created = 0
    /\ bytes = [s \in Sessions |-> <<>>]
    /\ dropped = [s \in Sessions |-> 0] /\ total = [s \in Sessions |-> 0]
    /\ done = [s \in Sessions |-> FALSE] /\ cancelled = [s \in Sessions |-> FALSE]
    /\ writing = {} /\ notify = {}
    /\ reader = [r \in Readers |-> "idle"] /\ reads = [r \in Readers |-> NoSession]
    /\ from = [r \in Readers |-> 0] /\ offset = [r \in Readers |-> 0]
    /\ got = [r \in Readers |-> <<>>]

-----------------------------------------------------------------------------
(* gc: a completed stream may be past COMPLETED_TTL; c is what is left.    *)
Gc(c) == c = current \/ (c = NoSession /\ current # NoSession /\ done[current])

(* cancel(), of session s or of none                                       *)
Cancel(s) ==
    /\ done' = [t \in Sessions |-> t = s \/ done[t]]
    /\ cancelled' = [t \in Sessions |-> t = s \/ cancelled[t]]
    /\ notify' = notify \cup ({s} \cap Sessions)

(* create_or_replace, and the generation that is spawned with it.          *)
CreateOrReplace ==
    /\ created < MaxSessions
    /\ \E previous \in Sessions \cup {NoSession} : Gc(previous) /\ Cancel(previous)
    /\ created' = created + 1
    /\ current' = created + 1
    /\ writing' = writing \cup {created + 1}
    /\ UNCHANGED <<ring, reader, readers>>

EvictAndCancel ==
    /\ current # NoSession
    /\ Cancel(current)
    /\ current' = NoSession
    /\ UNCHANGED <<created, ring, writing, reader, readers>>

Lookup ==
    /\ current # NoSession
    /\ Gc(NoSession) /\ current' = NoSession
    /\ UNCHANGED <<created, ring, flags, writing, notify, reader, readers>>

-----------------------------------------------------------------------------
(* The ring after the n bytes that follow the total of session s.          *)
Frame(s, n) == [i \in 1..n |-> total[s] + i]
Last(seq, n) == SubSeq(seq, Len(seq) - n + 1, Len(seq))
Excess(s, n) == IF Len(bytes[s]) + n > MaxBytes THEN Len(bytes[s]) + n - MaxBytes ELSE 0

PushFrame(s, n) ==
    IF n >= MaxBytes
    THEN /\ dropped' = [dropped EXCEPT ![s] = total[s] + n - MaxBytes]
         /\ bytes' = [bytes EXCEPT ![s] = Last(Frame(s, n), MaxBytes)]
    ELSE /\ dropped' = [dropped EXCEPT ![s] = @ + Excess(s, n)]
         /\ bytes' = [bytes EXCEPT ![s] = SubSeq(@, Excess(s, n) + 1, Len(@)) \o Frame(s, n)]

(* append; a stream that is done or cancelled refuses, and the generation  *)
(* ends by Finish.                                                         *)
AppendFrame(s, n) ==
    /\ s \in writing /\ ~done[s] /\ ~cancelled[s]
    /\ total[s] + n <= MaxTotal
    /\ total' = [total EXCEPT ![s] = @ + n]
    /\ PushFrame(s, n)
    /\ notify' = notify \cup {s}
    /\ UNCHANGED <<current, created, flags, writing, reader, readers>>

(* The generation ends, in whatever way: the guard is dropped.             *)
Finish(s) ==
    /\ s \in writing
    /\ writing' = writing \ {s}
    /\ done' = [done EXCEPT ![s] = TRUE]
    /\ notify' = notify \cup {s}
    /\ UNCHANGED <<current, created, ring, cancelled, reader, readers>>

NotifyWaiters(s) ==
    /\ s \in notify
    /\ notify' = notify \ {s}
    /\ reader' = [r \in Readers |-> IF reader[r] = "waiting" /\ reads[r] = s THEN "read" ELSE reader[r]]
    /\ UNCHANGED <<current, created, ring, flags, writing, readers>>

-----------------------------------------------------------------------------
(* resumable_stream_get up to the spawn; an offset that is lost already is *)
(* refused.                                                                *)
Get(r, o) ==
    /\ reader[r] = "idle"
    /\ \E c \in Sessions \cup {NoSession} :
          /\ Gc(c) /\ c # NoSession
          /\ current' = c
          /\ o >= dropped[c]
          /\ reads' = [reads EXCEPT ![r] = c]
    /\ from' = [from EXCEPT ![r] = o] /\ offset' = [offset EXCEPT ![r] = o]
    /\ reader' = [reader EXCEPT ![r] = "read"]
    /\ UNCHANGED <<created, ring, flags, writing, notify, got>>

(* snapshot(o)                                                             *)
Lost(s, o) == o < dropped[s]
End(s) == dropped[s] + Len(bytes[s])

(* mutant: the offset is taken for an index of the ring                    *)
DataByOffset(s, o) == IF o < End(s) THEN SubSeq(bytes[s], o + 1, Len(bytes[s])) ELSE <<>>

Data(s, o) == IF o < End(s) THEN SubSeq(bytes[s], o - dropped[s] + 1, Len(bytes[s])) ELSE <<>>

(* One round of the task's loop; the client may be gone when data is sent. *)
Read(r) ==
    LET s == reads[r] o == offset[r] IN
    /\ reader[r] = "read"
    /\ \/ /\ Lost(s, o)
          /\ reader' = [reader EXCEPT ![r] = "lost"]
          /\ UNCHANGED <<offset, got>>
       \/ /\ ~Lost(s, o) /\ o < End(s)
          /\ offset' = [offset EXCEPT ![r] = @ + Len(Data(s, o))]
          /\ \/ got' = [got EXCEPT ![r] = @ \o Data(s, o)] /\ UNCHANGED reader
             \/ reader' = [reader EXCEPT ![r] = "left"] /\ UNCHANGED got
       \/ /\ ~Lost(s, o) /\ o >= End(s)
          /\ reader' = [reader EXCEPT ![r] = IF done[s] THEN "complete" ELSE "pending"]
          /\ UNCHANGED <<offset, got>>
    /\ UNCHANGED <<current, created, ring, flags, writing, notify, reads, from>>

(* changed(): the task is a waiter only from here on.                      *)
Changed(r) ==
    /\ reader[r] = "pending"
    /\ reader' = [reader EXCEPT ![r] = "waiting"]
    /\ UNCHANGED <<current, created, ring, flags, writing, notify, readers>>

StreamNext ==
    \/ CreateOrReplace \/ EvictAndCancel \/ Lookup
    \/ \E s \in Sessions :
          \/ \E n \in 1..MaxFrame : AppendFrame(s, n)
          \/ Finish(s) \/ NotifyWaiters(s)
    \/ \E r \in Readers :
          \/ \E o \in 0..MaxTotal : Get(r, o)
          \/ Read(r) \/ Changed(r)

StreamSpec == StreamInit /\ [][StreamNext]_streamVars

-----------------------------------------------------------------------------
(* A client is sent the bytes of one stream from the offset it asked for,  *)
(* in order, without a gap or a repetition, however the ring drops bytes   *)
(* and whatever replaces the stream meanwhile (append, snapshot and the    *)
(* loop of resumable_stream_get).                                          *)
Replay ==
    \A r \in Readers : reader[r] # "left" =>
        got[r] = [i \in 1..(offset[r] - from[r]) |-> from[r] + i]

(* One generation at a time writes to a conversation: a stream that is no  *)
(* longer registered takes no more bytes (create_or_replace and            *)
(* evict_and_cancel cancel it, gc drops only completed ones).              *)
OneProducer == \A s \in 1..created : s # current => done[s]

(* A client whose response ended without an error has everything the       *)
(* stream will ever hold after its offset: nothing is appended after Done. *)
CompleteAtEnd ==
    \A r \in Readers : reader[r] = "complete" => offset[r] >= total[reads[r]]

(* What resumable_stream_get promises its client: the bytes in order, none *)
(* missing or twice, and all of them when it says that the stream is over. *)
StreamExact == Replay /\ CompleteAtEnd
=============================================================================
