---------------------------- MODULE KvpackStore ----------------------------
(***************************************************************************)
(* The catalog and the object directory of a kvpack LocalStore              *)
(* (third_party/kvpack/crates/kvpack/src/store), for one tenant and one key *)
(* epoch.  Every catalog operation is one SQLite transaction under the      *)
(* catalog mutex, so it is one step here; files are written, moved and      *)
(* unlinked outside the transactions, so each file operation is a step of   *)
(* its own.  The actors are one writer per idempotency key (a local         *)
(* ArtifactWriter or the client of an authenticated import), a collector    *)
(* (evict_manifest_one, gc_chunk_batch), a demoter                          *)
(* (demote_fidelity_one_rung), a reader that pins one object at a time and  *)
(* the owner of one source lease.                                           *)
(*                                                                          *)
(* A chunk object is <<content, salt>>: chunk_id names the content, and     *)
(* the object key of a locally encoded chunk is salted at random, so each   *)
(* local encoding is a new object; an import brings the objects its         *)
(* manifest names (salt 0).  chunks is keyed by content, because            *)
(* UNIQUE(tenant, chunk_id, key_epoch) lets one object of a content be      *)
(* cataloged at a time.  An object and a manifest each weigh one byte.      *)
(***************************************************************************)
EXTENDS Integers, Sequences, FiniteSets, Functions

CONSTANTS
    LocalKeys,      \* idempotency keys of local publications
    ImportKeys,     \* idempotency keys of authenticated imports
    Chunks,         \* chunk contents (chunk_id)
    Content,        \* [Keys -> Seq(Chunks)]: what each publication holds
    ManifestOf,     \* [Keys -> manifest ids]
    Deployments,    \* sets of the optional users of the store that run together:
                    \* "demote", "pin", "lease"
    Quota,          \* quota_bytes
    StagingQuota,   \* staging_quota_bytes
    MaxSalt,        \* bound on local encodings of chunks
    MaxBegins,      \* bound on reservations
    MaxCrashes      \* bound on process deaths

Keys == LocalKeys \cup ImportKeys

ASSUME KvpackAssumption ==
    /\ IsFiniteSet(Keys)
    /\ Content \in [Keys -> Seq(Chunks)]
    /\ MaxSalt \in Nat

Manifests == {ManifestOf[k] : k \in Keys}
Objects == Chunks \X (0 .. MaxSalt)

NoRow == [st |-> "ABSENT", salt |-> 0, ref |-> 0, rung |-> 0]
NoManifest == [loc |-> "ABSENT", objs |-> {}]
NoObject == <<>>
Pack(m) == <<m>>    \* a manifest as a file and as a tombstoned object

VARIABLES
    uploads,    \* [Keys -> [st, ledger]]: uploads and upload_chunks
    chunks,     \* [Chunks -> row]: chunks and their locations
    manifests,  \* [Manifests -> row]: manifests, locations, manifest_chunks
    prefix,     \* the manifests that prefix_checkpoints names
    tombstones, \* the tombstoned objects and manifests
    files,      \* objects and manifests present under object_root
    tenant,     \* [durable, reserved]: the tenants row
    lease,      \* [st, live, kept, mid, objs]: one source lease (kept: a history
                \* flag, TRUE while the lease has protected its objects throughout)
    leaked,     \* objects pinned by processes that died
    writer,     \* [Keys -> [pc, refs, obj, new]]
    collector,  \* [pc, todo, moved]
    demoter,    \* [pc, victims]
    reader,     \* [pc, obj]
    deployed,   \* the optional users of this store
    salts,      \* the local encodings so far
    begins,     \* the reservations so far
    crashes     \* the process deaths so far

catalog == <<uploads, chunks, manifests, prefix, tombstones, tenant, lease, leaked>>
vars == <<uploads, chunks, manifests, prefix, tombstones, files, tenant, lease,
          leaked, writer, collector, demoter, reader, deployed, salts, begins, crashes>>

IdleWriter == [pc |-> "idle", refs |-> <<>>, obj |-> NoObject, new |-> FALSE]
IdleCollector == [pc |-> "idle", todo |-> {}, moved |-> {}]
IdleDemoter == [pc |-> "idle", victims |-> {}]
IdleReader == [pc |-> "idle", obj |-> NoObject]

Init ==
    /\ uploads = [k \in Keys |-> [st |-> "none", ledger |-> <<>>]]
    /\ chunks = [c \in Chunks |-> NoRow]
    /\ manifests = [m \in Manifests |-> NoManifest]
    /\ prefix = {}
    /\ tombstones = {}
    /\ files = {}
    /\ tenant = [durable |-> 0, reserved |-> 0]
    /\ lease = [st |-> "none", live |-> FALSE, kept |-> FALSE, mid |-> "none", objs |-> {}]
    /\ leaked = {}
    /\ writer = [k \in Keys |-> IdleWriter]
    /\ collector = IdleCollector
    /\ demoter = IdleDemoter
    /\ reader = IdleReader
    /\ deployed \in Deployments
    /\ salts = 0
    /\ begins = 0
    /\ crashes = 0

----------------------------------------------------------------------------
(* The catalog's queries. *)

RowOf(o) == chunks[o[1]]
HasRow(o) == RowOf(o).st # "ABSENT" /\ RowOf(o).salt = o[2]

\* find_chunk, pin_chunk_rows and acquire_source_lease serve the same rows.
Readable(o) == HasRow(o) /\ RowOf(o).st = "AVAILABLE" /\ o \notin tombstones

\* What resolve_prefix_candidates_inner returns.
Resolvable(m) == m \in prefix /\ manifests[m].loc = "AVAILABLE" /\ Pack(m) \notin tombstones

InFlight == {k \in Keys : uploads[k].st \in {"RECEIVING", "VERIFIED"}}
Expected(k) == Len(Content[k]) + 1

LeaseHolds == lease.st = "UNCERTAIN" \/ (lease.st = "ACTIVE" /\ lease.live)
Pinned == leaked \cup (IF reader.pc = "idle" THEN {} ELSE {reader.obj})
Held == Pinned \cup (IF LeaseHolds THEN lease.objs ELSE {})

Less(a, b) == IF a > b THEN a - b ELSE 0

----------------------------------------------------------------------------
(* Publication: reserve_upload, put_chunk, publish_manifest, abort_upload.   *)

SetWriter(k, w) == writer' = [writer EXCEPT ![k] = w]

\* A reservation is a new row, or RE_INIT of an ABORTED one, within both
\* quotas; the same declaration of a live row joins it.  mark_receiving follows.
Reserved(k) ==
    IF uploads[k].st \in {"none", "ABORTED"}
    THEN /\ tenant.reserved + Expected(k) <= StagingQuota
         /\ tenant.durable + tenant.reserved + Expected(k) <= Quota
         /\ uploads' = [uploads EXCEPT ![k] = [st |-> "RECEIVING", ledger |-> <<>>]]
         /\ tenant' = [tenant EXCEPT !.reserved = @ + Expected(k)]
    ELSE /\ uploads[k].st = "RECEIVING"
         /\ UNCHANGED <<uploads, tenant>>

Begin(k) ==
    /\ writer[k].pc = "idle" /\ begins < MaxBegins
    /\ begins' = begins + 1
    /\ Reserved(k)
    \* a local writer starts over; an import resumes at its durable cursor
    /\ SetWriter(k, [IdleWriter EXCEPT !.pc = "put", !.refs = uploads'[k].ledger])
    /\ UNCHANGED <<chunks, manifests, prefix, tombstones, files, lease, leaked,
                   collector, demoter, reader, salts, crashes>>

NextContent(k) == Content[k][Len(writer[k].refs) + 1]
Putting(k) == writer[k].pc = "put" /\ Len(writer[k].refs) < Len(Content[k])

\* A local chunk whose content is already served is not written again.
PutDeduplicated(k) ==
    LET c == NextContent(k)
        o == <<c, chunks[c].salt>> IN
    /\ k \in LocalKeys /\ Putting(k) /\ Readable(o)
    /\ SetWriter(k, [writer[k] EXCEPT !.refs = Append(@, o)])
    /\ UNCHANGED <<catalog, files, collector, demoter, reader, salts, begins, crashes>>

\* A local chunk is encoded as a fresh object and linked into place.
PutEncoded(k) ==
    LET c == NextContent(k)
        o == <<c, salts + 1>> IN
    /\ k \in LocalKeys /\ Putting(k) /\ ~Readable(<<c, chunks[c].salt>>)
    /\ salts < MaxSalt
    /\ salts' = salts + 1
    /\ files' = files \cup {o}
    /\ SetWriter(k, [writer[k] EXCEPT !.pc = "catalog", !.obj = o, !.new = TRUE])
    /\ UNCHANGED <<catalog, collector, demoter, reader, begins, crashes>>

\* An imported chunk is the object its staged manifest names; write_immutable
\* verifies one that is already there instead of replacing it.
PutImported(k) ==
    LET o == <<NextContent(k), 0>> IN
    /\ k \in ImportKeys /\ Putting(k)
    /\ files' = files \cup {o}
    /\ SetWriter(k, [writer[k] EXCEPT !.pc = "catalog", !.obj = o, !.new = o \notin files])
    /\ UNCHANGED <<catalog, collector, demoter, reader, salts, begins, crashes>>

\* INSERT OR IGNORE of the chunk row, then the canonical row of the content.
\* The loser of a race quarantines the file it linked.  An import records its
\* own object in the ledger and advances the cursor in the same transaction,
\* and fails afterwards when the canonical object is another one; the retry
\* finds the ledger row and goes on.
CatalogChunk(k) ==
    LET o == writer[k].obj
        free == RowOf(o).st = "ABSENT"
        canonical == IF free THEN o ELSE <<o[1], RowOf(o).salt>>
        ref == IF k \in ImportKeys THEN o ELSE canonical IN
    /\ writer[k].pc = "catalog"
    /\ k \in ImportKeys => uploads[k].st = "RECEIVING"
    /\ chunks' = IF free
                 THEN [chunks EXCEPT ![o[1]] = [st |-> "AVAILABLE", salt |-> o[2],
                                                ref |-> 0, rung |-> 0]]
                 ELSE chunks
    /\ uploads' = IF k \in ImportKeys THEN [uploads EXCEPT ![k].ledger = Append(@, o)]
                  ELSE uploads
    /\ files' = IF canonical # o /\ writer[k].new THEN files \ {o} ELSE files
    /\ SetWriter(k, [IdleWriter EXCEPT !.pc = "put", !.refs = Append(writer[k].refs, ref)])
    /\ UNCHANGED <<manifests, prefix, tombstones, tenant, lease, leaked, collector,
                   demoter, reader, salts, begins, crashes>>

\* A sealed import that lost its client is committed without beginning again.
Recommit(k) ==
    /\ k \in ImportKeys /\ writer[k].pc = "idle" /\ uploads[k].st = "VERIFIED"
    /\ SetWriter(k, [IdleWriter EXCEPT !.pc = "put", !.refs = uploads[k].ledger])
    /\ UNCHANGED <<catalog, files, collector, demoter, reader, salts, begins, crashes>>

\* The manifest file is linked before the catalog transaction; an import is
\* sealed (VERIFIED) first.
WriteManifest(k) ==
    /\ writer[k].pc = "put" /\ Len(writer[k].refs) = Len(Content[k])
    /\ uploads[k].st \in {"RECEIVING", "VERIFIED"}
    /\ uploads' = IF k \in ImportKeys THEN [uploads EXCEPT ![k].st = "VERIFIED"] ELSE uploads
    /\ files' = files \cup {Pack(ManifestOf[k])}
    /\ SetWriter(k, [writer[k] EXCEPT !.pc = "publish"])
    /\ UNCHANGED <<chunks, manifests, prefix, tombstones, tenant, lease, leaked,
                   collector, demoter, reader, salts, begins, crashes>>

\* What the publication adds to durable_bytes: its new manifest row, and every
\* chunk that nothing referenced.
ActualBytes(k, objs) ==
    IF manifests[ManifestOf[k]].loc # "ABSENT" THEN 0
    ELSE 1 + Cardinality({o \in objs : RowOf(o).ref = 0})

\* Mutant of RowsAvailable: any row of the content will do.
RowsPresent(objs) == \A o \in objs : RowOf(o).st # "ABSENT"

\* Every referenced chunk must have its own row, and that row be AVAILABLE.
RowsAvailable(objs) == \A o \in objs : HasRow(o) /\ RowOf(o).st = "AVAILABLE"

\* publish_manifest_batch_inner: a manifest row that exists is only made
\* AVAILABLE again; a new one needs every chunk row AVAILABLE (tombstones are
\* not consulted) and takes one reference on each.
PublishTx(k) ==
    LET m == ManifestOf[k]
        objs == Range(writer[k].refs)
        existing == manifests[m].loc # "ABSENT" IN
    /\ writer[k].pc = "publish"
    /\ uploads[k].st \in {"RECEIVING", "VERIFIED"}
    /\ existing \/ RowsAvailable(objs)
    /\ ActualBytes(k, objs) <= Expected(k)
    /\ manifests' = [manifests EXCEPT ![m] =
           [loc |-> "AVAILABLE", objs |-> IF existing THEN @.objs ELSE objs]]
    /\ chunks' = IF existing THEN chunks
                 ELSE [c \in Chunks |->
                          IF \E o \in objs : o[1] = c
                          THEN [chunks[c] EXCEPT !.ref = @ + 1] ELSE chunks[c]]
    /\ prefix' = prefix \cup {m}
    /\ tenant' = [durable |-> tenant.durable + ActualBytes(k, objs),
                  reserved |-> Less(tenant.reserved, Expected(k))]
    /\ uploads' = [uploads EXCEPT ![k].st = "PUBLISHED"]
    /\ SetWriter(k, IdleWriter)
    /\ UNCHANGED <<tombstones, files, lease, leaked, collector, demoter, reader,
                   salts, begins, crashes>>

\* abort_upload: a writer that fails or is dropped gives its reservation back;
\* a PUBLISHED or QUARANTINED row is left alone, and cataloged chunks stay.
Abort(k) ==
    /\ writer[k].pc # "idle"
    /\ IF k \in InFlight
       THEN /\ uploads' = [uploads EXCEPT ![k].st = "ABORTED"]
            /\ tenant' = [tenant EXCEPT !.reserved = Less(@, Expected(k))]
       ELSE UNCHANGED <<uploads, tenant>>
    /\ SetWriter(k, IdleWriter)
    /\ UNCHANGED <<chunks, manifests, prefix, tombstones, files, lease, leaked,
                   collector, demoter, reader, salts, begins, crashes>>

\* Mutant of Quarantine: the reservation is kept.
QuarantineKeeps(k) ==
    /\ k \in ImportKeys /\ uploads[k].st \in {"RECEIVING", "VERIFIED"}
    /\ uploads' = [uploads EXCEPT ![k].st = "QUARANTINED"]
    /\ UNCHANGED <<chunks, manifests, prefix, tombstones, files, tenant, lease, leaked,
                   writer, collector, demoter, reader, salts, begins, crashes>>

\* quarantine_authenticated_import, by an operator: like an abort, but the key
\* is never reserved again.
Quarantine(k) ==
    /\ k \in ImportKeys /\ uploads[k].st \in {"RECEIVING", "VERIFIED"}
    /\ uploads' = [uploads EXCEPT ![k].st = "QUARANTINED"]
    /\ tenant' = [tenant EXCEPT !.reserved = Less(@, Expected(k))]
    /\ UNCHANGED <<chunks, manifests, prefix, tombstones, files, lease, leaked, writer,
                   collector, demoter, reader, salts, begins, crashes>>

\* delete_prefix: the manifest is no longer found, and stays until it is evicted.
DeletePrefix(m) ==
    /\ m \in prefix
    /\ prefix' = prefix \ {m}
    /\ UNCHANGED <<uploads, chunks, manifests, tombstones, files, tenant, lease, leaked,
                   writer, collector, demoter, reader, salts, begins, crashes>>

----------------------------------------------------------------------------
(* Collection: gc/eviction.rs. *)

SetCollector(pc, todo, moved) ==
    collector' = [pc |-> pc, todo |-> todo, moved |-> moved]

\* EVICT_MANIFEST_SQL: an available manifest that no lease names, whose chunks
\* nobody holds, while no upload is in flight.
Evictable(m) ==
    /\ manifests[m].loc = "AVAILABLE"
    /\ ~(LeaseHolds /\ lease.mid = m)
    /\ manifests[m].objs \cap Held = {}
    /\ InFlight = {}

EvictManifest(m) ==
    /\ collector.pc = "idle" /\ Evictable(m)
    /\ tombstones' = tombstones \cup {Pack(m)}
    /\ prefix' = prefix \ {m}
    /\ manifests' = [manifests EXCEPT ![m] = [loc |-> "EVICTING", objs |-> {}]]
    /\ chunks' = [c \in Chunks |->
                     IF \E o \in manifests[m].objs : o[1] = c
                     THEN [chunks[c] EXCEPT !.ref = Less(@, 1)] ELSE chunks[c]]
    /\ SetCollector("unlink", {m}, {})
    /\ UNCHANGED <<uploads, files, tenant, lease, leaked, writer, demoter, reader,
                   salts, begins, crashes>>

\* finish_manifest_eviction: move and unlink the file, then delete the row.
UnlinkManifest(m) ==
    /\ collector.pc = "unlink" /\ m \in collector.todo
    /\ files' = files \ {Pack(m)}
    /\ SetCollector("delete", {m}, {})
    /\ UNCHANGED <<catalog, writer, demoter, reader, salts, begins, crashes>>

DeleteManifest(m) ==
    /\ collector.pc = "delete" /\ m \in collector.todo
    /\ manifests' = [manifests EXCEPT ![m] = NoManifest]
    /\ tenant' = IF manifests[m].loc = "ABSENT" THEN tenant
                 ELSE [tenant EXCEPT !.durable = Less(@, 1)]
    /\ SetCollector("idle", {}, {})
    /\ UNCHANGED <<uploads, chunks, prefix, tombstones, files, lease, leaked, writer,
                   demoter, reader, salts, begins, crashes>>

\* Mutant of Collectable: pins and leases are not consulted.
CollectableUnheld(c) ==
    /\ chunks[c].ref = 0 /\ chunks[c].st \in {"AVAILABLE", "TOMBSTONED"}
    /\ InFlight = {}

\* GC_CHUNK_BATCH_SQL: unreferenced rows nobody holds, while no upload is in flight.
Collectable(c) ==
    /\ chunks[c].ref = 0 /\ chunks[c].st \in {"AVAILABLE", "TOMBSTONED"}
    /\ <<c, chunks[c].salt>> \notin Held
    /\ InFlight = {}

\* Victims are tombstoned and marked EVICTING in one transaction; whether each
\* was already TOMBSTONED is remembered for the accounting.
SelectChunks(V) ==
    /\ collector.pc = "idle" /\ V # {} /\ \A c \in V : Collectable(c)
    /\ tombstones' = tombstones \cup {<<c, chunks[c].salt>> : c \in V}
    /\ chunks' = [c \in Chunks |-> IF c \in V THEN [chunks[c] EXCEPT !.st = "EVICTING"]
                                   ELSE chunks[c]]
    /\ SetCollector("move", {<<c, chunks[c].salt, chunks[c].st = "TOMBSTONED">> : c \in V}, {})
    /\ UNCHANGED <<uploads, manifests, prefix, files, tenant, lease, leaked, writer,
                   demoter, reader, salts, begins, crashes>>

MoveChunk(v) ==
    LET o == <<v[1], v[2]>> IN
    /\ collector.pc = "move" /\ v \in collector.todo
    /\ HasRow(o) /\ RowOf(o).ref = 0 /\ RowOf(o).st = "EVICTING"
    /\ files' = files \ {o}
    /\ SetCollector("move", collector.todo \ {v}, collector.moved \cup {v})
    /\ UNCHANGED <<catalog, writer, demoter, reader, salts, begins, crashes>>

\* The rows of the moved victims go in one more transaction; a row demotion had
\* emptied releases no bytes.
DeleteChunks ==
    LET gone == {v \in collector.moved : HasRow(<<v[1], v[2]>>) /\ chunks[v[1]].ref = 0}
    IN
    /\ collector.pc = "move" /\ collector.todo = {}
    /\ chunks' = [c \in Chunks |-> IF \E v \in gone : v[1] = c THEN NoRow ELSE chunks[c]]
    /\ tenant' = [tenant EXCEPT !.durable = Less(@, Cardinality({v \in gone : ~v[3]}))]
    /\ SetCollector("idle", {}, {})
    /\ UNCHANGED <<uploads, manifests, prefix, tombstones, files, lease, leaked, writer,
                   demoter, reader, salts, begins, crashes>>

\* The audit outbox is full: the last transaction is refused, and the victims
\* stay EVICTING without their files until the store is opened again.
CollectorBusy ==
    /\ (collector.pc = "move" /\ collector.todo = {}) \/ collector.pc = "delete"
    /\ SetCollector("idle", {}, {})
    /\ UNCHANGED <<catalog, files, writer, demoter, reader, salts, begins, crashes>>

----------------------------------------------------------------------------
(* Fidelity demotion: gc/demotion.rs. *)

Demotable(c) ==
    /\ chunks[c].st = "AVAILABLE" /\ chunks[c].rung < 2
    /\ <<c, chunks[c].salt>> \notin Held
    /\ InFlight = {}

SelectDemotion(V) ==
    /\ "demote" \in deployed /\ demoter.pc = "idle" /\ V # {} /\ \A c \in V : Demotable(c)
    /\ demoter' = [pc |-> "demote",
                   victims |-> {<<c, chunks[c].salt, chunks[c].rung>> : c \in V}]
    /\ UNCHANGED <<catalog, files, writer, collector, reader, salts, begins, crashes>>

\* The transaction re-checks the rung and the location, and nothing else.
DemoteTx ==
    LET hit == {v \in demoter.victims :
                  /\ HasRow(<<v[1], v[2]>>)
                  /\ chunks[v[1]].rung = v[3] /\ chunks[v[1]].st = "AVAILABLE"} IN
    /\ demoter.pc = "demote"
    /\ chunks' = [c \in Chunks |->
                     IF \E v \in hit : v[1] = c
                     THEN [chunks[c] EXCEPT !.rung = @ + 1,
                              !.st = IF chunks[c].rung = 1 THEN "TOMBSTONED" ELSE @]
                     ELSE chunks[c]]
    /\ tenant' = [tenant EXCEPT !.durable = Less(@, Cardinality({v \in hit : v[3] = 1}))]
    /\ demoter' = [demoter EXCEPT !.pc = "unlink"]
    /\ UNCHANGED <<uploads, manifests, prefix, tombstones, files, lease, leaked, writer,
                   collector, reader, salts, begins, crashes>>

\* Every victim that was selected on rung 1 loses its file, whether or not the
\* transaction moved it.
DemoteUnlink ==
    /\ demoter.pc = "unlink"
    /\ files' = files \ {<<v[1], v[2]>> : v \in {x \in demoter.victims : x[3] = 1}}
    /\ demoter' = IdleDemoter
    /\ UNCHANGED <<catalog, writer, collector, reader, salts, begins, crashes>>

----------------------------------------------------------------------------
(* Readers: read/pins.rs and the source leases of remote.rs. *)

Pin(o) ==
    /\ "pin" \in deployed /\ reader.pc = "idle" /\ Readable(o)
    /\ reader' = [pc |-> "pinned", obj |-> o]
    /\ UNCHANGED <<catalog, files, writer, collector, demoter, salts, begins, crashes>>

\* open_chunk_file: the open descriptor keeps the bytes from then on.  A missing
\* file is an error that releases the pin.
Open ==
    /\ reader.pc = "pinned"
    /\ reader' = IF reader.obj \in files THEN [reader EXCEPT !.pc = "open"] ELSE IdleReader
    /\ UNCHANGED <<catalog, files, writer, collector, demoter, salts, begins, crashes>>

Unpin ==
    /\ reader.pc = "open"
    /\ reader' = IdleReader
    /\ UNCHANGED <<catalog, files, writer, collector, demoter, salts, begins, crashes>>

NonLease == <<uploads, chunks, manifests, prefix, tombstones, files, tenant, leaked,
              writer, collector, demoter, reader, salts, begins, crashes>>

AcquireLease(m) ==
    /\ "lease" \in deployed /\ lease.st = "none"
    /\ manifests[m].loc # "ABSENT" /\ Pack(m) \notin tombstones /\ Pack(m) \in files
    /\ \A o \in manifests[m].objs : Readable(o)
    /\ lease' = [st |-> "ACTIVE", live |-> TRUE, kept |-> TRUE, mid |-> m,
                 objs |-> manifests[m].objs]
    /\ UNCHANGED NonLease

ReattachLease ==
    /\ lease.st \in {"ACTIVE", "UNCERTAIN"}
    /\ lease' = [lease EXCEPT !.st = "ACTIVE", !.live = TRUE]
    /\ UNCHANGED NonLease

LeaseExpires ==
    /\ lease.st \in {"ACTIVE", "UNCERTAIN"} /\ lease.live
    /\ lease' = [lease EXCEPT !.live = FALSE, !.kept = @ /\ lease.st = "UNCERTAIN"]
    /\ UNCHANGED NonLease

\* release_source_lease by the owner; release_uncertain_source_lease by an operator.
ReleaseLease ==
    /\ lease.st \in {"ACTIVE", "UNCERTAIN"}
    /\ lease' = [lease EXCEPT !.st = "RELEASED", !.kept = FALSE]
    /\ UNCHANGED NonLease

----------------------------------------------------------------------------
(* The process dies and the store is opened again: active leases become      *)
(* uncertain and every eviction in progress is finished (reconcile_evictions).*)
(* Nothing releases the pins or the uploads of the dead process.             *)

Evicting == {c \in Chunks : chunks[c].st = "EVICTING"}
EvictingManifests == {m \in Manifests : manifests[m].loc = "EVICTING"}

CrashReopen ==
    /\ crashes < MaxCrashes
    /\ crashes' = crashes + 1
    /\ writer' = [k \in Keys |-> IdleWriter]
    /\ collector' = IdleCollector
    /\ demoter' = IdleDemoter
    /\ reader' = IdleReader
    /\ leaked' = Pinned
    /\ lease' = IF lease.st = "ACTIVE" THEN [lease EXCEPT !.st = "UNCERTAIN"] ELSE lease
    /\ files' = (files \ {Pack(m) : m \in EvictingManifests}) \ {<<c, chunks[c].salt>> : c \in Evicting}
    /\ manifests' = [m \in Manifests |->
                        IF m \in EvictingManifests THEN NoManifest ELSE manifests[m]]
    /\ chunks' = [c \in Chunks |-> IF c \in Evicting THEN NoRow ELSE chunks[c]]
    /\ tenant' = [tenant EXCEPT !.durable =
                     Less(Less(@, Cardinality(EvictingManifests)),
                          Cardinality({c \in Evicting : chunks[c].rung # 2}))]
    /\ UNCHANGED <<uploads, prefix, tombstones, salts, begins>>

----------------------------------------------------------------------------
Publication ==
    \E k \in Keys :
        \/ Begin(k) \/ PutDeduplicated(k) \/ PutEncoded(k) \/ PutImported(k)
        \/ CatalogChunk(k) \/ Recommit(k) \/ WriteManifest(k) \/ PublishTx(k) \/ Abort(k)
        \/ Quarantine(k)

Collection ==
    \/ \E m \in Manifests : DeletePrefix(m)
    \/ \E m \in Manifests : EvictManifest(m) \/ UnlinkManifest(m) \/ DeleteManifest(m)
    \/ \E V \in SUBSET Chunks : SelectChunks(V)
    \/ \E v \in collector.todo : collector.pc = "move" /\ MoveChunk(v)
    \/ DeleteChunks \/ CollectorBusy

Demotion == (\E V \in SUBSET Chunks : SelectDemotion(V)) \/ DemoteTx \/ DemoteUnlink

Reading ==
    \/ \E o \in Objects : Pin(o)
    \/ Open \/ Unpin
    \/ \E m \in Manifests : AcquireLease(m)
    \/ ReattachLease \/ LeaseExpires \/ ReleaseLease

Next == Publication \/ Collection \/ Demotion \/ Reading \/ CrashReopen

Spec == Init /\ [][Next /\ UNCHANGED deployed]_vars

----------------------------------------------------------------------------
(* Properties. *)

\* Whatever the catalog offers to readers is on disk: a chunk row that find_chunk
\* or a pin would serve, and a manifest that a prefix lookup would return.
ReadableHasFile ==
    /\ \A o \in Objects : Readable(o) => o \in files
    /\ \A m \in Manifests : Resolvable(m) => Pack(m) \in files

\* The reference counts are exact and nothing that is referenced goes: refcount
\* is the number of manifests that name the chunk, and each chunk that a manifest
\* names keeps its row, whichever publications, aborts, evictions, collections and
\* restarts came before or raced.
RowsExact ==
    /\ \A c \in Chunks :
           chunks[c].ref = Cardinality({m \in Manifests :
                                           <<c, chunks[c].salt>> \in manifests[m].objs})
    /\ \A m \in Manifests : \A o \in manifests[m].objs :
           HasRow(o) /\ RowOf(o).st \in {"AVAILABLE", "TOMBSTONED"}

\* No collection takes an object under a pin, or under a source lease that has
\* not lapsed since it was acquired, restarts included.
HeldSurvive ==
    \A o \in Pinned \cup (IF lease.kept THEN lease.objs ELSE {}) :
        HasRow(o) /\ RowOf(o).st \in {"AVAILABLE", "TOMBSTONED"}

=============================================================================
