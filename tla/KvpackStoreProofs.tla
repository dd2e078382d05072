------------------------- MODULE KvpackStoreProofs -------------------------
(***************************************************************************)
(* What the kvpack LocalStore promises about the rows of its catalog, for   *)
(* any number of publications, contents, manifests, restarts and quotas:    *)
(* reference counts are exact, no collection takes a chunk that a manifest  *)
(* names, and none takes an object under a pin or an unlapsed source lease. *)
(***************************************************************************)
EXTENDS KvpackStore, FiniteSetTheorems, TLAPS

Object == Chunks \X Nat
Row == [st : {"ABSENT", "AVAILABLE", "TOMBSTONED", "EVICTING"},
        salt : Nat, ref : Nat, rung : Nat]
ManifestRow == [loc : {"ABSENT", "AVAILABLE", "EVICTING"}, objs : SUBSET Object]
Refs == Seq(Object)
Upload == [st : {"none", "RECEIVING", "VERIFIED", "PUBLISHED", "ABORTED", "QUARANTINED"},
           ledger : Refs]
Lease == [st : {"none", "ACTIVE", "UNCERTAIN", "RELEASED"}, live : BOOLEAN, kept : BOOLEAN,
          mid : Manifests \cup {"none"}, objs : SUBSET Object]

\* A writer holds objects; the one it is about to catalog is an object.
WriterOK(w) ==
    /\ w.refs \in Refs
    /\ w.pc = "catalog" => w.obj \in Object

RowTypes == chunks \in [Chunks -> Row] /\ manifests \in [Manifests -> ManifestRow]

WriterTypes ==
    /\ uploads \in [Keys -> Upload]
    /\ DOMAIN writer = Keys /\ \A k \in Keys : WriterOK(writer[k])
    /\ salts \in Nat

HolderTypes ==
    /\ lease \in Lease /\ leaked \subseteq Object
    /\ reader.pc # "idle" => reader.obj \in Object

KvTypes == RowTypes /\ WriterTypes /\ HolderTypes

\* A manifest that is not offered names no chunk.
Blank == \A m \in Manifests : manifests[m].loc # "AVAILABLE" => manifests[m].objs = {}

\* What the collector is removing: a manifest that names nothing any more, or
\* rows that are EVICTING from the selection on and that nothing else touches.
Victims ==
    /\ collector.pc \in {"unlink", "delete"} =>
           \A m \in collector.todo : m \in Manifests => /\ manifests[m].loc # "ABSENT"
                                                        /\ manifests[m].objs = {}
    /\ collector.pc = "move" =>
           \A v \in collector.todo \cup collector.moved :
               /\ v[1] \in Chunks
               /\ chunks[v[1]].salt = v[2] /\ chunks[v[1]].st = "EVICTING"

\* A lease that has protected its objects throughout still does.
KeptHolds == lease.kept => LeaseHolds

KvInv == KvTypes /\ Blank /\ Victims /\ KeptHolds /\ RowsExact /\ HeldSurvive

----------------------------------------------------------------------------
Namers(o) == {m \in Manifests : o \in manifests[m].objs}

LEMMA ManifestsFinite == IsFiniteSet(Manifests)
  <1> DEFINE f == [k \in Keys |-> ManifestOf[k]]
  <1>1. f \in Surjection(Keys, Manifests)
    BY Zenon DEF Surjection, Manifests
  <1> QED
    BY Zenon, <1>1, KvpackAssumption, FS_Surjection

LEMMA NamersFinite ==
    ASSUME NEW o
    PROVE  IsFiniteSet(Namers(o)) /\ Cardinality(Namers(o)) \in Nat
  BY Zenon, ManifestsFinite, FS_Subset, FS_CardinalityType DEF Namers

\* The steps of writers, collector and demoter between their transactions leave
\* the rows, the manifests, the pins and the lease alone.
LEMMA RowsAlone ==
    ASSUME KvInv, UNCHANGED <<chunks, manifests, lease, leaked, reader>>
    PROVE  Blank' /\ KeptHolds' /\ RowsExact' /\ HeldSurvive'
  BY DEF KvInv, Blank, KeptHolds, LeaseHolds, RowsExact, HeldSurvive, Pinned, HasRow, RowOf

LEMMA EmptyRefs == <<>> \in Refs
  BY DEF Refs

LEMMA AppendRefs ==
    ASSUME NEW r \in Refs, NEW o \in Object
    PROVE  Append(r, o) \in Refs
  BY DEF Refs

LEMMA IdleOK ==
    /\ WriterOK(IdleWriter)
    /\ \A r \in Refs : WriterOK([IdleWriter EXCEPT !.pc = "put", !.refs = r])
  BY Zenon, EmptyRefs DEF WriterOK, IdleWriter

LEMMA KvInit == Init => KvInv
  <1> SUFFICES ASSUME Init PROVE KvInv
      BY Zenon
  <1>1. KvTypes
    <2>1. RowTypes
      BY Zenon DEF Init, RowTypes, NoRow, NoManifest, Row, ManifestRow
    <2>2. WriterTypes
      BY Zenon, EmptyRefs, IdleOK DEF Init, WriterTypes, Upload
    <2>3. HolderTypes
      BY Zenon DEF Init, HolderTypes, IdleReader, Lease
    <2> QED
      BY Zenon, <2>1, <2>2, <2>3 DEF KvTypes
  <1>2. Blank /\ Victims /\ KeptHolds
    BY Zenon DEF Init, Blank, Victims, KeptHolds, NoManifest, IdleCollector
  <1>3. RowsExact
    <2>1. ASSUME NEW c \in Chunks
          PROVE  {m \in Manifests : <<c, chunks[c].salt>> \in manifests[m].objs} = {}
      BY Zenon DEF Init, NoManifest
    <2> QED
      BY Zenon, <2>1, FS_EmptySet DEF Init, RowsExact, NoRow, NoManifest
  <1>4. HeldSurvive
    BY Zenon DEF Init, HeldSurvive, Pinned, IdleReader
  <1> QED
    BY Zenon, <1>1, <1>2, <1>3, <1>4 DEF KvInv

----------------------------------------------------------------------------
(* How a change of rows bears on the references and on the holders.          *)

Live == {"AVAILABLE", "TOMBSTONED"}
HeldNow == Pinned \cup (IF lease.kept THEN lease.objs ELSE {})

\* The row of a held object, and of a named one, is that object's own.
LEMMA NamedRow ==
    ASSUME KvInv, NEW m \in Manifests, NEW o \in manifests[m].objs
    PROVE  /\ o[1] \in Chunks /\ o = <<o[1], chunks[o[1]].salt>>
           /\ chunks[o[1]].st \in Live
  BY DEF KvInv, KvTypes, RowTypes, ManifestRow, Object, RowsExact, HasRow, RowOf, Live

LEMMA HeldRow ==
    ASSUME KvInv, NEW o \in HeldNow
    PROVE  /\ o[1] \in Chunks /\ o = <<o[1], chunks[o[1]].salt>>
           /\ chunks[o[1]].st \in Live /\ o \in Held
  <1>1. o \in Object
    BY Zenon DEF KvInv, KvTypes, HolderTypes, Lease, HeldNow, Pinned
  <1>2. HasRow(o) /\ RowOf(o).st \in Live
    BY Zenon DEF KvInv, HeldSurvive, HeldNow, Live
  <1>3. o \in Held
    BY Zenon DEF KvInv, KeptHolds, HeldNow, Held
  <1> QED
    BY <1>1, <1>2, <1>3 DEF Object, HasRow, RowOf

LEMMA RefCounts ==
    ASSUME KvInv, NEW c \in Chunks
    PROVE  /\ chunks[c].ref = Cardinality(Namers(<<c, chunks[c].salt>>))
           /\ chunks[c].ref \in Nat
  BY Zenon DEF KvInv, RowsExact, Namers, KvTypes, RowTypes, Row

\* No manifest names a chunk whose count is zero.
LEMMA ZeroUnnamed ==
    ASSUME KvInv, NEW c \in Chunks, chunks[c].ref = 0,
           NEW m \in Manifests, NEW o \in manifests[m].objs
    PROVE  o[1] # c
  <1>1. Namers(<<c, chunks[c].salt>>) = {}
    BY Zenon, RefCounts, NamersFinite, FS_EmptySet
  <1> QED
    BY Zenon, <1>1, NamedRow DEF Namers

\* The count of a row that is absent or EVICTING is zero.
LEMMA DeadZero ==
    ASSUME KvInv, NEW c \in Chunks, chunks[c].st \notin Live
    PROVE  chunks[c].ref = 0
  <1>1. Namers(<<c, chunks[c].salt>>) = {}
    BY Zenon, NamedRow DEF Namers
  <1> QED
    BY Zenon, <1>1, RefCounts, FS_EmptySet

\* References stay exact when each row keeps its object and its count and stays
\* live, or had no reference and has none.
LEMMA RowsKept ==
    ASSUME KvInv,
           \A m \in Manifests : manifests'[m].objs = manifests[m].objs,
           \A c \in Chunks :
               \/ /\ chunks'[c].salt = chunks[c].salt /\ chunks'[c].ref = chunks[c].ref
                  /\ chunks[c].st \in Live => chunks'[c].st \in Live
               \/ chunks[c].ref = 0 /\ chunks'[c].ref = 0
    PROVE  RowsExact'
  <1>1. ASSUME NEW c \in Chunks
        PROVE  chunks'[c].ref = Cardinality({m \in Manifests :
                                     <<c, chunks'[c].salt>> \in manifests'[m].objs})
    <2> DEFINE N == {m \in Manifests : <<c, chunks'[c].salt>> \in manifests'[m].objs}
    <2>1. CASE chunks'[c].salt = chunks[c].salt /\ chunks'[c].ref = chunks[c].ref
      <3>1. N = Namers(<<c, chunks[c].salt>>)
        BY Zenon, <2>1 DEF Namers
      <3> QED
        BY Zenon, <2>1, <3>1, RefCounts
    <2>2. CASE chunks[c].ref = 0 /\ chunks'[c].ref = 0
      <3>1. N = {}
        BY Zenon, <2>2, ZeroUnnamed
      <3> QED
        BY Zenon, <2>2, <3>1, FS_EmptySet
    <2> QED
      BY Zenon, <2>1, <2>2
  <1>2. ASSUME NEW m \in Manifests, NEW o \in manifests'[m].objs
        PROVE  (HasRow(o) /\ RowOf(o).st \in {"AVAILABLE", "TOMBSTONED"})'
    <2>1. /\ o \in manifests[m].objs /\ o[1] \in Chunks
          /\ o = <<o[1], chunks[o[1]].salt>> /\ chunks[o[1]].st \in Live
      BY Zenon, NamedRow
    <2>2. chunks[o[1]].ref # 0
      BY Zenon, <2>1, ZeroUnnamed
    <2>3. chunks'[o[1]].salt = chunks[o[1]].salt /\ chunks'[o[1]].st \in Live
      BY Zenon, <2>1, <2>2
    <2> QED
      BY <2>1, <2>3 DEF HasRow, RowOf, Live
  <1> QED
    BY Zenon, <1>1, <1>2 DEF RowsExact

\* Holders keep their objects when nobody new holds one and the rows of the held
\* objects stay live.
LEMMA HeldKept ==
    ASSUME KvInv, HeldNow' \subseteq HeldNow,
           \A o \in HeldNow : chunks'[o[1]].salt = chunks[o[1]].salt
                              /\ chunks'[o[1]].st \in Live
    PROVE  HeldSurvive'
  <1> SUFFICES ASSUME NEW o \in HeldNow' PROVE (HasRow(o) /\ RowOf(o).st \in Live)'
    BY Zenon DEF HeldSurvive, HeldNow, Live
  <1> QED
    BY HeldRow DEF HasRow, RowOf, Live

----------------------------------------------------------------------------
(* The steps of a writer. *)

\* Between its transactions a writer changes only its own place, its upload row
\* and files.
WriterStep(k) ==
    \/ Begin(k) \/ PutDeduplicated(k) \/ PutEncoded(k) \/ PutImported(k)
    \/ Recommit(k) \/ WriteManifest(k) \/ Abort(k) \/ Quarantine(k)

LEMMA SetWriterTypes ==
    ASSUME WriterTypes, NEW k \in Keys, NEW w, SetWriter(k, w), WriterOK(w),
           uploads' \in [Keys -> Upload], salts' \in Nat
    PROVE  WriterTypes'
  BY ZenonT(30) DEF WriterTypes, SetWriter, WriterOK

LEMMA WriterStepTypes ==
    ASSUME KvInv, NEW k \in Keys, WriterStep(k)
    PROVE  WriterTypes'
  <1>0. WriterTypes /\ RowTypes
    BY Zenon DEF KvInv, KvTypes
  <1>a. ASSUME Putting(k) PROVE NextContent(k) \in Chunks
    BY <1>0, <1>a, KvpackAssumption DEF Putting, NextContent, WriterTypes, WriterOK, Refs
  <1>1. CASE Begin(k)
    <2> DEFINE w == [IdleWriter EXCEPT !.pc = "put", !.refs = uploads'[k].ledger]
    <2>0. \/ uploads' = [uploads EXCEPT ![k] = [st |-> "RECEIVING", ledger |-> <<>>]]
          \/ uploads' = uploads
      BY Zenon, <1>1 DEF Begin, Reserved
    <2>1. uploads' \in [Keys -> Upload]
      BY <1>0, <2>0, EmptyRefs DEF WriterTypes, Upload
    <2>2. SetWriter(k, w) /\ salts' = salts
      BY Zenon, <1>1 DEF Begin
    <2>3. WriterOK(w)
      BY Zenon, <2>1, IdleOK DEF Upload
    <2> QED
      BY Zenon, <1>0, <2>1, <2>2, <2>3, SetWriterTypes DEF WriterTypes
  <1>2. CASE PutDeduplicated(k)
    <2> DEFINE o == <<NextContent(k), chunks[NextContent(k)].salt>>
               w == [writer[k] EXCEPT !.refs = Append(@, o)]
    <2>1. o \in Object
      BY Zenon, <1>0, <1>a, <1>2 DEF PutDeduplicated, RowTypes, Row, Object
    <2>2. writer[k].pc = "put" /\ SetWriter(k, w) /\ UNCHANGED <<uploads, salts>>
      BY Zenon, <1>2 DEF PutDeduplicated, Putting, catalog
    <2>3. WriterOK(w)
      BY <1>0, <2>1, <2>2, AppendRefs DEF WriterTypes, WriterOK
    <2> QED
      BY Zenon, <1>0, <2>2, <2>3, SetWriterTypes DEF WriterTypes
  <1>3. CASE PutEncoded(k)
    <2> DEFINE o == <<NextContent(k), salts + 1>>
               w == [writer[k] EXCEPT !.pc = "catalog", !.obj = o, !.new = TRUE]
    <2>1. o \in Object
      BY <1>0, <1>a, <1>3 DEF PutEncoded, WriterTypes, Object
    <2>2. SetWriter(k, w) /\ uploads' = uploads /\ salts' \in Nat
      BY <1>0, <1>3 DEF PutEncoded, WriterTypes, catalog
    <2>3. WriterOK(w)
      BY <1>0, <2>1 DEF WriterTypes, WriterOK
    <2> QED
      BY Zenon, <1>0, <2>2, <2>3, SetWriterTypes DEF WriterTypes
  <1>4. CASE PutImported(k)
    <2> DEFINE o == <<NextContent(k), 0>>
               w == [writer[k] EXCEPT !.pc = "catalog", !.obj = o, !.new = o \notin files]
    <2>1. o \in Object
      BY Zenon, <1>0, <1>a, <1>4 DEF PutImported, WriterTypes, Object
    <2>2. SetWriter(k, w) /\ UNCHANGED <<uploads, salts>>
      BY Zenon, <1>0, <1>4 DEF PutImported, WriterTypes, catalog
    <2>3. WriterOK(w)
      BY <1>0, <2>1 DEF WriterTypes, WriterOK
    <2> QED
      BY Zenon, <1>0, <2>2, <2>3, SetWriterTypes DEF WriterTypes
  <1>5. CASE Recommit(k)
    BY Zenon, <1>0, <1>5 DEF Recommit, catalog, IdleWriter, SetWriter, WriterTypes, WriterOK, Upload
  <1>6. CASE WriteManifest(k)
    BY <1>0, <1>6 DEF WriteManifest, SetWriter, WriterTypes, WriterOK, Upload
  <1>7. CASE Abort(k)
    <2>0. uploads' = [uploads EXCEPT ![k].st = "ABORTED"] \/ uploads' = uploads
      BY Zenon, <1>7 DEF Abort
    <2>1. uploads' \in [Keys -> Upload]
      BY <1>0, <2>0 DEF WriterTypes, Upload
    <2>2. SetWriter(k, IdleWriter) /\ salts' = salts
      BY Zenon, <1>7 DEF Abort
    <2> QED
      BY Zenon, <1>0, <2>1, <2>2, IdleOK, SetWriterTypes DEF WriterTypes
  <1>8. CASE Quarantine(k)
    BY Zenon, <1>0, <1>8 DEF Quarantine, SetWriter, WriterTypes, WriterOK, Upload
  <1> QED
    BY Zenon, <1>1, <1>2, <1>3, <1>4, <1>5, <1>6, <1>7, <1>8 DEF WriterStep

LEMMA WriterStepInv ==
    ASSUME KvInv, NEW k \in Keys, WriterStep(k)
    PROVE  KvInv'
  <1>1. UNCHANGED <<chunks, manifests, lease, leaked, reader, collector>>
    BY Zenon DEF WriterStep, Begin, PutDeduplicated, PutEncoded, PutImported, Recommit,
           WriteManifest, Abort, Quarantine, catalog
  <1>2. Victims'
    BY Zenon, <1>1 DEF KvInv, Victims
  <1>3. KvTypes'
    BY Zenon, <1>1, WriterStepTypes DEF KvInv, KvTypes, RowTypes, HolderTypes
  <1> QED
    BY Zenon, <1>1, <1>2, <1>3, RowsAlone DEF KvInv

\* CatalogChunk takes the place of an absent row only, so no row that a manifest
\* names or somebody holds changes.
LEMMA CatalogInv ==
    ASSUME KvInv, NEW k \in Keys, CatalogChunk(k)
    PROVE  KvInv'
  <1> DEFINE o == writer[k].obj
             free == RowOf(o).st = "ABSENT"
  <1>0. RowTypes /\ WriterTypes /\ HolderTypes
    BY Zenon DEF KvInv, KvTypes
  <1>1. /\ o \in Object /\ o[1] \in Chunks /\ o[2] \in Nat
        /\ UNCHANGED <<manifests, lease, leaked, collector, reader, salts>>
        /\ \/ chunks' = chunks
           \/ /\ free
              /\ chunks' = [chunks EXCEPT ![o[1]] = [st |-> "AVAILABLE", salt |-> o[2],
                                                     ref |-> 0, rung |-> 0]]
    BY Zenon, <1>0 DEF CatalogChunk, WriterTypes, WriterOK, Object
  <1>2. \A c \in Chunks : chunks[c].st # "ABSENT" => chunks'[c] = chunks[c]
    BY Zenon, <1>0, <1>1 DEF RowTypes, RowOf
  <1>3. KvTypes'
    <2>1. RowTypes'
      BY <1>0, <1>1 DEF RowTypes, Row
    <2>2. uploads' \in [Keys -> Upload]
      <3>1. uploads[k].ledger \in Refs
        BY Zenon, <1>0 DEF WriterTypes, Upload
      <3>2. Append(uploads[k].ledger, o) \in Refs
        BY Zenon, <1>1, <3>1, AppendRefs
      <3>3. uploads' = [uploads EXCEPT ![k].ledger = Append(@, o)] \/ uploads' = uploads
        BY Zenon DEF CatalogChunk
      <3> QED
        BY ZenonT(30), <1>0, <3>2, <3>3 DEF WriterTypes, Upload
    <2>3. ASSUME NEW r \in Object
          PROVE  WriterOK([IdleWriter EXCEPT !.pc = "put", !.refs = Append(writer[k].refs, r)])
      BY Zenon, <1>0, <2>3, IdleOK, AppendRefs DEF WriterTypes, WriterOK
    <2>4. \E r \in Object :
             SetWriter(k, [IdleWriter EXCEPT !.pc = "put", !.refs = Append(writer[k].refs, r)])
      BY Zenon, <1>0, <1>1 DEF CatalogChunk, RowTypes, Row, RowOf, Object
    <2>5. WriterTypes'
      BY Zenon, <1>0, <1>1, <2>2, <2>3, <2>4, SetWriterTypes DEF WriterTypes
    <2> QED
      BY Zenon, <1>0, <1>1, <2>1, <2>5 DEF KvTypes, HolderTypes
  <1>4. Blank' /\ KeptHolds'
    BY Zenon, <1>1 DEF KvInv, Blank, KeptHolds, LeaseHolds
  <1>5. Victims'
    BY <1>1, <1>2 DEF KvInv, Victims
  <1>6. RowsExact'
    <2>1. ASSUME NEW m \in Manifests, NEW x \in manifests[m].objs
          PROVE  x[1] \in Chunks /\ chunks'[x[1]] = chunks[x[1]] /\ HasRow(x)
                 /\ RowOf(x).st \in {"AVAILABLE", "TOMBSTONED"}
      BY <1>0, <1>2 DEF KvInv, RowsExact, HasRow, RowOf, RowTypes, ManifestRow, Object
    <2>2. ASSUME NEW c \in Chunks, chunks'[c] # chunks[c]
          PROVE  chunks'[c].ref = Cardinality({m \in Manifests :
                                     <<c, chunks'[c].salt>> \in manifests[m].objs})
      <3>1. chunks'[c].ref = 0
        BY <1>0, <1>1, <2>2 DEF RowTypes
      <3>2. {m \in Manifests : <<c, chunks'[c].salt>> \in manifests[m].objs} = {}
        BY Zenon, <2>1, <2>2
      <3> QED
        BY Zenon, <3>1, <3>2, FS_EmptySet
    <2> QED
      BY <1>1, <2>1, <2>2 DEF KvInv, RowsExact, HasRow, RowOf
  <1>7. HeldSurvive'
    BY <1>0, <1>1, <1>2 DEF KvInv, HeldSurvive, HasRow, RowOf, Pinned, HolderTypes, Lease, Object
  <1> QED
    BY Zenon, <1>3, <1>4, <1>5, <1>6, <1>7 DEF KvInv

\* PublishTx takes one reference on every chunk of a new manifest: each has its
\* own live row, and the manifest named nothing before.
LEMMA PublishInv ==
    ASSUME KvInv, NEW k \in Keys, PublishTx(k)
    PROVE  KvInv'
  <1> DEFINE m == ManifestOf[k]
             objs == Range(writer[k].refs)
             existing == manifests[m].loc # "ABSENT"
             Taken(c) == ~existing /\ \E o \in objs : o[1] = c
  <1>0. RowTypes /\ WriterTypes /\ HolderTypes /\ m \in Manifests
    BY Zenon DEF KvInv, KvTypes, Manifests
  <1>1. objs \subseteq Object
    BY <1>0 DEF WriterTypes, WriterOK, Refs, Range
  <1>2. /\ existing \/ RowsAvailable(objs)
        /\ manifests' = [manifests EXCEPT ![m] =
               [loc |-> "AVAILABLE", objs |-> IF existing THEN @.objs ELSE objs]]
        /\ chunks' = IF existing THEN chunks
                     ELSE [c \in Chunks |->
                              IF \E o \in objs : o[1] = c
                              THEN [chunks[c] EXCEPT !.ref = @ + 1] ELSE chunks[c]]
        /\ uploads' = [uploads EXCEPT ![k].st = "PUBLISHED"]
        /\ SetWriter(k, IdleWriter)
        /\ UNCHANGED <<lease, leaked, collector, reader, salts>>
    BY Zenon DEF PublishTx
  <1>3. ASSUME NEW c \in Chunks
        PROVE  /\ chunks'[c].salt = chunks[c].salt /\ chunks'[c].st = chunks[c].st
               /\ chunks'[c].ref = IF Taken(c) THEN chunks[c].ref + 1 ELSE chunks[c].ref
               /\ chunks'[c] \in Row
    BY <1>0, <1>2 DEF RowTypes, Row
  <1>4. ASSUME NEW n \in Manifests
        PROVE  manifests'[n].objs = IF n = m /\ ~existing THEN objs ELSE manifests[n].objs
    BY Zenon, <1>0, <1>2 DEF RowTypes, ManifestRow
  <1>5. KvTypes'
    <2>1. chunks' \in [Chunks -> Row]
      BY Zenon, <1>0, <1>2, <1>3 DEF RowTypes
    <2>2. manifests' \in [Manifests -> ManifestRow]
      BY Zenon, <1>0, <1>1, <1>2 DEF RowTypes, ManifestRow
    <2>3. uploads' \in [Keys -> Upload]
      BY Zenon, <1>0, <1>2 DEF WriterTypes, Upload
    <2>4. WriterTypes'
      BY Zenon, <1>0, <1>2, <2>3, IdleOK, SetWriterTypes DEF WriterTypes
    <2> QED
      BY Zenon, <1>0, <1>2, <2>1, <2>2, <2>4 DEF KvTypes, RowTypes, HolderTypes
  <1>6. Blank' /\ KeptHolds'
    BY Zenon, <1>0, <1>2 DEF KvInv, Blank, KeptHolds, LeaseHolds, RowTypes
  <1>7. Victims'
    BY <1>0, <1>2, <1>3, <1>4 DEF KvInv, Victims, RowTypes
  <1>8. ~existing => manifests[m].objs = {}
    BY Zenon, <1>0 DEF KvInv, Blank
  <1>9. ASSUME NEW o \in objs, ~existing
        PROVE  /\ o[1] \in Chunks /\ o = <<o[1], chunks[o[1]].salt>>
               /\ chunks[o[1]].st \in Live
    BY <1>1, <1>2, <1>9 DEF RowsAvailable, HasRow, RowOf, Object, Live
  <1>10. RowsExact'
    <2>1. ASSUME NEW c \in Chunks
          PROVE  chunks'[c].ref = Cardinality({n \in Manifests :
                                       <<c, chunks'[c].salt>> \in manifests'[n].objs})
      <3> DEFINE x == <<c, chunks[c].salt>>
                 N == {n \in Manifests : <<c, chunks'[c].salt>> \in manifests'[n].objs}
      <3>1. CASE Taken(c)
        <4>1. x \in objs
          BY Zenon, <3>1, <1>9
        <4>2. N = Namers(x) \cup {m}
          BY <1>0, <1>3, <1>4, <1>8, <3>1, <4>1 DEF Namers
        <4>3. m \notin Namers(x)
          BY Zenon, <1>8, <3>1 DEF Namers
        <4>4. Cardinality(Namers(x) \cup {m}) = Cardinality(Namers(x)) + 1
          BY Zenon, <4>3, NamersFinite, FS_AddElement
        <4>5. chunks[c].ref = Cardinality(Namers(x)) /\ chunks'[c].ref = chunks[c].ref + 1
          BY Zenon, <1>3, <3>1, RefCounts
        <4> QED
          BY Zenon, <4>2, <4>4, <4>5
      <3>2. CASE ~Taken(c)
        <4>1. N = Namers(x)
          BY <1>0, <1>3, <1>4, <1>8, <3>2 DEF Namers
        <4> QED
          BY Zenon, <1>3, <3>2, <4>1, RefCounts
      <3> QED
        BY Zenon, <3>1, <3>2
    <2>2. ASSUME NEW n \in Manifests, NEW o \in manifests'[n].objs
          PROVE  (HasRow(o) /\ RowOf(o).st \in {"AVAILABLE", "TOMBSTONED"})'
      <3>1. /\ o[1] \in Chunks /\ o = <<o[1], chunks[o[1]].salt>>
            /\ chunks[o[1]].st \in Live
        BY Zenon, <1>4, <1>9, NamedRow
      <3> QED
        BY <1>3, <3>1 DEF HasRow, RowOf, Live
    <2> QED
      BY Zenon, <2>1, <2>2 DEF RowsExact
  <1>11. HeldSurvive'
    <2>1. HeldNow' = HeldNow
      BY Zenon, <1>2 DEF HeldNow, Pinned
    <2> QED
      BY Zenon, <1>3, <2>1, HeldRow, HeldKept
  <1> QED
    BY Zenon, <1>5, <1>6, <1>7, <1>10, <1>11 DEF KvInv

----------------------------------------------------------------------------
(* The steps of the collector. *)

\* Unlinking files, giving up and forgetting a prefix change no row.
LEMMA CollectorAlone ==
    ASSUME KvInv,
           \/ \E m \in Manifests : DeletePrefix(m) \/ UnlinkManifest(m)
           \/ \E v \in collector.todo : MoveChunk(v)
           \/ CollectorBusy
    PROVE  KvInv'
  <1>1. UNCHANGED <<uploads, writer, salts, chunks, manifests, lease, leaked, reader>>
    BY Zenon DEF DeletePrefix, UnlinkManifest, MoveChunk, CollectorBusy, catalog
  <1>2. KvTypes'
    BY Zenon, <1>1 DEF KvInv, KvTypes, RowTypes, WriterTypes, HolderTypes
  <1>3. \/ collector' = collector
        \/ /\ collector.pc = "unlink" /\ collector'.pc = "delete"
           /\ collector'.todo \subseteq collector.todo
        \/ /\ collector.pc = "move" /\ collector'.pc = "move"
           /\ collector'.todo \cup collector'.moved \subseteq collector.todo \cup collector.moved
        \/ collector'.pc = "idle"
    <2>1. CASE \E m \in Manifests : DeletePrefix(m)
      BY Zenon, <2>1 DEF DeletePrefix
    <2>2. CASE \E m \in Manifests : UnlinkManifest(m)
      BY <2>2 DEF UnlinkManifest, SetCollector
    <2>3. CASE \E v \in collector.todo : MoveChunk(v)
      <3>1. PICK v \in collector.todo : MoveChunk(v)
        BY Zenon, <2>3
      <3>2. /\ collector.pc = "move"
            /\ collector' = [pc |-> "move", todo |-> collector.todo \ {v},
                             moved |-> collector.moved \cup {v}]
        BY Zenon, <3>1 DEF MoveChunk, SetCollector
      <3> QED
        BY Zenon, <3>2
    <2>4. CASE CollectorBusy
      BY Zenon, <2>4 DEF CollectorBusy, SetCollector
    <2> QED
      BY Zenon, <2>1, <2>2, <2>3, <2>4
  <1>4. Victims'
    BY Zenon, <1>1, <1>3 DEF KvInv, Victims
  <1> QED
    BY Zenon, <1>1, <1>2, <1>4, RowsAlone DEF KvInv

\* EvictManifest takes back one reference from every chunk of its manifest.
LEMMA EvictInv ==
    ASSUME KvInv, NEW m \in Manifests, EvictManifest(m)
    PROVE  KvInv'
  <1> DEFINE Named(c) == \E o \in manifests[m].objs : o[1] = c
  <1>0. RowTypes /\ WriterTypes /\ HolderTypes
    BY Zenon DEF KvInv, KvTypes
  <1>1. /\ manifests' = [manifests EXCEPT ![m] = [loc |-> "EVICTING", objs |-> {}]]
        /\ chunks' = [c \in Chunks |-> IF Named(c)
                                       THEN [chunks[c] EXCEPT !.ref = Less(@, 1)]
                                       ELSE chunks[c]]
        /\ collector' = [pc |-> "unlink", todo |-> {m}, moved |-> {}]
        /\ UNCHANGED <<uploads, writer, lease, leaked, reader, salts>>
    BY Zenon DEF EvictManifest, SetCollector
  <1>2. ASSUME NEW c \in Chunks
        PROVE  /\ chunks'[c].salt = chunks[c].salt /\ chunks'[c].st = chunks[c].st
               /\ chunks'[c].ref = IF Named(c) THEN Less(chunks[c].ref, 1) ELSE chunks[c].ref
               /\ chunks'[c] \in Row
    BY <1>0, <1>1 DEF RowTypes, Row, Less
  <1>3. ASSUME NEW n \in Manifests
        PROVE  manifests'[n].objs = IF n = m THEN {} ELSE manifests[n].objs
    BY Zenon, <1>0, <1>1 DEF RowTypes, ManifestRow
  <1>4. KvTypes'
    <2>1. chunks' \in [Chunks -> Row]
      BY Zenon, <1>1, <1>2
    <2>2. manifests' \in [Manifests -> ManifestRow]
      BY Zenon, <1>0, <1>1 DEF RowTypes, ManifestRow
    <2> QED
      BY Zenon, <1>0, <1>1, <2>1, <2>2 DEF KvTypes, RowTypes, HolderTypes, WriterTypes
  <1>5. Blank' /\ KeptHolds' /\ Victims'
    BY Zenon, <1>0, <1>1 DEF KvInv, Blank, KeptHolds, LeaseHolds, Victims, RowTypes
  <1>6. RowsExact'
    <2>1. ASSUME NEW c \in Chunks
          PROVE  chunks'[c].ref = Cardinality({n \in Manifests :
                                       <<c, chunks'[c].salt>> \in manifests'[n].objs})
      <3> DEFINE x == <<c, chunks[c].salt>>
                 N == {n \in Manifests : <<c, chunks'[c].salt>> \in manifests'[n].objs}
      <3>1. N = Namers(x) \ {m}
        BY Zenon, <1>2, <1>3 DEF Namers
      <3>2. m \in Namers(x) <=> Named(c)
        BY Zenon, NamedRow DEF Namers
      <3>3. Cardinality(N) = IF Named(c) THEN Cardinality(Namers(x)) - 1
                             ELSE Cardinality(Namers(x))
        <4>1. Cardinality(Namers(x) \ {m}) = IF m \in Namers(x) THEN Cardinality(Namers(x)) - 1
                                             ELSE Cardinality(Namers(x))
          BY Zenon, NamersFinite, FS_RemoveElement, Zenon
        <4> QED
          BY Zenon, <3>1, <3>2, <4>1, Zenon
      <3>4. chunks[c].ref = Cardinality(Namers(x)) /\ chunks[c].ref \in Nat
        BY Zenon, RefCounts
      <3>5. Named(c) => chunks[c].ref # 0
        BY Zenon, ZeroUnnamed
      <3> QED
        BY <1>2, <3>3, <3>4, <3>5 DEF Less
    <2>2. ASSUME NEW n \in Manifests, NEW o \in manifests'[n].objs
          PROVE  (HasRow(o) /\ RowOf(o).st \in {"AVAILABLE", "TOMBSTONED"})'
      <3>1. /\ o[1] \in Chunks /\ o = <<o[1], chunks[o[1]].salt>>
            /\ chunks[o[1]].st \in Live
        BY Zenon, <1>3, NamedRow
      <3> QED
        BY <1>2, <3>1 DEF HasRow, RowOf, Live
    <2> QED
      BY Zenon, <2>1, <2>2 DEF RowsExact
  <1>7. HeldSurvive'
    <2>1. HeldNow' = HeldNow
      BY Zenon, <1>1 DEF HeldNow, Pinned
    <2> QED
      BY Zenon, <1>2, <2>1, HeldRow, HeldKept
  <1> QED
    BY Zenon, <1>4, <1>5, <1>6, <1>7 DEF KvInv

\* DeleteManifest removes a row that names nothing.
LEMMA DeleteManifestInv ==
    ASSUME KvInv, NEW m \in Manifests, DeleteManifest(m)
    PROVE  KvInv'
  <1>0. RowTypes /\ WriterTypes /\ HolderTypes
    BY Zenon DEF KvInv, KvTypes
  <1>1. /\ manifests[m].objs = {} /\ manifests' = [manifests EXCEPT ![m] = NoManifest]
        /\ collector'.pc = "idle"
        /\ UNCHANGED <<uploads, writer, chunks, lease, leaked, reader, salts>>
    BY Zenon DEF DeleteManifest, SetCollector, KvInv, Victims
  <1>2. KvTypes'
    BY Zenon, <1>0, <1>1 DEF KvTypes, RowTypes, HolderTypes, WriterTypes, NoManifest, ManifestRow
  <1>3. Blank' /\ KeptHolds' /\ Victims'
    BY Zenon, <1>0, <1>1 DEF KvInv, Blank, KeptHolds, LeaseHolds, Victims, RowTypes, NoManifest
  <1>4. RowsExact'
    <2>1. \A n \in Manifests : manifests'[n].objs = manifests[n].objs
      BY Zenon, <1>0, <1>1 DEF RowTypes, NoManifest
    <2> QED
      BY Zenon, <1>1, <2>1, RowsKept
  <1>5. HeldSurvive'
    BY Zenon, <1>1 DEF KvInv, HeldSurvive, Pinned, HasRow, RowOf
  <1> QED
    BY Zenon, <1>2, <1>3, <1>4, <1>5 DEF KvInv

\* SelectChunks marks rows that nothing names and nobody holds.
LEMMA SelectInv ==
    ASSUME KvInv, NEW V \in SUBSET Chunks, SelectChunks(V)
    PROVE  KvInv'
  <1>0. RowTypes /\ WriterTypes /\ HolderTypes
    BY Zenon DEF KvInv, KvTypes
  <1>1. /\ \A c \in V : chunks[c].ref = 0 /\ <<c, chunks[c].salt>> \notin Held
        /\ chunks' = [c \in Chunks |-> IF c \in V THEN [chunks[c] EXCEPT !.st = "EVICTING"]
                                       ELSE chunks[c]]
        /\ collector' = [pc |-> "move",
                         todo |-> {<<c, chunks[c].salt, chunks[c].st = "TOMBSTONED">> : c \in V},
                         moved |-> {}]
        /\ UNCHANGED <<uploads, manifests, lease, leaked, writer, reader, salts>>
    BY Zenon DEF SelectChunks, SetCollector, Collectable
  <1>2. ASSUME NEW c \in Chunks
        PROVE  /\ chunks'[c].salt = chunks[c].salt /\ chunks'[c].ref = chunks[c].ref
               /\ chunks'[c].st = IF c \in V THEN "EVICTING" ELSE chunks[c].st
               /\ chunks'[c] \in Row
    BY Zenon, <1>0, <1>1 DEF RowTypes, Row
  <1>3. KvTypes'
    BY Zenon, <1>0, <1>1, <1>2 DEF KvTypes, RowTypes, HolderTypes, WriterTypes
  <1>4. Blank' /\ KeptHolds'
    BY Zenon, <1>1 DEF KvInv, Blank, KeptHolds, LeaseHolds
  <1>5. Victims'
    <2> SUFFICES ASSUME NEW v \in collector'.todo
                 PROVE  /\ v[1] \in Chunks
                        /\ chunks'[v[1]].salt = v[2] /\ chunks'[v[1]].st = "EVICTING"
      BY Zenon, <1>1 DEF Victims
    <2>1. PICK c \in V : v = <<c, chunks[c].salt, chunks[c].st = "TOMBSTONED">>
      BY Zenon, <1>1
    <2> QED
      BY Zenon, <1>2, <2>1
  <1>6. RowsExact'
    BY Zenon, <1>1, <1>2, RowsKept
  <1>7. HeldSurvive'
    <2>1. HeldNow' = HeldNow
      BY Zenon, <1>1 DEF HeldNow, Pinned
    <2>2. ASSUME NEW o \in HeldNow PROVE o[1] \in Chunks \ V
      BY Zenon, <1>1, HeldRow
    <2> QED
      BY Zenon, <1>2, <2>1, <2>2, HeldRow, HeldKept
  <1> QED
    BY Zenon, <1>3, <1>4, <1>5, <1>6, <1>7 DEF KvInv

\* DeleteChunks removes EVICTING rows, which nothing names and nobody holds.
LEMMA DeleteChunksInv ==
    ASSUME KvInv, DeleteChunks
    PROVE  KvInv'
  <1>0. RowTypes /\ WriterTypes /\ HolderTypes
    BY Zenon DEF KvInv, KvTypes
  <1>1. PICK G \in SUBSET Chunks :
           /\ \A c \in G : chunks[c].st = "EVICTING"
           /\ chunks' = [c \in Chunks |-> IF c \in G THEN NoRow ELSE chunks[c]]
    <2> DEFINE gone == {v \in collector.moved : HasRow(<<v[1], v[2]>>) /\ chunks[v[1]].ref = 0}
               G == {c \in Chunks : \E v \in gone : v[1] = c}
    <2>1. \A c \in G : chunks[c].st = "EVICTING"
      BY Zenon DEF DeleteChunks, KvInv, Victims
    <2>2. chunks' = [c \in Chunks |-> IF \E v \in gone : v[1] = c THEN NoRow ELSE chunks[c]]
      BY Zenon DEF DeleteChunks
    <2>3. chunks' = [c \in Chunks |-> IF c \in G THEN NoRow ELSE chunks[c]]
      BY Zenon, <2>2
    <2> HIDE DEF G
    <2> QED
      BY Zenon, <2>1, <2>3 DEF G
  <1>2. /\ collector'.pc = "idle"
        /\ UNCHANGED <<uploads, manifests, lease, leaked, writer, reader, salts>>
    BY Zenon DEF DeleteChunks, SetCollector
  <1>3. KvTypes'
    BY Zenon, <1>0, <1>1, <1>2 DEF KvTypes, RowTypes, HolderTypes, WriterTypes, Row, NoRow
  <1>4. Blank' /\ KeptHolds' /\ Victims'
    BY Zenon, <1>2 DEF KvInv, Blank, KeptHolds, LeaseHolds, Victims
  <1>5. RowsExact'
    <2>1. \A c \in G : chunks[c].ref = 0 /\ chunks'[c].ref = 0
      BY Zenon, <1>1, DeadZero DEF Live, NoRow
    <2>2. \A c \in Chunks \ G : chunks'[c] = chunks[c]
      BY Zenon, <1>1
    <2> QED
      BY Zenon, <1>2, <2>1, <2>2, RowsKept
  <1>6. HeldSurvive'
    <2>1. HeldNow' = HeldNow
      BY Zenon, <1>2 DEF HeldNow, Pinned
    <2>2. ASSUME NEW o \in HeldNow
          PROVE  chunks'[o[1]] = chunks[o[1]] /\ chunks[o[1]].st \in Live
      BY Zenon, <1>1, HeldRow DEF Live
    <2> QED
      BY Zenon, <2>1, <2>2, HeldKept
  <1> QED
    BY Zenon, <1>3, <1>4, <1>5, <1>6 DEF KvInv

----------------------------------------------------------------------------
(* The steps of the demoter, which take a row down one rung at a time and     *)
(* leave it in place.                                                         *)

LEMMA DemoterAlone ==
    ASSUME KvInv, (\E V \in SUBSET Chunks : SelectDemotion(V)) \/ DemoteUnlink
    PROVE  KvInv'
  <1>1. UNCHANGED <<uploads, writer, salts, chunks, manifests, lease, leaked, reader, collector>>
    BY Zenon DEF SelectDemotion, DemoteUnlink, catalog
  <1>2. KvTypes' /\ Victims'
    BY Zenon, <1>1 DEF KvInv, KvTypes, RowTypes, WriterTypes, HolderTypes, Victims
  <1> QED
    BY Zenon, <1>1, <1>2, RowsAlone DEF KvInv

LEMMA DemoteInv ==
    ASSUME KvInv, DemoteTx
    PROVE  KvInv'
  <1>0. RowTypes /\ WriterTypes /\ HolderTypes
    BY Zenon DEF KvInv, KvTypes
  <1>1. UNCHANGED <<uploads, writer, salts, manifests, lease, leaked, reader, collector>>
    BY Zenon DEF DemoteTx
  <1>2. /\ chunks' \in [Chunks -> Row]
        /\ \A c \in Chunks :
               /\ chunks'[c].salt = chunks[c].salt /\ chunks'[c].ref = chunks[c].ref
               /\ \/ chunks'[c].st = chunks[c].st
                  \/ chunks[c].st = "AVAILABLE" /\ chunks'[c].st = "TOMBSTONED"
    <2> DEFINE hit == {v \in demoter.victims :
                         /\ HasRow(<<v[1], v[2]>>)
                         /\ chunks[v[1]].rung = v[3] /\ chunks[v[1]].st = "AVAILABLE"}
               Hit(c) == \E v \in hit : v[1] = c
               Down(c) == [chunks[c] EXCEPT !.rung = @ + 1,
                              !.st = IF chunks[c].rung = 1 THEN "TOMBSTONED" ELSE @]
    <2>1. chunks' = [c \in Chunks |-> IF Hit(c) THEN Down(c) ELSE chunks[c]]
      BY Zenon DEF DemoteTx
    <2>2. \A c \in Chunks : Hit(c) => chunks[c].st = "AVAILABLE"
      BY Zenon
    <2>3. ASSUME NEW c \in Chunks
          PROVE  /\ Down(c) \in Row
                 /\ Down(c).salt = chunks[c].salt /\ Down(c).ref = chunks[c].ref
                 /\ Down(c).st = chunks[c].st \/ Down(c).st = "TOMBSTONED"
      <3>1. PICK r \in Row : r = chunks[c]
        BY Zenon, <1>0 DEF RowTypes
      <3>2. PICK n \in Nat : n = r.rung + 1
        BY <3>1 DEF Row
      <3>3. PICK x \in {r.st, "TOMBSTONED"} : x = IF r.rung = 1 THEN "TOMBSTONED" ELSE r.st
        BY Zenon
      <3>4. PICK d : d = Down(c)
        BY Zenon
      <3>5. d = [r EXCEPT !.rung = n, !.st = x]
        BY Zenon, <3>1, <3>2, <3>3, <3>4
      <3>6. d \in Row /\ d.salt = r.salt /\ d.ref = r.ref /\ d.st = x
        BY Zenon, <3>5 DEF Row
      <3> QED
        BY Zenon, <3>1, <3>4, <3>6
    <2> HIDE DEF Hit, Down
    <2> QED
      BY Zenon, <1>0, <2>1, <2>2, <2>3 DEF RowTypes
  <1>3. KvTypes'
    BY Zenon, <1>0, <1>1, <1>2 DEF KvTypes, RowTypes, HolderTypes, WriterTypes
  <1>4. Blank' /\ KeptHolds' /\ Victims'
    BY <1>1, <1>2 DEF KvInv, Blank, KeptHolds, LeaseHolds, Victims
  <1>5. RowsExact'
    BY Zenon, <1>1, <1>2, RowsKept DEF Live
  <1>6. HeldSurvive'
    <2>1. HeldNow' = HeldNow
      BY Zenon, <1>1 DEF HeldNow, Pinned
    <2> QED
      BY Zenon, <1>2, <2>1, HeldRow, HeldKept DEF Live
  <1> QED
    BY Zenon, <1>3, <1>4, <1>5, <1>6 DEF KvInv

----------------------------------------------------------------------------
(* The steps of the reader and of the lease's owner.                          *)

ReaderStep == (\E o \in Objects : Pin(o)) \/ Open \/ Unpin

LEMMA ReaderInv ==
    ASSUME KvInv, ReaderStep
    PROVE  KvInv'
  <1>0. RowTypes /\ WriterTypes /\ HolderTypes
    BY Zenon DEF KvInv, KvTypes
  <1>1. UNCHANGED <<uploads, writer, salts, chunks, manifests, lease, leaked, collector>>
    BY Zenon DEF ReaderStep, Pin, Open, Unpin, catalog
  <1>2. \/ reader'.pc = "idle"
        \/ reader.pc # "idle" /\ reader'.obj = reader.obj
        \/ /\ reader'.obj \in Object
           /\ HasRow(reader'.obj) /\ RowOf(reader'.obj).st = "AVAILABLE"
    <2>1. ASSUME NEW o \in Objects, Pin(o)
          PROVE  reader'.obj \in Object /\ HasRow(reader'.obj)
                 /\ RowOf(reader'.obj).st = "AVAILABLE"
      BY <2>1, KvpackAssumption DEF Pin, Readable, Objects, Object
    <2>2. CASE Open
      BY <2>2 DEF Open, IdleReader
    <2>3. CASE Unpin
      BY Zenon, <2>3 DEF Unpin, IdleReader
    <2> QED
      BY Zenon, <2>1, <2>2, <2>3 DEF ReaderStep
  <1>3. KvTypes'
    BY Zenon, <1>0, <1>1, <1>2 DEF KvTypes, RowTypes, HolderTypes, WriterTypes
  <1>4. Blank' /\ KeptHolds' /\ Victims' /\ RowsExact'
    BY <1>1 DEF KvInv, Blank, KeptHolds, LeaseHolds, Victims, RowsExact, HasRow, RowOf
  <1>5. HeldSurvive'
    BY <1>1, <1>2 DEF KvInv, HeldSurvive, Pinned, HasRow, RowOf
  <1> QED
    BY Zenon, <1>3, <1>4, <1>5 DEF KvInv

LeaseStep == (\E m \in Manifests : AcquireLease(m)) \/ ReattachLease \/ LeaseExpires \/ ReleaseLease

LEMMA LeaseInv ==
    ASSUME KvInv, LeaseStep
    PROVE  KvInv'
  <1>0. RowTypes /\ WriterTypes /\ HolderTypes
    BY Zenon DEF KvInv, KvTypes
  <1>1. UNCHANGED <<uploads, writer, salts, chunks, manifests, leaked, collector, reader>>
    BY Zenon DEF LeaseStep, AcquireLease, ReattachLease, LeaseExpires, ReleaseLease, NonLease
  <1>2. lease' \in Lease
    <2>1. ASSUME NEW m \in Manifests, AcquireLease(m) PROVE lease' \in Lease
      BY Zenon, <1>0, <2>1 DEF AcquireLease, Lease, RowTypes, ManifestRow
    <2>2. CASE ReattachLease
      BY Zenon, <1>0, <2>2 DEF ReattachLease, Lease, HolderTypes
    <2>3. CASE LeaseExpires
      BY Zenon, <1>0, <2>3 DEF LeaseExpires, Lease, HolderTypes
    <2>4. CASE ReleaseLease
      BY Zenon, <1>0, <2>4 DEF ReleaseLease, Lease, HolderTypes
    <2> QED
      BY Zenon, <2>1, <2>2, <2>3, <2>4 DEF LeaseStep
  <1>3. \/ /\ lease'.objs = lease.objs
           /\ lease'.kept => lease.kept /\ LeaseHolds'
        \/ /\ lease'.objs \subseteq Object /\ LeaseHolds'
           /\ \A o \in lease'.objs : HasRow(o) /\ RowOf(o).st = "AVAILABLE"
    <2>1. ASSUME NEW m \in Manifests, AcquireLease(m)
          PROVE  /\ lease'.objs \subseteq Object /\ LeaseHolds'
                 /\ \A o \in lease'.objs : HasRow(o) /\ RowOf(o).st = "AVAILABLE"
      BY Zenon, <1>0, <2>1 DEF AcquireLease, LeaseHolds, Readable, RowTypes, ManifestRow
    <2>2. CASE ReattachLease
      BY Zenon, <1>0, <2>2 DEF ReattachLease, LeaseHolds, HolderTypes, Lease, KvInv, KeptHolds
    <2>3. CASE LeaseExpires
      BY Zenon, <1>0, <2>3 DEF LeaseExpires, LeaseHolds, HolderTypes, Lease
    <2>4. CASE ReleaseLease
      BY <2>4 DEF ReleaseLease
    <2> QED
      BY Zenon, <2>1, <2>2, <2>3, <2>4 DEF LeaseStep
  <1>4. KvTypes'
    BY Zenon, <1>0, <1>1, <1>2 DEF KvTypes, RowTypes, HolderTypes, WriterTypes
  <1>5. Blank' /\ KeptHolds' /\ Victims' /\ RowsExact'
    BY <1>1, <1>3 DEF KvInv, Blank, KeptHolds, Victims, RowsExact, HasRow, RowOf
  <1>6. HeldSurvive'
    BY <1>1, <1>3 DEF KvInv, HeldSurvive, Pinned, HasRow, RowOf
  <1> QED
    BY Zenon, <1>4, <1>5, <1>6 DEF KvInv

----------------------------------------------------------------------------
(* A crash forgets who was working, keeps the pins and the lease, and removes  *)
(* what was EVICTING.                                                          *)

LEMMA CrashInv ==
    ASSUME KvInv, CrashReopen
    PROVE  KvInv'
  <1>0. RowTypes /\ WriterTypes /\ HolderTypes
    BY Zenon DEF KvInv, KvTypes
  <1>1. /\ writer' = [k \in Keys |-> IdleWriter] /\ UNCHANGED <<uploads, salts>>
        /\ collector'.pc = "idle" /\ reader'.pc = "idle" /\ leaked' = Pinned
        /\ lease' = IF lease.st = "ACTIVE" THEN [lease EXCEPT !.st = "UNCERTAIN"] ELSE lease
        /\ manifests' = [m \in Manifests |->
                            IF m \in EvictingManifests THEN NoManifest ELSE manifests[m]]
        /\ chunks' = [c \in Chunks |-> IF c \in Evicting THEN NoRow ELSE chunks[c]]
    BY Zenon DEF CrashReopen, IdleCollector, IdleReader
  <1>2. /\ lease' \in Lease
        /\ lease'.objs = lease.objs /\ lease'.kept = lease.kept
        /\ LeaseHolds => LeaseHolds'
    BY Zenon, <1>0, <1>1 DEF HolderTypes, Lease, LeaseHolds
  <1>3. \A m \in Manifests : manifests'[m].objs = manifests[m].objs
    BY Zenon, <1>0, <1>1 DEF KvInv, Blank, EvictingManifests, NoManifest
  <1>4. KvTypes'
    <2>1. RowTypes'
      BY Zenon, <1>0, <1>1 DEF RowTypes, Row, ManifestRow, NoRow, NoManifest
    <2>2. WriterTypes'
      BY Zenon, <1>0, <1>1, IdleOK DEF WriterTypes
    <2>3. HolderTypes'
      BY Zenon, <1>0, <1>1, <1>2 DEF HolderTypes, Pinned
    <2> QED
      BY Zenon, <2>1, <2>2, <2>3 DEF KvTypes
  <1>5. Blank' /\ KeptHolds' /\ Victims'
    BY Zenon, <1>1, <1>2 DEF KvInv, Blank, KeptHolds, Victims, NoManifest
  <1>6. RowsExact'
    <2>1. \A c \in Evicting : c \in Chunks /\ chunks[c].ref = 0 /\ chunks'[c].ref = 0
      BY Zenon, <1>1, DeadZero DEF Evicting, Live, NoRow
    <2>2. \A c \in Chunks \ Evicting : chunks'[c] = chunks[c]
      BY Zenon, <1>1
    <2> QED
      BY Zenon, <1>3, <2>1, <2>2, RowsKept
  <1>7. HeldSurvive'
    <2>1. HeldNow' \subseteq HeldNow
      BY Zenon, <1>1, <1>2 DEF HeldNow, Pinned
    <2>2. ASSUME NEW o \in HeldNow
          PROVE  chunks'[o[1]] = chunks[o[1]] /\ chunks[o[1]].st \in Live
      BY Zenon, <1>1, HeldRow DEF Live, Evicting
    <2> QED
      BY Zenon, <2>1, <2>2, HeldKept
  <1> QED
    BY Zenon, <1>4, <1>5, <1>6, <1>7 DEF KvInv

----------------------------------------------------------------------------
LEMMA KvStep == KvInv /\ [Next /\ UNCHANGED deployed]_vars => KvInv'
  <1> SUFFICES ASSUME KvInv, [Next /\ UNCHANGED deployed]_vars PROVE KvInv'
    BY Zenon
  <1>1. CASE Publication
    BY Zenon, <1>1, WriterStepInv, CatalogInv, PublishInv DEF Publication, WriterStep
  <1>2. CASE Collection
    BY Zenon, <1>2, CollectorAlone, EvictInv, DeleteManifestInv, SelectInv, DeleteChunksInv DEF Collection
  <1>3. CASE Demotion
    BY Zenon, <1>3, DemoterAlone, DemoteInv DEF Demotion
  <1>4. CASE Reading
    BY Zenon, <1>4, ReaderInv, LeaseInv DEF Reading, ReaderStep, LeaseStep
  <1>5. CASE CrashReopen
    BY Zenon, <1>5, CrashInv
  <1>6. CASE UNCHANGED vars
    <2>1. UNCHANGED <<uploads, writer, salts, chunks, manifests, lease, leaked, reader, collector>>
      BY Zenon, <1>6 DEF vars
    <2>2. KvTypes' /\ Victims'
      BY Zenon, <2>1 DEF KvInv, KvTypes, RowTypes, WriterTypes, HolderTypes, Victims
    <2> QED
      BY Zenon, <2>1, <2>2, RowsAlone DEF KvInv
  <1> QED
    BY <1>1, <1>2, <1>3, <1>4, <1>5, <1>6 DEF Next

(* The inductive invariant: whatever LocalStore publishes, imports, evicts,*)
(* collects, demotes, pins or leases, and wherever it crashes.             *)
THEOREM KvInvariant == Spec => []KvInv
  BY KvInit, KvStep, PTL DEF Spec

\* refcount counts exactly the manifests that name a chunk, and no collection,
\* demotion, restart or racing publication takes the row of a chunk that a
\* manifest names (publish_manifest_batch_inner, gc_chunk_batch,
\* evict_manifest_one, reconcile_evictions).
THEOREM ReferencedRowsStay == Spec => []RowsExact
  BY KvInvariant, PTL DEF KvInv

\* No collection takes an object under a pin, or under a source lease that has
\* not lapsed since acquire_source_lease, restarts included.
THEOREM HeldObjectsStay == Spec => []HeldSurvive
  BY KvInvariant, PTL DEF KvInv
=============================================================================
