------------------------ MODULE VerifierJournalTypes ------------------------
(***************************************************************************)
(* VerifierJournal for every set of request ids and fragments, every draft *)
(* and context bound and any number of crashes and failed writes: the      *)
(* types of its records, and that what was answered stays decided.  Last,  *)
(* the invariant Good, which says what the records on disk say of each     *)
(* other, of the memory and of the renderer as long as no write fails.     *)
(***************************************************************************)
EXTENDS VerifierJournal, TLAPS

Intents == {"verify", "close"}

RoundSet == [id : Ids, intent : Intents, drafts : 0..MaxDrafts, base : Seq(Links)]
ResultSet == [id : Ids, intent : Intents, round : RoundSet, base : Seq(Links),
              out : {"open", "eos", "closed"}, height : 0..MaxContext, frags : SUBSET Frags]

(* What a reservation and every later record is about.                     *)
Fit(r) == r \in RoundSet /\ r \in Rounds(r.base)
GoodRound(r) == r \in RoundSet /\ r \in Rounds(r.base) /\ ~Closed(r.base)
GoodResult(x) == x \in ResultSet /\ x.round.id = x.id /\ x.round.base = x.base
                 /\ ~Closed(x.base)

LEMMA Records ==
    /\ NoRecord # Torn
    /\ \A r \in RoundSet : r # NoRecord /\ r # Torn
    /\ \A x \in ResultSet : x # NoRecord /\ x # Torn
<1>1. NoRecord # Torn
    BY Zenon DEF NoRecord, Torn
<1>2. ASSUME NEW r \in RoundSet PROVE r # NoRecord /\ r # Torn
  <2>1. DOMAIN r = {"id", "intent", "drafts", "base"}
    BY Zenon DEF RoundSet
  <2>2. DOMAIN NoRecord = {"slot"} /\ DOMAIN Torn = {"slot"}
    BY Zenon DEF NoRecord, Torn
  <2> QED BY Zenon, <2>1, <2>2
<1>3. ASSUME NEW x \in ResultSet PROVE x # NoRecord /\ x # Torn
  <2>1. DOMAIN x = {"id", "intent", "round", "base", "out", "height", "frags"}
    BY Zenon DEF ResultSet
  <2>2. DOMAIN NoRecord = {"slot"} /\ DOMAIN Torn = {"slot"}
    BY Zenon DEF NoRecord, Torn
  <2> QED BY Zenon, <2>1, <2>2
<1> QED BY Zenon, <1>1, <1>2, <1>3

LEMMA HeightBound ==
    ASSUME NEW h \in Seq(Links)
    PROVE  Height(h) \in 0..MaxContext
<1>1. CASE h = <<>>
    BY <1>1, JournalAssumption DEF Height, JournalAssumption
<1>2. CASE h # <<>>
  <2>1. Len(h) \in 1..Len(h) /\ h[Len(h)] \in Links
    BY <1>2
  <2>2. h[Len(h)].height \in 0..MaxContext
    BY Zenon, <2>1 DEF Links
  <2> QED BY Zenon, <1>2, <2>2 DEF Height
<1> QED BY Zenon, <1>1, <1>2

(* The evaluation of a round is a result of it.                            *)
LEMMA ResultTyped ==
    ASSUME NEW r, Fit(r), NEW x \in Results(r)
    PROVE  x \in ResultSet /\ x.id = r.id /\ x.round = r /\ x.base = r.base
<1>1. PICK d \in Decisions(r) :
          x = [id |-> r.id, intent |-> r.intent, round |-> r, base |-> r.base, out |-> d[1],
               height |-> Height(r.base) + d[2], frags |-> d[3]]
    BY Zenon DEF Results
<1>2. r.base \in Seq(Links) /\ Height(r.base) \in 0..MaxContext /\ r \in RoundSet
    BY Zenon, HeightBound DEF Fit, RoundSet
<1>3. /\ d[1] \in {"open", "eos", "closed"}
      /\ Height(r.base) + d[2] \in 0..MaxContext
      /\ d[3] \in SUBSET Frags
  <2>1. CASE r.intent = "close"
    BY <1>2, <2>1 DEF Decisions
  <2>2. CASE r.intent # "close"
    <3>1. Height(r.base) + 1 + r.drafts <= MaxContext /\ r.drafts \in Nat
        BY <1>2, <2>2 DEF Fit, Rounds, RoundSet
    <3>2. d[1] \in {"open", "eos"} /\ d[2] \in 1..(r.drafts + 1) /\ d[3] \in Closures
        BY Zenon, <2>2 DEF Decisions
    <3>3. Height(r.base) + d[2] \in 0..MaxContext
        BY <1>2, <3>1, <3>2, JournalAssumption DEF JournalAssumption
    <3> QED BY Zenon, <3>2, <3>3, JournalAssumption DEF JournalAssumption
  <2> QED BY Zenon, <2>1, <2>2
<1> QED BY Zenon, <1>1, <1>2, <1>3 DEF ResultSet, RoundSet

(* The evaluation of a good round is a good result of it.                  *)
LEMMA ResultGood ==
    ASSUME NEW r, GoodRound(r), NEW x \in Results(r)
    PROVE  GoodResult(x) /\ x.round = r /\ x.id = r.id /\ x.base = r.base
<1>1. x \in ResultSet /\ x.id = r.id /\ x.round = r /\ x.base = r.base
    BY Zenon, ResultTyped DEF GoodRound, Fit
<1> QED BY Zenon, <1>1 DEF GoodResult, GoodRound

(* A head grows by one link.                                               *)
LEMMA HeadGrows ==
    ASSUME NEW x \in ResultSet
    PROVE  /\ x.base \in Seq(Links) /\ Link(x) \in Links /\ Link(x).id = x.id
           /\ NewHead(x) \in Seq(Links) /\ Len(NewHead(x)) = Len(x.base) + 1
           /\ NewHead(x) # <<>> /\ NewHead(x)[Len(NewHead(x))] = Link(x)
           /\ SubSeq(NewHead(x), 1, Len(x.base)) = x.base
<1>1. x.base \in Seq(Links) /\ Link(x) \in Links /\ Link(x).id = x.id
    BY Zenon DEF ResultSet, Link, Links, Intents
<1>2. NewHead(x) = Append(x.base, Link(x))
    BY Zenon DEF NewHead
<1> QED BY <1>1, <1>2

LEMMA SameHead ==
    ASSUME NEW x \in ResultSet, NEW y \in ResultSet, NewHead(x) = NewHead(y)
    PROVE  x.id = y.id
    BY HeadGrows

-----------------------------------------------------------------------------
(* Types, and the part that holds whatever writes fail.                    *)
RecordOK(d, i, rec) ==
    rec.id = i /\ IF d = "reservations" THEN GoodRound(rec) ELSE GoodResult(rec)

DiskType ==
    /\ disk \in [Dirs -> [Ids -> RoundSet \cup ResultSet \cup {NoRecord, Torn}]]
    /\ \A d \in Dirs, i \in Ids :
          disk[d][i] \notin {NoRecord, Torn} => RecordOK(d, i, disk[d][i])

Slots == [Ids -> ResultSet \cup {NoRecord}]

MemType ==
    /\ mem \in [head : Seq(Links), pending : ResultSet \cup {NoRecord},
                reservations : [Ids -> RoundSet \cup {NoRecord}], prepared : Slots,
                staged : Slots, completions : Slots, acks : Slots, tombstones : Slots]
    /\ mem.pending # NoRecord => GoodResult(mem.pending)
    /\ \A i \in Ids :
          /\ mem.reservations[i] # NoRecord => RecordOK("reservations", i, mem.reservations[i])
          /\ mem.prepared[i] # NoRecord => RecordOK("prepared", i, mem.prepared[i])
          /\ mem.completions[i] # NoRecord => RecordOK("commits", i, mem.completions[i])

OpType ==
    \/ op = Idle
    \/ /\ up
       /\ op \in [do : {"stage", "record", "activate", "publish", "retire"}, id : Ids]
       /\ op.do \in {"stage", "record"} => mem.prepared[op.id] # NoRecord
       /\ op.do \in {"activate", "publish"} => mem.pending # NoRecord
       /\ op.do = "retire" => /\ mem.completions[op.id] # NoRecord
                              /\ mem.tombstones[op.id] # NoRecord

(* A commit record and its active record are never rewritten, and what is  *)
(* answered is read from them.                                             *)
Decided ==
    /\ mem.pending # NoRecord => disk["commits"][mem.pending.id] = mem.pending
    /\ \A i \in Ids : mem.completions[i] # NoRecord =>
          /\ disk["commits"][i] = mem.completions[i]
          /\ disk["active"][i] = mem.completions[i]
    /\ \A x \in told : /\ x \in ResultSet
                       /\ disk["commits"][x.id] = x /\ disk["active"][x.id] = x

TypeInv == DiskType /\ MemType /\ OpType /\ Decided
           /\ cas \in [Frags -> {"absent", "whole", "torn"}]

Only(d, i) == \A e \in Dirs, j \in Ids : e # d \/ j # i => disk'[e][j] = disk[e][j]

LEMMA WriteEffect ==
    ASSUME DiskType, NEW d \in Dirs, NEW i \in Ids, NEW rec, RecordOK(d, i, rec),
           Write(d, i, rec) \/ WriteFails(d, i, rec)
    PROVE  /\ DiskType' /\ Only(d, i)
           /\ disk[d][i] = NoRecord /\ disk'[d][i] \in {rec, Torn}
           /\ Write(d, i, rec) => disk'[d][i] = rec
<1>1. PICK left \in {rec, Torn} : /\ disk' = [disk EXCEPT ![d][i] = left]
                                  /\ Write(d, i, rec) => left = rec
    BY Zenon DEF Write, WriteFails
<1>2. disk[d][i] = NoRecord
    BY Zenon DEF Write, WriteFails
<1>3. left \in RoundSet \cup ResultSet \cup {NoRecord, Torn}
    BY Zenon DEF RecordOK, GoodRound, GoodResult
<1>4. Only(d, i) /\ disk'[d][i] = left
    BY Zenon, <1>1 DEF Only, DiskType
<1>5. disk' \in [Dirs -> [Ids -> RoundSet \cup ResultSet \cup {NoRecord, Torn}]]
    BY Zenon, <1>1, <1>3 DEF DiskType
<1>6. ASSUME NEW e \in Dirs, NEW j \in Ids, disk'[e][j] \notin {NoRecord, Torn}
      PROVE  RecordOK(e, j, disk'[e][j])
  <2>1. CASE e = d /\ j = i
    BY Zenon, <1>4, <1>6, <2>1
  <2>2. CASE e # d \/ j # i
    BY Zenon, <1>4, <1>6, <2>2 DEF Only, DiskType
  <2> QED BY Zenon, <2>1, <2>2
<1> QED BY Zenon, <1>1, <1>2, <1>4, <1>5, <1>6 DEF DiskType

LEMMA InitType == JournalInit => TypeInv
<1> SUFFICES ASSUME JournalInit PROVE TypeInv
    BY Zenon
<1>1. DiskType
    BY Zenon DEF JournalInit, DiskType, Blank
<1>2. MemType
    BY DEF JournalInit, MemType, Fresh, Blank, Slots
<1>3. OpType /\ Decided
    BY Zenon DEF JournalInit, OpType, Decided, Fresh, Blank
<1> QED BY Zenon, <1>1, <1>2, <1>3 DEF TypeInv, JournalInit

(* Whatever adds a record leaves the decisions alone.                      *)
LEMMA KeepsDecided ==
    ASSUME DiskType, Decided, NEW d \in Dirs, NEW i \in Ids, Only(d, i), disk[d][i] = NoRecord,
           mem'.pending = mem.pending, mem'.completions = mem.completions,
           MemType, UNCHANGED told
    PROVE  Decided'
<1>2. \A e \in {"commits", "active"}, j \in Ids :
          disk[e][j] # NoRecord => disk'[e][j] = disk[e][j]
    BY DEF Only, Dirs
<1>3. mem.pending # NoRecord => mem.pending \in ResultSet /\ mem.pending.id \in Ids
    BY Zenon DEF MemType, ResultSet
<1>4. \A x \in told : x \in ResultSet /\ x.id \in Ids
    BY Zenon DEF Decided, ResultSet
<1> QED BY <1>2, <1>3, <1>4, Records DEF Decided

LEMMA ReserveType ==
    ASSUME TypeInv, NEW r \in Rounds(mem.head), Reserve(r)
    PROVE  TypeInv'
<1> USE DEF TypeInv
<1>1. GoodRound(r) /\ r.id \in Ids /\ r # NoRecord
  <2>1. r \in RoundSet /\ r.base = mem.head
    BY Zenon DEF Rounds, RoundSet, Intents, MemType
  <2>2. ~Closed(mem.head)
    BY Zenon DEF Reserve, Admits
  <2> QED BY Zenon, <2>1, <2>2, Records DEF GoodRound, RoundSet
<1>2. /\ DiskType' /\ Only("reservations", r.id) /\ disk["reservations"][r.id] = NoRecord
    BY Zenon, <1>1, WriteEffect DEF Reserve, RecordOK, Dirs
<1>3. /\ mem' \in {mem, [mem EXCEPT !.reservations[r.id] = r]}
      /\ UNCHANGED <<cas, op, up, told>>
    BY Zenon DEF Reserve
<1>4. MemType'
    BY <1>1, <1>3 DEF MemType, RecordOK, GoodRound
<1>5. Decided'
  <2>1. mem'.pending = mem.pending /\ mem'.completions = mem.completions
    BY Zenon, <1>3 DEF MemType
  <2> QED BY Zenon, <1>1, <1>2, <1>3, <2>1, KeepsDecided DEF Dirs
<1>6. OpType'
    BY Zenon, <1>3 DEF OpType, Reserve, Ready
<1> QED BY Zenon, <1>2, <1>3, <1>4, <1>5, <1>6

LEMMA PrepareType ==
    ASSUME TypeInv, NEW i \in Having(mem.reservations),
           NEW x \in Results(mem.reservations[i]), Prepare(x)
    PROVE  TypeInv'
<1> USE DEF TypeInv
<1>1. GoodResult(x) /\ x.id \in Ids /\ x # NoRecord
  <2>1. GoodRound(mem.reservations[i])
    BY Zenon DEF Having, MemType, RecordOK
  <2> QED BY <2>1, ResultGood, Records DEF GoodResult, ResultSet
<1>2. /\ DiskType' /\ Only("prepared", x.id) /\ disk["prepared"][x.id] = NoRecord
    BY Zenon, <1>1, WriteEffect DEF Prepare, RecordOK, Dirs
<1>3. /\ mem' \in {mem, [mem EXCEPT !.prepared[x.id] = x]}
      /\ UNCHANGED <<cas, op, up, told>>
    BY Zenon DEF Prepare
<1>4. MemType'
    BY <1>1, <1>3 DEF MemType, RecordOK, GoodResult, Slots
<1>5. Decided'
  <2>1. mem'.pending = mem.pending /\ mem'.completions = mem.completions
    BY Zenon, <1>3 DEF MemType
  <2> QED BY Zenon, <1>1, <1>2, <1>3, <2>1, KeepsDecided DEF Dirs
<1>6. OpType'
    BY Zenon, <1>3 DEF OpType, Prepare, Ready
<1> QED BY Zenon, <1>2, <1>3, <1>4, <1>5, <1>6

(* Nothing but the progress of the call, the fragments and the renderer.   *)
LEMMA StageType ==
    ASSUME TypeInv,
           \/ \E i \in Ids : StageBegin(i)
           \/ StageFragment \/ StageRender \/ Recover \/ Activate
    PROVE  TypeInv'
<1> USE DEF TypeInv
<1>1. UNCHANGED <<disk, mem, up, told>>
    BY Zenon DEF StageBegin, StageFragment, StageRender, Recover, Activate, store, renderer
<1>2. DiskType' /\ MemType' /\ Decided'
    BY Zenon, <1>1 DEF DiskType, MemType, Decided
<1>3. cas' \in [Frags -> {"absent", "whole", "torn"}]
    BY Zenon DEF StageBegin, StageFragment, StageRender, Recover, Activate, store
<1>4. OpType'
  <2>1. ASSUME NEW i \in Ids, StageBegin(i) PROVE OpType'
    BY <1>1, <2>1 DEF StageBegin, Ready, OpType
  <2>2. CASE StageFragment
    BY <1>1, <2>2 DEF StageFragment, OpType
  <2>3. CASE StageRender
    BY <1>1, <2>3 DEF StageRender, OpType, Idle
  <2>4. CASE Recover
    <3>1. mem.pending.id \in Ids
        BY Zenon, <2>4 DEF Recover, MemType, GoodResult, ResultSet
    <3> QED BY <1>1, <2>4, <3>1 DEF Recover, Ready, OpType
  <2>5. CASE Activate
    BY <1>1, <2>5 DEF Activate, OpType, Idle
  <2> QED BY Zenon, <2>1, <2>2, <2>3, <2>4, <2>5
<1> QED BY Zenon, <1>2, <1>3, <1>4

LEMMA ReplayType ==
    ASSUME TypeInv, NEW r, Replay(r), r.id \in Ids
    PROVE  TypeInv'
<1> USE DEF TypeInv
<1>1. UNCHANGED <<disk, cas, mem, op, up>> /\ told' = told \cup {mem.completions[r.id]}
    BY Zenon DEF Replay, store
<1>2. DiskType' /\ MemType' /\ OpType'
    BY Zenon, <1>1 DEF DiskType, MemType, OpType
<1>3. /\ mem.completions[r.id] \in ResultSet /\ mem.completions[r.id].id = r.id
      /\ mem.completions[r.id] # NoRecord
    BY Zenon DEF Replay, MemType, RecordOK, GoodResult
<1>4. Decided'
    BY <1>1, <1>3 DEF Decided
<1> QED BY Zenon, <1>1, <1>2, <1>4

LEMMA StageRecordType ==
    ASSUME TypeInv, StageRecord
    PROVE  TypeInv'
<1> USE DEF TypeInv
<1>1. PICK i \in Ids : i = op.id /\ mem.prepared[i] # NoRecord
    BY DEF StageRecord, OpType, Idle
<1>2. PICK x \in ResultSet : x = mem.prepared[i] /\ x.id = i /\ GoodResult(x) /\ x # NoRecord
    BY Zenon, <1>1 DEF MemType, RecordOK, GoodResult
<1>3. UNCHANGED <<cas, up, told>> /\ op' = Idle
    BY Zenon DEF StageRecord
<1>4. CASE disk' = disk /\ mem' = mem
    BY Zenon, <1>3, <1>4 DEF DiskType, MemType, OpType, Decided
<1>5. CASE /\ Write("staged", i, x) \/ WriteFails("staged", i, x)
           /\ mem' \in {mem, [mem EXCEPT !.staged[i] = x]}
  <2>1. /\ DiskType' /\ Only("staged", i) /\ disk["staged"][i] = NoRecord
    BY Zenon, <1>2, <1>5, WriteEffect DEF RecordOK, Dirs
  <2>2. MemType'
    BY <1>2, <1>5 DEF MemType, Slots
  <2>3. Decided'
    <3>1. mem'.pending = mem.pending /\ mem'.completions = mem.completions
        BY Zenon, <1>5 DEF MemType
    <3> QED BY Zenon, <1>3, <2>1, <3>1, KeepsDecided DEF Dirs
  <2> QED BY Zenon, <1>3, <2>1, <2>2, <2>3 DEF OpType
<1> QED BY Zenon, <1>1, <1>2, <1>4, <1>5 DEF StageRecord

LEMMA CommitType ==
    ASSUME TypeInv, NEW i \in Ids, CommitRound(i)
    PROVE  TypeInv'
<1> USE DEF TypeInv
<1>1. PICK x \in ResultSet : x = mem.prepared[i] /\ x.id = i /\ GoodResult(x) /\ x # NoRecord
  <2>1. mem.prepared[i] # NoRecord
    BY Zenon DEF CommitRound
  <2> QED BY Zenon, <2>1 DEF MemType, RecordOK, GoodResult
<1>2. /\ Write("commits", i, x) \/ WriteFails("commits", i, x)
      /\ UNCHANGED <<cas, up, told>>
      /\ \/ /\ mem' = [mem EXCEPT !.pending = x] /\ Write("commits", i, x)
            /\ op' = [do |-> "activate", id |-> i]
         \/ mem' = mem /\ op' = op
    BY Zenon, <1>1 DEF CommitRound
<1>3. /\ DiskType' /\ Only("commits", i) /\ disk["commits"][i] = NoRecord
      /\ Write("commits", i, x) => disk'["commits"][i] = x
    BY <1>1, <1>2, WriteEffect DEF RecordOK, Dirs
<1>4. MemType'
    BY <1>1, <1>2 DEF MemType, Slots
<1>5. OpType'
  <2>1. mem'.pending = x \/ op' = Idle
    BY Zenon, <1>2 DEF CommitRound, Ready, MemType
  <2> QED BY <1>1, <1>2, <2>1 DEF CommitRound, Ready, OpType
<1>6. Decided'
  <2>1. mem.pending = NoRecord /\ mem'.completions = mem.completions /\ mem'.pending \in {x, NoRecord}
        /\ (mem'.pending = x => disk'["commits"][i] = x)
    BY Zenon, <1>1, <1>2, <1>3 DEF CommitRound, MemType
  <2>2. \A e \in {"commits", "active"}, j \in Ids :
            disk[e][j] # NoRecord => disk'[e][j] = disk[e][j]
    BY <1>3 DEF Only, Dirs
  <2>3. \A y \in told : y \in ResultSet /\ y.id \in Ids
    BY DEF Decided, ResultSet
  <2> QED BY <1>1, <1>2, <2>1, <2>2, <2>3, Records DEF Decided
<1> QED BY Zenon, <1>2, <1>3, <1>4, <1>5, <1>6

LEMMA PublishType ==
    ASSUME TypeInv, PublishActive
    PROVE  TypeInv'
<1> USE DEF TypeInv
<1>1. PICK x \in ResultSet : /\ x = mem.pending /\ x.id \in Ids /\ GoodResult(x) /\ x # NoRecord
                             /\ disk["commits"][x.id] = x
  <2>1. mem.pending # NoRecord
    BY DEF PublishActive, OpType, Idle
  <2> QED BY Zenon, <2>1 DEF MemType, GoodResult, ResultSet, Decided
<1>2. UNCHANGED <<cas, up>> /\ op' = Idle
    BY Zenon DEF PublishActive
<1>3. DiskType' /\ \A e \in {"commits", "active"}, j \in Ids :
                      disk[e][j] # NoRecord => disk'[e][j] = disk[e][j]
  <2>1. CASE UNCHANGED disk
    BY Zenon, <2>1 DEF DiskType
  <2>2. CASE Write("active", x.id, x) \/ WriteFails("active", x.id, x)
    <3>1. DiskType' /\ Only("active", x.id) /\ disk["active"][x.id] = NoRecord
        BY Zenon, <1>1, <2>2, WriteEffect DEF RecordOK, Dirs
    <3> QED BY Zenon, <3>1 DEF Only, Dirs
  <2> QED BY Zenon, <1>1, <2>1, <2>2 DEF PublishActive
<1>4. CASE UNCHANGED <<mem, told>>
  <2>1. \A y \in told : y \in ResultSet /\ y.id \in Ids
    BY Zenon DEF Decided, ResultSet
  <2>2. Decided'
    BY <1>1, <1>3, <1>4, <2>1, Records DEF Decided
  <2> QED BY Zenon, <1>2, <1>3, <1>4, <2>2 DEF MemType, OpType
<1>5. CASE /\ mem' = [ApplyActive(mem, x) EXCEPT !.pending = NoRecord]
           /\ told' = told \cup {x} /\ disk'["active"][x.id] = x
  <2>1. /\ mem' = [mem EXCEPT !.head = NewHead(x), !.completions = [@ EXCEPT ![x.id] = x],
                              !.pending = NoRecord]
    BY Zenon, <1>5 DEF ApplyActive
  <2>2. MemType'
    BY ZenonT(60), <1>1, <2>1, HeadGrows DEF MemType, Slots, RecordOK
  <2>3. /\ mem'.pending = NoRecord
        /\ mem'.completions = [mem.completions EXCEPT ![x.id] = x]
    BY Zenon, <2>1 DEF MemType
  <2>4. \A y \in told : y \in ResultSet /\ y.id \in Ids
    BY Zenon DEF Decided, ResultSet
  <2>5. disk'["commits"][x.id] = x /\ disk'["active"][x.id] = x
    BY Zenon, <1>1, <1>3, <1>5
  <2>6. ASSUME NEW j \in Ids, mem'.completions[j] # NoRecord
        PROVE  disk'["commits"][j] = mem'.completions[j] /\ disk'["active"][j] = mem'.completions[j]
    <3>1. CASE j = x.id
        BY Zenon, <2>3, <2>5, <3>1 DEF MemType, Slots
    <3>2. CASE j # x.id
        BY <1>3, <2>3, <2>6, <3>2 DEF MemType, Slots, Decided
    <3> QED BY Zenon, <3>1, <3>2
  <2>7. ASSUME NEW y \in told'
        PROVE  y \in ResultSet /\ disk'["commits"][y.id] = y /\ disk'["active"][y.id] = y
    <3>1. CASE y = x
        BY Zenon, <2>5, <3>1
    <3>2. CASE y \in told
        BY <1>3, <2>4, <3>2, Records DEF Decided
    <3> QED BY Zenon, <1>5, <3>1, <3>2
  <2>8. Decided'
    BY Zenon, <2>3, <2>6, <2>7 DEF Decided
  <2> QED BY Zenon, <1>2, <1>3, <2>2, <2>8 DEF OpType
<1>6. Write("active", x.id, x) => disk'["active"][x.id] = x
    BY <1>1, WriteEffect DEF RecordOK, Dirs
<1> QED BY Zenon, <1>1, <1>4, <1>5, <1>6 DEF PublishActive

LEMMA AcknowledgeType ==
    ASSUME TypeInv, NEW i \in Ids, Acknowledge(i)
    PROVE  TypeInv'
<1> USE DEF TypeInv
<1>1. PICK x \in ResultSet : x = mem.completions[i] /\ x.id = i /\ GoodResult(x)
  <2>1. mem.completions[i] # NoRecord
    BY Zenon DEF Acknowledge
  <2> QED BY Zenon, <2>1 DEF MemType, RecordOK, GoodResult
<1>2. /\ Write("acks", i, x) \/ WriteFails("acks", i, x)
      /\ mem' \in {mem, [mem EXCEPT !.acks[i] = x]}
      /\ UNCHANGED <<cas, op, up, told>> /\ op = Idle
    BY Zenon, <1>1 DEF Acknowledge, Ready
<1>3. DiskType' /\ Only("acks", i) /\ disk["acks"][i] = NoRecord
    BY Zenon, <1>1, <1>2, WriteEffect DEF RecordOK, Dirs
<1>4. MemType' /\ mem'.pending = mem.pending /\ mem'.completions = mem.completions
    BY <1>1, <1>2 DEF MemType, Slots
<1>5. Decided'
    BY Zenon, <1>2, <1>3, <1>4, KeepsDecided DEF Dirs
<1> QED BY Zenon, <1>2, <1>3, <1>4, <1>5 DEF OpType

LEMMA RetireType ==
    ASSUME TypeInv, NEW i \in Ids, Retire(i)
    PROVE  TypeInv'
<1> USE DEF TypeInv
<1>1. PICK x \in ResultSet : /\ x = mem.completions[i] /\ x.id = i /\ GoodResult(x)
                             /\ x # NoRecord
  <2>1. mem.completions[i] # NoRecord
    BY Zenon DEF Retire
  <2> QED BY Zenon, <2>1 DEF MemType, RecordOK, GoodResult
<1>2. UNCHANGED <<cas, up, told>> /\ up /\ op = Idle
    BY Zenon DEF Retire, Ready
<1>3. CASE /\ mem.tombstones[i] # NoRecord /\ op' = [do |-> "retire", id |-> i]
           /\ UNCHANGED <<disk, mem>>
    BY Zenon, <1>1, <1>2, <1>3 DEF DiskType, MemType, Decided, OpType
<1>4. CASE /\ Write("tombstones", i, x) \/ WriteFails("tombstones", i, x)
           /\ \/ mem' = [mem EXCEPT !.tombstones[i] = x] /\ op' = [do |-> "retire", id |-> i]
              \/ UNCHANGED <<mem, op>>
  <2>1. DiskType' /\ Only("tombstones", i) /\ disk["tombstones"][i] = NoRecord
    BY Zenon, <1>1, <1>4, WriteEffect DEF RecordOK, Dirs
  <2>2. MemType' /\ mem'.pending = mem.pending /\ mem'.completions = mem.completions
    BY SMTT(60), <1>1, <1>4 DEF MemType, Slots
  <2>3. Decided'
    BY Zenon, <1>2, <2>1, <2>2, KeepsDecided DEF Dirs
  <2>4. OpType'
    BY <1>1, <1>2, <1>4, <2>2 DEF OpType, MemType, Slots
  <2> QED BY Zenon, <1>2, <2>1, <2>2, <2>3, <2>4
<1> QED BY Zenon, <1>1, <1>3, <1>4 DEF Retire

LEMMA UnlinkType ==
    ASSUME TypeInv, RetireUnlink
    PROVE  /\ TypeInv'
           /\ \A d \in Dirs \ RetireDirs : disk'[d] = disk[d]
<1> USE DEF TypeInv
<1>1. UNCHANGED <<mem, op, up, told>> /\ op.id \in Ids
    BY DEF RetireUnlink, OpType, Idle
<1>2. /\ cas' \in [Frags -> {"absent", "whole", "torn"}]
      /\ \/ disk' = disk
         \/ \E d \in RetireDirs : disk' = [disk EXCEPT ![d][op.id] = NoRecord]
    BY Zenon DEF RetireUnlink
<1>3. DiskType' /\ \A d \in Dirs \ RetireDirs : disk'[d] = disk[d]
  <2>1. CASE disk' = disk
    BY Zenon, <2>1 DEF DiskType
  <2>2. ASSUME NEW d \in RetireDirs, disk' = [disk EXCEPT ![d][op.id] = NoRecord]
        PROVE  DiskType' /\ \A e \in Dirs \ RetireDirs : disk'[e] = disk[e]
    <3>1. d \in Dirs
        BY Zenon DEF Dirs, RetireDirs
    <3>2. disk' \in [Dirs -> [Ids -> RoundSet \cup ResultSet \cup {NoRecord, Torn}]]
        BY Zenon, <1>1, <2>2, <3>1 DEF DiskType
    <3>3. \A e \in Dirs, j \in Ids : disk'[e][j] \in {disk[e][j], NoRecord}
        BY Zenon, <1>1, <2>2, <3>1 DEF DiskType
    <3>4. \A e \in Dirs \ RetireDirs : disk'[e] = disk[e]
        BY Zenon, <1>1, <2>2, <3>1 DEF DiskType
    <3> QED BY Zenon, <3>2, <3>3, <3>4 DEF DiskType
  <2> QED BY Zenon, <1>2, <2>1, <2>2
<1>4. disk'["commits"] = disk["commits"] /\ disk'["active"] = disk["active"]
    BY Zenon, <1>3 DEF Dirs, RetireDirs
<1>5. MemType' /\ OpType' /\ Decided'
    BY <1>1, <1>4 DEF MemType, OpType, Decided
<1> QED BY Zenon, <1>2, <1>3, <1>5

LEMMA RetireEndType ==
    ASSUME TypeInv, RetireEnd
    PROVE  TypeInv'
<1> USE DEF TypeInv
<1>1. PICK i \in Ids : i = op.id
    BY DEF RetireEnd, OpType, Idle
<1>2. /\ mem' = [mem EXCEPT !.reservations[i] = NoRecord, !.prepared[i] = NoRecord,
                            !.staged[i] = NoRecord, !.completions[i] = NoRecord,
                            !.acks[i] = NoRecord]
      /\ op' = Idle /\ UNCHANGED <<disk, cas, told>>
    BY Zenon, <1>1 DEF RetireEnd, store
<1>3. MemType'
    BY Zenon, <1>2 DEF MemType, Slots
<1>4. Decided'
  <2>1. /\ mem'.pending = mem.pending
        /\ \A j \in Ids : mem'.completions[j] \in {mem.completions[j], NoRecord}
    BY Zenon, <1>2 DEF MemType, Slots
  <2> QED BY Zenon, <1>2, <2>1 DEF Decided
<1>5. DiskType' /\ OpType'
    BY Zenon, <1>2 DEF DiskType, OpType
<1> QED BY Zenon, <1>2, <1>3, <1>4, <1>5

LEMMA CrashType ==
    ASSUME TypeInv, Crash
    PROVE  TypeInv'
<1>1. mem' = Fresh /\ op' = Idle /\ UNCHANGED <<disk, cas, told>>
    BY Zenon DEF Crash, store
<1>2. MemType'
    BY <1>1 DEF MemType, Fresh, Blank, Slots
<1>3. Decided'
    BY Zenon, <1>1 DEF Decided, TypeInv, Fresh, Blank
<1> QED BY Zenon, <1>1, <1>2, <1>3 DEF TypeInv, DiskType, OpType

LEMMA CommitsType ==
    ASSUME DiskType
    PROVE  /\ Commits \subseteq ResultSet /\ Activated \subseteq Commits
           /\ \A x : x \in Commits <=> /\ GoodResult(x) /\ x.id \in Ids
                                       /\ disk["commits"][x.id] = x
<1>1. \A x : x \in Commits <=> GoodResult(x) /\ x.id \in Ids /\ disk["commits"][x.id] = x
    BY Records DEF Commits, Having, DiskType, RecordOK, Dirs, GoodResult
<1> QED BY Zenon, <1>1 DEF GoodResult, Activated

LEMMA MaxLongest ==
    ASSUME NEW C \in SUBSET ResultSet, NEW m \in C,
           \A y \in C : /\ Len(y.base) <= Len(m.base)
                        /\ Len(y.base) = Len(m.base) => NewHead(y) = NewHead(m)
    PROVE  Longest(C) = NewHead(m)
<1>1. PICK z \in C : /\ z = CHOOSE x \in C : \A y \in C : Len(y.base) <= Len(x.base)
                     /\ \A y \in C : Len(y.base) <= Len(z.base)
    BY Zenon
<1>2. Longest(C) = NewHead(z)
    BY Zenon, <1>1 DEF Longest
<1>3. Len(z.base) \in Nat /\ Len(m.base) \in Nat
    BY DEF ResultSet
<1>4. Len(z.base) = Len(m.base)
    BY <1>1, <1>3
<1> QED BY Zenon, <1>2, <1>4

(* The last commit of a chain is its head.                                 *)
LEMMA ChainTop ==
    ASSUME NEW C \in SUBSET ResultSet, Chained(C), C # {}
    PROVE  \E last \in C :
              /\ Longest(C) = NewHead(last)
              /\ \A x \in C : /\ Len(x.base) <= Len(last.base)
                              /\ NewHead(x) = SubSeq(NewHead(last), 1, Len(x.base) + 1)
                              /\ Len(x.base) = Len(last.base) => NewHead(x) = NewHead(last)
              /\ \A k \in 0..Len(last.base) : \E x \in C : Len(x.base) = k
<1>1. PICK last \in C :
          /\ \A x \in C : /\ Len(x.base) <= Len(last.base)
                          /\ NewHead(x) = SubSeq(NewHead(last), 1, Len(x.base) + 1)
          /\ \A k \in 0..Len(last.base) : \E x \in C : Len(x.base) = k
    BY Zenon DEF Chained
<1>2. ASSUME NEW x \in C, Len(x.base) = Len(last.base) PROVE NewHead(x) = NewHead(last)
  <2>1. NewHead(last) \in Seq(Links) /\ Len(NewHead(last)) = Len(last.base) + 1
    BY Zenon, HeadGrows
  <2>2. NewHead(x) = SubSeq(NewHead(last), 1, Len(NewHead(last)))
    BY Zenon, <1>1, <1>2, <2>1
  <2> QED BY <2>1, <2>2
<1>3. Longest(C) = NewHead(last)
    BY Zenon, <1>1, <1>2, MaxLongest
<1> QED BY Zenon, <1>1, <1>2, <1>3

LEMMA ChainHead ==
    ASSUME NEW C \in SUBSET ResultSet, Chained(C)
    PROVE  Longest(C) \in Seq(Links)
<1>1. CASE C = {}
    BY <1>1 DEF Longest
<1>2. CASE C # {}
    BY Zenon, <1>2, ChainTop, HeadGrows
<1> QED BY Zenon, <1>1, <1>2

(* So has what is activated of a chain, all of it but the last commit.     *)
LEMMA ActivatedHead ==
    ASSUME DiskType, Chained(Commits),
           \A x \in Commits \ Activated : NewHead(x) = Longest(Commits)
    PROVE  Longest(Activated) \in Seq(Links)
<1>1. Commits \in SUBSET ResultSet /\ Activated \in SUBSET Commits
      /\ \A x, y \in Commits : x.id = y.id => x = y
    BY CommitsType
<1>2. CASE Activated = {}
    BY <1>2 DEF Longest
<1>3. CASE Activated # {}
  <2>1. PICK last \in Commits :
          /\ Longest(Commits) = NewHead(last)
          /\ \A x \in Commits : /\ Len(x.base) <= Len(last.base)
                                /\ NewHead(x) = SubSeq(NewHead(last), 1, Len(x.base) + 1)
                                /\ Len(x.base) = Len(last.base) => NewHead(x) = NewHead(last)
          /\ \A k \in 0..Len(last.base) : \E x \in Commits : Len(x.base) = k
    BY Zenon, <1>1, <1>3, ChainTop
  <2>2. CASE last \in Activated
    <3>1. Longest(Activated) = NewHead(last)
        BY Zenon, <1>1, <2>1, <2>2, MaxLongest
    <3> QED BY Zenon, <1>1, <3>1, HeadGrows
  <2>3. CASE last \notin Activated
    <3>1. \A x \in Commits : Len(x.base) \in Nat
        BY <1>1 DEF ResultSet
    <3>2. \A y \in Commits : Len(y.base) = Len(last.base) => y = last
        BY Zenon, <1>1, <2>1, SameHead
    <3>3. PICK a \in Activated : TRUE
        BY Zenon, <1>3
    <3>4. Len(last.base) # 0
        BY <1>1, <2>1, <2>3, <3>1, <3>2, <3>3
    <3>5. PICK m \in Commits : Len(m.base) = Len(last.base) - 1
      <4>1. Len(last.base) - 1 \in 0..Len(last.base)
        BY <3>1, <3>4
      <4> QED BY Zenon, <2>1, <4>1
    <3>6. m \in Activated
      <4>1. NewHead(m) # NewHead(last)
        BY <1>1, <3>1, <3>5, HeadGrows
      <4> QED BY Zenon, <2>1, <4>1
    <3>7. ASSUME NEW y \in Activated
          PROVE  /\ Len(y.base) <= Len(m.base)
                 /\ Len(y.base) = Len(m.base) => NewHead(y) = NewHead(m)
      <4>1. y \in Commits /\ Len(y.base) # Len(last.base)
        BY Zenon, <1>1, <2>3, <3>2
      <4>2. Len(y.base) <= Len(m.base)
        BY <2>1, <3>1, <3>5, <4>1
      <4>3. ASSUME Len(y.base) = Len(m.base) PROVE NewHead(y) = NewHead(m)
        BY Zenon, <2>1, <4>1, <4>3
      <4> QED BY Zenon, <4>2, <4>3
    <3>8. Longest(Activated) = NewHead(m)
        BY Zenon, <1>1, <3>6, <3>7, MaxLongest
    <3> QED BY Zenon, <1>1, <3>6, <3>8, HeadGrows
  <2> QED BY Zenon, <2>2, <2>3
<1> QED BY Zenon, <1>2, <1>3

LEMMA OpenType ==
    ASSUME TypeInv, Open
    PROVE  TypeInv'
<1> USE DEF TypeInv
<1>1. /\ mem' = Restored /\ op = Idle /\ UNCHANGED <<disk, cas, told, op>>
      /\ \A d \in Dirs, i \in Ids : disk[d][i] # Torn
    BY Zenon DEF Open, store, OpType, Restorable
<1>2. Longest(Activated) \in Seq(Links)
    BY Zenon, ActivatedHead DEF Open, Restorable
<1>3. /\ mem'.head = Longest(Activated)
      /\ mem'.pending = IF Activated = Commits THEN NoRecord
                        ELSE CHOOSE x \in Commits : x \notin Activated
      /\ mem'.acks = disk["acks"] /\ mem'.tombstones = disk["tombstones"]
      /\ mem'.completions = [i \in Ids |-> IF disk["commits"][i] \in Activated
                                           THEN disk["commits"][i] ELSE NoRecord]
    BY Zenon, <1>1 DEF Restored
<1>4. mem'.pending \in Commits \cup {NoRecord}
    BY Zenon, <1>3 DEF Activated
<1>5. \A i \in Ids :
         /\ mem'.reservations[i] \in {NoRecord, disk["reservations"][i]}
         /\ mem'.prepared[i] \in {NoRecord, disk["prepared"][i]}
         /\ mem'.staged[i] \in {NoRecord, disk["staged"][i]}
         /\ mem'.completions[i] = IF disk["commits"][i] \in Activated
                                  THEN disk["commits"][i] ELSE NoRecord
    BY Zenon, <1>1 DEF Restored, Unretired
<1>6. \A i \in Ids : /\ disk["reservations"][i] \in RoundSet \cup {NoRecord}
                     /\ \A d \in Dirs \ {"reservations"} :
                           disk[d][i] \in ResultSet \cup {NoRecord}
    BY <1>1 DEF DiskType, RecordOK, GoodRound, GoodResult, Dirs
<1>7. mem' \in [head : Seq(Links), pending : ResultSet \cup {NoRecord},
                reservations : [Ids -> RoundSet \cup {NoRecord}], prepared : Slots,
                staged : Slots, completions : Slots, acks : Slots, tombstones : Slots]
  <2>1. mem' = [head |-> mem'.head, pending |-> mem'.pending,
                reservations |-> mem'.reservations, prepared |-> mem'.prepared,
                staged |-> mem'.staged, completions |-> mem'.completions,
                acks |-> mem'.acks, tombstones |-> mem'.tombstones]
    BY Zenon, <1>1 DEF Restored
  <2>2. /\ mem'.reservations = [i \in Ids |-> mem'.reservations[i]]
        /\ mem'.prepared = [i \in Ids |-> mem'.prepared[i]]
        /\ mem'.staged = [i \in Ids |-> mem'.staged[i]]
        /\ mem'.completions = [i \in Ids |-> mem'.completions[i]]
    BY Zenon, <1>1 DEF Restored
  <2>3. mem'.reservations \in [Ids -> RoundSet \cup {NoRecord}]
    BY Zenon, <1>5, <1>6, <2>2
  <2>4. mem'.prepared \in Slots /\ mem'.staged \in Slots
    BY Zenon, <1>5, <1>6, <2>2 DEF Slots, Dirs
  <2>5. mem'.completions \in Slots
    BY Zenon, <1>5, <1>6, <2>2 DEF Slots, Dirs
  <2>6. mem'.acks \in Slots /\ mem'.tombstones \in Slots
    BY ZenonT(60), <1>3, <1>6 DEF Slots, Dirs, DiskType
  <2>7. mem'.pending \in ResultSet \cup {NoRecord}
    BY Zenon, <1>4, CommitsType
  <2> QED BY Zenon, <1>2, <1>3, <2>1, <2>3, <2>4, <2>5, <2>6, <2>7
<1>8. MemType'
  <2>1. mem'.pending # NoRecord => GoodResult(mem'.pending)
    BY Zenon, <1>4, CommitsType
  <2>2. ASSUME NEW i \in Ids
        PROVE  /\ mem'.reservations[i] # NoRecord => RecordOK("reservations", i, mem'.reservations[i])
               /\ mem'.prepared[i] # NoRecord => RecordOK("prepared", i, mem'.prepared[i])
               /\ mem'.completions[i] # NoRecord => RecordOK("commits", i, mem'.completions[i])
    BY <1>1, <1>5 DEF DiskType, Dirs
  <2> QED BY Zenon, <1>7, <2>1, <2>2 DEF MemType
<1>9. Decided'
  <2>1. mem'.pending # NoRecord => disk["commits"][mem'.pending.id] = mem'.pending
    BY Zenon, <1>4, CommitsType
  <2>2. ASSUME NEW i \in Ids, mem'.completions[i] # NoRecord
        PROVE  disk["commits"][i] = mem'.completions[i] /\ disk["active"][i] = mem'.completions[i]
    <3>1. mem'.completions[i] = disk["commits"][i] /\ disk["commits"][i] \in Activated
        BY Zenon, <1>5, <2>2
    <3>2. disk["commits"][i].id = i
        BY Zenon, <1>1, <2>2, <3>1 DEF DiskType, RecordOK, Dirs
    <3> QED BY Zenon, <3>1, <3>2 DEF Activated
  <2> QED BY Zenon, <1>1, <2>1, <2>2 DEF Decided
<1> QED BY Zenon, <1>1, <1>8, <1>9 DEF DiskType, OpType

LEMMA StepType == TypeInv /\ [JournalNext]_journalVars => TypeInv'
<1> SUFFICES ASSUME TypeInv, [JournalNext]_journalVars PROVE TypeInv'
    BY Zenon
<1>1. CASE UNCHANGED journalVars
    BY Zenon, <1>1 DEF journalVars, TypeInv, DiskType, MemType, OpType, Decided
<1>2. CASE Calls
  <2>1. ASSUME NEW r \in {mem.completions[i].round : i \in Having(mem.completions)}
                         \cup {mem.reservations[i] : i \in Having(mem.reservations)}
        PROVE  r.id \in Ids
    BY DEF TypeInv, MemType, RecordOK, GoodRound, GoodResult, Having, RoundSet
  <2> QED BY Zenon, <1>2, <2>1, ReserveType, ReplayType, PrepareType, StageType, CommitType,
             AcknowledgeType, RetireType DEF Calls
<1>3. CASE Steps
    BY Zenon, <1>3, StageType, StageRecordType, PublishType, UnlinkType, RetireEndType DEF Steps
<1> QED BY Zenon, <1>1, <1>2, <1>3, CrashType, OpenType DEF JournalNext

LEMMA Typed == JournalSpec => []TypeInv
<1> QED BY InitType, StepType, PTL DEF JournalSpec

LEMMA TypedDecided == TypeInv => AnswersAreDecided
<1> SUFFICES ASSUME TypeInv PROVE AnswersAreDecided
    BY Zenon
<1>1. \A x \in told : disk["commits"][x.id] = x /\ disk["active"][x.id] = x
                      /\ x \in ResultSet /\ x.id \in Ids
    BY Zenon DEF TypeInv, Decided, ResultSet
<1>2. \A x \in told : x \in Commits
    BY Zenon, <1>1, Records DEF Commits, Having
<1> QED BY Zenon, <1>1, <1>2 DEF AnswersAreDecided, Activated

(* A result that commit_and_activate, recover_pending or reserve returned  *)
(* as completed is the decided one for ever: whatever crashes and whatever *)
(* writes fail, its commit and active records stay, and its id never       *)
(* answers with another result.                                            *)
THEOREM AnswersStayDecided == JournalSpec => []AnswersAreDecided
<1> QED BY Typed, TypedDecided, PTL
-----------------------------------------------------------------------------

(* What holds as long as no write has failed.                              *)
Live(i) == disk["tombstones"][i] = NoRecord

(* The records that restore_records compares agree with each other.        *)
RecordsAgree ==
    /\ \A d \in Dirs, i \in Ids : disk[d][i] # Torn
    /\ \A f \in Frags : cas[f] # "torn"
    /\ \A i \in Ids :
          /\ disk["active"][i] # NoRecord => disk["active"][i] = disk["commits"][i]
          /\ disk["acks"][i] # NoRecord => disk["acks"][i] = disk["active"][i]
          /\ disk["tombstones"][i] # NoRecord => disk["tombstones"][i] = disk["active"][i]
    /\ \A i \in Ids : Live(i) =>
          /\ disk["prepared"][i] # NoRecord => disk["reservations"][i] = disk["prepared"][i].round
          /\ disk["staged"][i] # NoRecord => /\ disk["prepared"][i] = disk["staged"][i]
                                             /\ Whole(disk["staged"][i])
          /\ disk["commits"][i] # NoRecord => disk["staged"][i] = disk["commits"][i]

(* The commits form one chain, activated but for its last link.            *)
ChainInv ==
    /\ Chained(Commits)
    /\ \A x \in Commits \ Activated :
          NewHead(x) = Longest(Commits) /\ x.base = Longest(Activated)
    /\ \A k \in DOMAIN Longest(Activated) : \E y \in Activated : Longest(Activated)[k] = Link(y)

(* What the running process believes.                                      *)
MemoryInv ==
    up =>
    /\ mem.head = Longest(Activated)
    /\ \/ mem.pending = NoRecord /\ Activated = Commits
       \/ mem.pending \in Commits \ Activated
    /\ mem.tombstones = disk["tombstones"]
    /\ \A i \in Ids : Live(i) =>
          /\ mem.completions[i] = disk["active"][i]
          /\ mem.reservations[i] # NoRecord => mem.reservations[i] = disk["reservations"][i]
          /\ mem.prepared[i] # NoRecord => mem.prepared[i] = disk["prepared"][i]
          /\ mem.staged[i] # NoRecord => mem.staged[i] = disk["staged"][i]
          /\ disk["staged"][i] # NoRecord =>
                disk["staged"][i] \in {mem.prepared[i], mem.completions[i]}
    /\ op.do = "record" => Whole(mem.prepared[op.id])

(* The renderer is at the last activated link or at the last committed one. *)
SeenInv ==
    /\ seen \in {Longest(Activated), Longest(Commits)}
    /\ op.do = "publish" => seen = Longest(Commits)

Good == RecordsAgree /\ ChainInv /\ MemoryInv /\ SeenInv
Sound == errors \in Nat /\ (errors = 0 => Good)

LEMMA SameDecisions ==
    ASSUME disk'["commits"] = disk["commits"], disk'["active"] = disk["active"]
    PROVE  /\ Commits' = Commits /\ Activated' = Activated
           /\ ChainInv => ChainInv'
<1>1. Commits' = Commits
    BY Zenon DEF Commits, Having
<1>2. Activated' = Activated
    BY Zenon, <1>1 DEF Activated
<1> QED BY Zenon, <1>1, <1>2 DEF ChainInv
==============================================================================
