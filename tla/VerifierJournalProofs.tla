------------------------ MODULE VerifierJournalProofs ------------------------
(***************************************************************************)
(* As long as no write fails, every step of VerifierJournal keeps Good;    *)
(* with that the journal always opens again where it was, holds in memory  *)
(* only what is on disk, and implements CarriedFrontier.                   *)
(***************************************************************************)
EXTENDS VerifierJournalTypes

LEMMA WriteDone ==
    ASSUME DiskType, NEW d \in Dirs, NEW i \in Ids, NEW rec, Write(d, i, rec)
    PROVE  /\ disk[d][i] = NoRecord /\ disk'[d][i] = rec
           /\ \A e \in Dirs \ {d} : disk'[e] = disk[e]
           /\ \A j \in Ids \ {i} : disk'[d][j] = disk[d][j]
    BY Zenon DEF DiskType, Write

LEMMA KeepsSeen ==
    ASSUME SeenInv, Commits' = Commits, Activated' = Activated, seen' = seen,
           op'.do = "publish" => op.do = "publish"
    PROVE  SeenInv'
    BY Zenon DEF SeenInv

(* Calls that only move on to the next step, and the writing of fragments. *)
LEMMA StageGood ==
    ASSUME TypeInv, Good, errors = 0, errors' = 0,
           \/ \E i \in Ids : StageBegin(i)
           \/ StageFragment \/ StageRender \/ Recover
    PROVE  Good'
<1> USE DEF Good
<1>1. UNCHANGED <<disk, mem, up, seen>>
    BY Zenon DEF StageBegin, StageFragment, StageRender, Recover, store, renderer
<1>2. Commits' = Commits /\ Activated' = Activated /\ ChainInv'
    BY Zenon, <1>1, SameDecisions
<1>3. \A f \in Frags : cas[f] = "whole" => cas'[f] = "whole"
    BY Zenon DEF StageBegin, StageFragment, StageRender, Recover, store, TypeInv
<1>4. \A f \in Frags : cas'[f] # "torn"
    BY DEF StageBegin, StageFragment, StageRender, Recover, store, TypeInv, RecordsAgree
<1>5. \A i \in Ids : disk["staged"][i] \in ResultSet \cup {NoRecord}
    BY DEF RecordsAgree, TypeInv, DiskType, RecordOK, GoodResult, Dirs
<1>6. ASSUME NEW x \in ResultSet, Whole(x) PROVE Whole(x)'
    BY Zenon, <1>3, <1>6 DEF Whole, ResultSet
<1>7. RecordsAgree'
  <2>1. \A i \in Ids : Live(i)' <=> Live(i)
    BY Zenon, <1>1 DEF Live
  <2>2. ASSUME NEW i \in Ids, Live(i), disk["staged"][i] # NoRecord
        PROVE  Whole(disk["staged"][i])'
    <3>1. disk["staged"][i] \in ResultSet /\ Whole(disk["staged"][i])
        BY Zenon, <1>5, <2>2 DEF RecordsAgree
    <3>2. \A f \in disk["staged"][i].frags : cas'[f] = "whole"
        BY Zenon, <1>6, <3>1 DEF Whole
    <3> QED BY Zenon, <1>1, <3>2 DEF Whole
  <2> QED BY Zenon, <1>1, <1>4, <2>1, <2>2 DEF RecordsAgree
<1>8. op'.do = "record" => Whole(mem.prepared[op.id])'
  <2>1. CASE StageRender
    <3>1. /\ op'.do = "record" => op'.id = op.id
          /\ \A f \in mem.prepared[op.id].frags : cas'[f] = "whole"
        BY <2>1 DEF StageRender, store, Idle, TypeInv, OpType
    <3> QED BY Zenon, <1>1, <3>1 DEF Whole
  <2>2. CASE ~StageRender
    <3>1. op'.do # "record"
        BY <2>2 DEF StageBegin, StageFragment, Recover, Idle, TypeInv, OpType
    <3> QED BY Zenon, <3>1
  <2> QED BY Zenon, <2>1, <2>2
<1>9. MemoryInv'
    BY Zenon, <1>1, <1>2, <1>8 DEF MemoryInv, Live
<1>10. SeenInv'
  <2>1. op'.do # "publish"
    BY DEF StageBegin, StageFragment, StageRender, Recover, Idle, TypeInv, OpType
  <2> QED BY Zenon, <1>1, <1>2, <2>1, KeepsSeen
<1> QED BY Zenon, <1>2, <1>7, <1>9, <1>10

LEMMA FailureCounts ==
    ASSUME errors = 0, errors' = 0, NEW d, NEW i, NEW rec
    PROVE  ~WriteFails(d, i, rec)
    BY DEF WriteFails

LEMMA ReserveGood ==
    ASSUME TypeInv, Good, errors = 0, errors' = 0, NEW r \in Rounds(mem.head), Reserve(r)
    PROVE  Good'
<1> USE DEF Good
<1>1. r.id \in Ids
    BY Zenon DEF Rounds
<1>2. /\ Write("reservations", r.id, r) /\ mem' = [mem EXCEPT !.reservations[r.id] = r]
      /\ UNCHANGED <<cas, op, up, seen>> /\ op = Idle /\ up
    BY Zenon, FailureCounts DEF Reserve, Ready, renderer
<1>3. /\ disk["reservations"][r.id] = NoRecord /\ disk'["reservations"][r.id] = r
      /\ \A e \in Dirs \ {"reservations"} : disk'[e] = disk[e]
      /\ \A j \in Ids \ {r.id} : disk'["reservations"][j] = disk["reservations"][j]
    BY <1>1, <1>2, WriteDone DEF TypeInv, Dirs
<1>4. Commits' = Commits /\ Activated' = Activated /\ ChainInv' /\ SeenInv'
    BY Zenon, <1>2, <1>3, SameDecisions, KeepsSeen DEF Dirs
<1>5. r # NoRecord /\ r # Torn
  <2>1. r \in RoundSet
    BY Zenon DEF Rounds, RoundSet, Intents, TypeInv, MemType
  <2> QED BY Zenon, <2>1, Records
<1>6. RecordsAgree'
  <2>1. ASSUME NEW i \in Ids, Live(i), disk["prepared"][i] # NoRecord
        PROVE  disk'["reservations"][i] = disk["prepared"][i].round
    <3>1. disk["prepared"][i] \in ResultSet
        BY <2>1 DEF RecordsAgree, TypeInv, DiskType, RecordOK, GoodResult, Dirs
    <3>2. disk["prepared"][i].round \in RoundSet
        BY Zenon, <3>1 DEF ResultSet
    <3>3. disk["reservations"][i] # NoRecord
        BY Zenon, <2>1, <3>2, Records DEF RecordsAgree
    <3> QED BY Zenon, <1>3, <2>1, <3>3 DEF RecordsAgree
  <2>2. \A d \in Dirs, i \in Ids : disk'[d][i] # Torn
    BY <1>3, <1>5 DEF RecordsAgree
  <2> QED BY <1>2, <1>3, <2>1, <2>2 DEF RecordsAgree, Live, Whole, Dirs
<1>7. MemoryInv'
  <2>1. /\ mem'.head = mem.head /\ mem'.pending = mem.pending /\ mem'.tombstones = mem.tombstones
        /\ mem'.completions = mem.completions /\ mem'.prepared = mem.prepared
        /\ mem'.staged = mem.staged /\ mem'.reservations = [mem.reservations EXCEPT ![r.id] = r]
    BY Zenon, <1>2 DEF TypeInv, MemType
  <2>2. \A i \in Ids : Live(i) /\ mem'.reservations[i] # NoRecord =>
                           mem'.reservations[i] = disk'["reservations"][i]
    BY <1>2, <1>3, <2>1 DEF MemoryInv, TypeInv, MemType
  <2> QED BY <1>2, <1>3, <1>4, <2>1, <2>2 DEF MemoryInv, Live, Dirs, Idle
<1> QED BY Zenon, <1>4, <1>6, <1>7

LEMMA PrepareGood ==
    ASSUME TypeInv, Good, errors = 0, errors' = 0,
           NEW x \in ResultSet, Prepare(x)
    PROVE  Good'
<1> USE DEF Good
<1>1. x.id \in Ids /\ x # NoRecord /\ x # Torn /\ x.round # NoRecord
    BY Zenon, Records DEF ResultSet
<1>2. /\ Write("prepared", x.id, x) /\ mem' = [mem EXCEPT !.prepared[x.id] = x]
      /\ UNCHANGED <<cas, op, up, seen>> /\ op = Idle /\ up
      /\ mem.reservations[x.id] = x.round /\ mem.prepared[x.id] = NoRecord
    BY Zenon, FailureCounts DEF Prepare, Ready, renderer
<1>3. /\ disk["prepared"][x.id] = NoRecord /\ disk'["prepared"][x.id] = x
      /\ \A e \in Dirs \ {"prepared"} : disk'[e] = disk[e]
      /\ \A j \in Ids \ {x.id} : disk'["prepared"][j] = disk["prepared"][j]
    BY <1>1, <1>2, WriteDone DEF TypeInv, Dirs
<1>4. Commits' = Commits /\ Activated' = Activated /\ ChainInv' /\ SeenInv'
    BY Zenon, <1>2, <1>3, SameDecisions, KeepsSeen DEF Dirs
<1>5. Live(x.id) => disk["staged"][x.id] = NoRecord
    BY Zenon, <1>1, <1>3 DEF RecordsAgree
<1>6. RecordsAgree'
  <2>1. Live(x.id) => disk["reservations"][x.id] = x.round
    BY Zenon, <1>1, <1>2 DEF MemoryInv
  <2>2. \A d \in Dirs, i \in Ids : disk'[d][i] # Torn
    BY <1>1, <1>3 DEF RecordsAgree
  <2>3. ASSUME NEW i \in Ids, Live(i)
        PROVE  /\ disk'["prepared"][i] # NoRecord => disk["reservations"][i] = disk'["prepared"][i].round
               /\ disk["staged"][i] # NoRecord => disk'["prepared"][i] = disk["staged"][i]
    BY Zenon, <1>3, <1>5, <2>1, <2>3 DEF RecordsAgree
  <2> QED BY <1>2, <1>3, <2>2, <2>3 DEF RecordsAgree, Live, Whole, Dirs
<1>7. MemoryInv'
  <2>1. /\ mem'.head = mem.head /\ mem'.pending = mem.pending /\ mem'.tombstones = mem.tombstones
        /\ mem'.completions = mem.completions /\ mem'.reservations = mem.reservations
        /\ mem'.staged = mem.staged /\ mem'.prepared = [mem.prepared EXCEPT ![x.id] = x]
    BY Zenon, <1>2 DEF TypeInv, MemType
  <2>2. \A i \in Ids : Live(i) =>
            /\ mem'.prepared[i] # NoRecord => mem'.prepared[i] = disk'["prepared"][i]
            /\ disk["staged"][i] # NoRecord =>
                  disk["staged"][i] \in {mem'.prepared[i], mem.completions[i]}
    BY <1>2, <1>3, <1>5, <2>1 DEF MemoryInv, TypeInv, MemType, Slots
  <2>3. /\ disk'["tombstones"] = disk["tombstones"] /\ disk'["active"] = disk["active"]
        /\ disk'["reservations"] = disk["reservations"] /\ disk'["staged"] = disk["staged"]
    BY Zenon, <1>3 DEF Dirs
  <2> QED BY <1>2, <1>4, <2>1, <2>2, <2>3 DEF MemoryInv, Live, Idle
<1> QED BY Zenon, <1>4, <1>6, <1>7

LEMMA StageRecordGood ==
    ASSUME TypeInv, Good, errors = 0, errors' = 0, StageRecord
    PROVE  Good'
<1> USE DEF Good
<1>1. PICK i \in Ids : i = op.id /\ mem.prepared[i] # NoRecord /\ up
    BY DEF TypeInv, StageRecord, OpType, Idle
<1>2. PICK x \in ResultSet : x = mem.prepared[i] /\ x.id = i /\ x # NoRecord /\ x # Torn
    BY <1>1, Records DEF TypeInv, MemType, RecordOK, GoodResult
<1>3. UNCHANGED <<cas, up, seen>> /\ op' = Idle /\ op.do = "record"
    BY Zenon DEF StageRecord, renderer
<1>4. CASE disk' = disk /\ mem' = mem
  <2>1. Commits' = Commits /\ Activated' = Activated /\ ChainInv' /\ SeenInv'
    BY Zenon, <1>3, <1>4, SameDecisions, KeepsSeen DEF Idle
  <2>2. RecordsAgree'
    BY Zenon, <1>3, <1>4 DEF RecordsAgree, Live, Whole
  <2>3. MemoryInv'
    BY Zenon, <1>3, <1>4, <2>1 DEF MemoryInv, Live, Idle
  <2> QED BY Zenon, <2>1, <2>2, <2>3
<1>5. CASE Write("staged", i, x) /\ mem' = [mem EXCEPT !.staged[i] = x]
  <2>1. /\ disk["staged"][i] = NoRecord /\ disk'["staged"][i] = x
        /\ \A e \in Dirs \ {"staged"} : disk'[e] = disk[e]
        /\ \A j \in Ids \ {i} : disk'["staged"][j] = disk["staged"][j]
    BY <1>1, <1>5, WriteDone DEF TypeInv, Dirs
  <2>2. Commits' = Commits /\ Activated' = Activated /\ ChainInv' /\ SeenInv'
    BY Zenon, <1>3, <2>1, SameDecisions, KeepsSeen DEF Dirs, Idle
  <2>3. Whole(x) /\ (Live(i) => disk["prepared"][i] = x)
    BY Zenon, <1>1, <1>2, <1>3 DEF MemoryInv
  <2>4. RecordsAgree'
    <3>1. \A d \in Dirs, j \in Ids : disk'[d][j] # Torn
        BY <1>2, <2>1 DEF RecordsAgree
    <3>2. ASSUME NEW j \in Ids, Live(j)
          PROVE  /\ disk'["staged"][j] # NoRecord => /\ disk["prepared"][j] = disk'["staged"][j]
                                                     /\ Whole(disk'["staged"][j])
                 /\ disk["commits"][j] # NoRecord => disk'["staged"][j] = disk["commits"][j]
        BY <2>1, <2>3, <3>2 DEF RecordsAgree
    <3> QED BY <1>3, <2>1, <3>1, <3>2 DEF RecordsAgree, Live, Whole, Dirs
  <2>5. MemoryInv'
    <3>1. /\ mem'.head = mem.head /\ mem'.pending = mem.pending /\ mem'.tombstones = mem.tombstones
          /\ mem'.completions = mem.completions /\ mem'.reservations = mem.reservations
          /\ mem'.prepared = mem.prepared /\ mem'.staged = [mem.staged EXCEPT ![i] = x]
        BY Zenon, <1>5 DEF TypeInv, MemType
    <3>2. \A j \in Ids : Live(j) =>
            /\ mem'.staged[j] # NoRecord => mem'.staged[j] = disk'["staged"][j]
            /\ disk'["staged"][j] # NoRecord =>
                  disk'["staged"][j] \in {mem.prepared[j], mem.completions[j]}
        BY <1>1, <1>2, <2>1, <3>1 DEF MemoryInv, TypeInv, MemType, Slots
    <3> QED BY SMTT(40), <1>1, <1>3, <2>1, <2>2, <3>1, <3>2 DEF MemoryInv, Live, Dirs, Idle
  <2> QED BY Zenon, <2>2, <2>4, <2>5
<1> QED BY Zenon, <1>1, <1>2, <1>4, <1>5, FailureCounts DEF StageRecord

(* Nothing but the history, or a crash.                                    *)
LEMMA ReplayCrashGood ==
    ASSUME TypeInv, Good, errors = 0,
           Crash \/ (UNCHANGED <<disk, cas, mem, op, up, seen>>)
    PROVE  Good'
<1> USE DEF Good
<1>1. /\ UNCHANGED <<disk, cas, seen>> /\ (up' => UNCHANGED <<mem, op, up>>)
      /\ op' = Idle \/ op' = op
    BY Zenon DEF Crash, store, renderer
<1>2. Commits' = Commits /\ Activated' = Activated /\ ChainInv'
    BY Zenon, <1>1, SameDecisions
<1>3. RecordsAgree'
    BY Zenon, <1>1 DEF RecordsAgree, Live, Whole
<1>4. MemoryInv'
    BY Zenon, <1>1, <1>2 DEF MemoryInv, Live, Whole
<1>5. SeenInv'
    BY <1>1, <1>2, KeepsSeen DEF Idle
<1> QED BY Zenon, <1>2, <1>3, <1>4, <1>5

LEMMA AcknowledgeGood ==
    ASSUME TypeInv, Good, errors = 0, errors' = 0, NEW i \in Ids, Acknowledge(i)
    PROVE  Good'
<1> USE DEF Good
<1>1. PICK x \in ResultSet : /\ x = mem.completions[i] /\ x # NoRecord /\ x # Torn
                             /\ disk["active"][i] = x
  <2>1. mem.completions[i] # NoRecord
    BY Zenon DEF Acknowledge
  <2> QED BY <2>1, Records DEF TypeInv, MemType, RecordOK, GoodResult, Decided
<1>2. /\ Write("acks", i, x) /\ mem' = [mem EXCEPT !.acks[i] = x]
      /\ UNCHANGED <<cas, op, up, seen>> /\ op = Idle /\ up
    BY Zenon, <1>1, FailureCounts DEF Acknowledge, Ready, renderer
<1>3. /\ disk'["acks"][i] = x
      /\ \A e \in Dirs \ {"acks"} : disk'[e] = disk[e]
      /\ \A j \in Ids \ {i} : disk'["acks"][j] = disk["acks"][j]
    BY <1>2, WriteDone DEF TypeInv, Dirs
<1>4. /\ disk'["tombstones"] = disk["tombstones"] /\ disk'["active"] = disk["active"]
      /\ disk'["reservations"] = disk["reservations"] /\ disk'["staged"] = disk["staged"]
      /\ disk'["prepared"] = disk["prepared"] /\ disk'["commits"] = disk["commits"]
    BY Zenon, <1>3 DEF Dirs
<1>5. Commits' = Commits /\ Activated' = Activated /\ ChainInv' /\ SeenInv'
    BY Zenon, <1>2, <1>4, SameDecisions, KeepsSeen
<1>6. RecordsAgree'
  <2>1. \A d \in Dirs, j \in Ids : disk'[d][j] # Torn
    BY <1>1, <1>3 DEF RecordsAgree
  <2>2. \A j \in Ids : disk'["acks"][j] # NoRecord => disk'["acks"][j] = disk["active"][j]
    BY Zenon, <1>1, <1>3 DEF RecordsAgree
  <2> QED BY <1>2, <1>4, <2>1, <2>2 DEF RecordsAgree, Live, Whole
<1>7. MemoryInv'
  <2>1. /\ mem'.head = mem.head /\ mem'.pending = mem.pending /\ mem'.tombstones = mem.tombstones
        /\ mem'.completions = mem.completions /\ mem'.reservations = mem.reservations
        /\ mem'.prepared = mem.prepared /\ mem'.staged = mem.staged
    BY Zenon, <1>2 DEF TypeInv, MemType
  <2> QED BY <1>2, <1>4, <1>5, <2>1 DEF MemoryInv, Live, Idle
<1> QED BY Zenon, <1>5, <1>6, <1>7

LEMMA RetireGood ==
    ASSUME TypeInv, Good, errors = 0, errors' = 0, NEW i \in Ids, Retire(i)
    PROVE  Good'
<1> USE DEF Good
<1>1. PICK x \in ResultSet : /\ x = mem.completions[i] /\ x # NoRecord /\ x # Torn
                             /\ disk["active"][i] = x
  <2>1. mem.completions[i] # NoRecord
    BY Zenon DEF Retire
  <2> QED BY <2>1, Records DEF TypeInv, MemType, RecordOK, GoodResult, Decided
<1>2. UNCHANGED <<cas, up, seen>> /\ op = Idle /\ up /\ op'.do = "retire"
    BY <1>1, FailureCounts DEF Retire, Ready, renderer
<1>3. CASE UNCHANGED <<disk, mem>>
  <2>1. Commits' = Commits /\ Activated' = Activated /\ ChainInv' /\ SeenInv'
    BY Zenon, <1>2, <1>3, SameDecisions, KeepsSeen
  <2>2. RecordsAgree'
    BY Zenon, <1>2, <1>3 DEF RecordsAgree, Live, Whole
  <2>3. MemoryInv'
    BY Zenon, <1>2, <1>3, <2>1 DEF MemoryInv, Live
  <2> QED BY Zenon, <2>1, <2>2, <2>3
<1>4. CASE Write("tombstones", i, x) /\ mem' = [mem EXCEPT !.tombstones[i] = x]
  <2>1. /\ disk'["tombstones"][i] = x
        /\ \A e \in Dirs \ {"tombstones"} : disk'[e] = disk[e]
        /\ \A j \in Ids \ {i} : disk'["tombstones"][j] = disk["tombstones"][j]
    BY <1>4, WriteDone DEF TypeInv, Dirs
  <2>2. /\ disk'["acks"] = disk["acks"] /\ disk'["active"] = disk["active"]
        /\ disk'["reservations"] = disk["reservations"] /\ disk'["staged"] = disk["staged"]
        /\ disk'["prepared"] = disk["prepared"] /\ disk'["commits"] = disk["commits"]
    BY Zenon, <2>1 DEF Dirs
  <2>3. Commits' = Commits /\ Activated' = Activated /\ ChainInv' /\ SeenInv'
    BY Zenon, <1>2, <2>2, SameDecisions, KeepsSeen
  <2>4. \A j \in Ids : Live(j)' => Live(j)
    BY Zenon, <1>1, <2>1 DEF Live
  <2>5. RecordsAgree'
    <3>1. \A d \in Dirs, j \in Ids : disk'[d][j] # Torn
        BY SMTT(40), <1>1, <2>1 DEF RecordsAgree
    <3>2. \A j \in Ids : disk'["tombstones"][j] # NoRecord =>
                             disk'["tombstones"][j] = disk["active"][j]
        BY Zenon, <1>1, <2>1 DEF RecordsAgree
    <3> QED BY <1>2, <2>2, <2>4, <3>1, <3>2 DEF RecordsAgree, Whole
  <2>6. MemoryInv'
    <3>1. /\ mem'.head = mem.head /\ mem'.pending = mem.pending
          /\ mem'.tombstones = [mem.tombstones EXCEPT ![i] = x]
          /\ mem'.completions = mem.completions /\ mem'.reservations = mem.reservations
          /\ mem'.prepared = mem.prepared /\ mem'.staged = mem.staged
        BY Zenon, <1>4 DEF TypeInv, MemType
    <3>2. disk'["tombstones"] = [disk["tombstones"] EXCEPT ![i] = x]
        BY Zenon, <1>4 DEF Write, TypeInv, DiskType, Dirs
    <3> QED BY SMTT(40), <1>2, <2>2, <2>3, <2>4, <3>1, <3>2 DEF MemoryInv
  <2> QED BY Zenon, <2>3, <2>5, <2>6
<1> QED BY Zenon, <1>1, <1>3, <1>4, FailureCounts DEF Retire

LEMMA RetireEndGood ==
    ASSUME TypeInv, Good, errors = 0, RetireEnd
    PROVE  Good'
<1> USE DEF Good
<1>1. PICK i \in Ids : i = op.id /\ mem.tombstones[i] # NoRecord /\ up
    BY DEF RetireEnd, TypeInv, OpType, Idle
<1>2. /\ mem' = [mem EXCEPT !.reservations[i] = NoRecord, !.prepared[i] = NoRecord,
                            !.staged[i] = NoRecord, !.completions[i] = NoRecord,
                            !.acks[i] = NoRecord]
      /\ op' = Idle /\ UNCHANGED <<disk, cas, up, seen>>
    BY Zenon, <1>1 DEF RetireEnd, store, renderer
<1>3. Commits' = Commits /\ Activated' = Activated /\ ChainInv' /\ SeenInv'
    BY Zenon, <1>2, SameDecisions, KeepsSeen DEF Idle
<1>4. RecordsAgree'
    BY Zenon, <1>2 DEF RecordsAgree, Live, Whole
<1>5. ~Live(i)
    BY Zenon, <1>1 DEF MemoryInv, Live
<1>6. /\ mem'.head = mem.head /\ mem'.pending = mem.pending /\ mem'.tombstones = mem.tombstones
      /\ \A j \in Ids \ {i} : /\ mem'.completions[j] = mem.completions[j]
                              /\ mem'.reservations[j] = mem.reservations[j]
                              /\ mem'.prepared[j] = mem.prepared[j]
                              /\ mem'.staged[j] = mem.staged[j]
    BY Zenon, <1>2 DEF TypeInv, MemType, Slots
<1>7. MemoryInv'
    BY <1>2, <1>3, <1>5, <1>6 DEF MemoryInv, Live, Idle
<1> QED BY Zenon, <1>3, <1>4, <1>7

LEMMA UnlinkGood ==
    ASSUME TypeInv, Good, errors = 0, RetireUnlink
    PROVE  Good'
<1> USE DEF Good
<1>1. PICK i \in Ids : i = op.id /\ mem.tombstones[i] # NoRecord /\ up /\ op.do = "retire"
    BY DEF RetireUnlink, TypeInv, OpType, Idle
<1>2. ~Live(i) /\ UNCHANGED <<mem, op, up, seen>>
    BY Zenon, <1>1 DEF MemoryInv, Live, RetireUnlink, renderer
<1>3. /\ \A d \in Dirs \ RetireDirs : disk'[d] = disk[d]
      /\ \A d \in Dirs, j \in Ids \ {i} : disk'[d][j] = disk[d][j]
      /\ \A d \in Dirs, j \in Ids : disk'[d][j] \in {disk[d][j], NoRecord}
    BY SMTT(40), <1>1 DEF RetireUnlink, TypeInv, DiskType, Dirs, RetireDirs
<1>4. /\ disk'["tombstones"] = disk["tombstones"] /\ disk'["active"] = disk["active"]
      /\ disk'["commits"] = disk["commits"]
    BY Zenon, <1>3 DEF Dirs, RetireDirs
<1>5. Commits' = Commits /\ Activated' = Activated /\ ChainInv' /\ SeenInv'
    BY Zenon, <1>2, <1>4, SameDecisions, KeepsSeen
<1>6. \A f \in Frags : cas'[f] = cas[f] \/ (f \in Garbage(i) /\ cas'[f] = "absent")
    BY Zenon, <1>1 DEF RetireUnlink, TypeInv, Garbage
<1>7. ASSUME NEW j \in Ids, Live(j), disk["staged"][j] # NoRecord
      PROVE  Whole(disk["staged"][j])'
  <2>1. PICK x \in ResultSet : x = disk["staged"][j]
    BY <1>7 DEF RecordsAgree, TypeInv, DiskType, RecordOK, GoodResult, Dirs
  <2>2. x \in {mem.prepared[j], mem.completions[j]} /\ j # i /\ Whole(x)
    BY Zenon, <1>1, <1>2, <1>7, <2>1 DEF MemoryInv, RecordsAgree
  <2>3. x.frags \subseteq Protected(i)
    <3>1. CASE x = mem.prepared[j]
      <4>1. j \in Having(mem.prepared) \ {i}
        BY Zenon, <2>2, <3>1, Records DEF Having
      <4> QED BY Zenon, <3>1, <4>1 DEF Protected
    <3>2. CASE x = mem.completions[j]
      <4>1. j \in Having(mem.completions) \ {i}
        BY Zenon, <2>2, <3>2, Records DEF Having
      <4> QED BY Zenon, <3>2, <4>1 DEF Protected
    <3> QED BY Zenon, <2>2, <3>1, <3>2
  <2>4. \A f \in x.frags : cas'[f] = "whole"
    BY Zenon, <1>6, <2>2, <2>3 DEF Garbage, Whole, ResultSet
  <2>5. disk'["staged"][j] = x
    BY Zenon, <1>3, <2>1, <2>2 DEF Dirs
  <2> QED BY Zenon, <2>4, <2>5 DEF Whole
<1>8. RecordsAgree'
  <2>1. \A d \in Dirs, j \in Ids : disk'[d][j] # Torn
    BY SMTT(40), <1>3, Records DEF RecordsAgree
  <2>2. \A f \in Frags : cas'[f] # "torn"
    BY Zenon, <1>6 DEF RecordsAgree
  <2>3. ASSUME NEW j \in Ids
        PROVE  /\ disk'["acks"][j] # NoRecord => disk'["acks"][j] = disk["active"][j]
               /\ Live(j) => /\ disk'["prepared"][j] = disk["prepared"][j]
                             /\ disk'["reservations"][j] = disk["reservations"][j]
                             /\ disk'["staged"][j] = disk["staged"][j]
    BY Zenon, <1>2, <1>3 DEF RecordsAgree, Dirs
  <2>4. \A j \in Ids : Live(j)' <=> Live(j)
    BY Zenon, <1>4 DEF Live
  <2>5. ASSUME NEW j \in Ids, Live(j)
        PROVE  /\ disk'["prepared"][j] # NoRecord =>
                     disk'["reservations"][j] = disk'["prepared"][j].round
               /\ disk'["staged"][j] # NoRecord => /\ disk'["prepared"][j] = disk'["staged"][j]
                                                   /\ Whole(disk["staged"][j])'
               /\ disk["commits"][j] # NoRecord => disk'["staged"][j] = disk["commits"][j]
    BY Zenon, <1>7, <2>3, <2>5 DEF RecordsAgree
  <2> QED BY SMTT(40), <1>4, <2>1, <2>2, <2>3, <2>4, <2>5 DEF RecordsAgree
<1>9. MemoryInv'
  <2>1. ASSUME NEW j \in Ids, Live(j)
        PROVE  /\ disk'["prepared"][j] = disk["prepared"][j]
               /\ disk'["reservations"][j] = disk["reservations"][j]
               /\ disk'["staged"][j] = disk["staged"][j]
    BY Zenon, <1>2, <1>3, <2>1 DEF Dirs
  <2> QED BY <1>1, <1>2, <1>4, <1>5, <2>1 DEF MemoryInv, Live
<1> QED BY Zenon, <1>5, <1>8, <1>9

(* A result of the last head makes the chain one link longer.              *)
LEMMA ChainGrows ==
    ASSUME NEW C \in SUBSET ResultSet, Chained(C),
           NEW x \in ResultSet, x \notin C, x.base = Longest(C)
    PROVE  Chained(C \cup {x}) /\ Longest(C \cup {x}) = NewHead(x)
<1> DEFINE L == Longest(C)
<1>1. /\ L \in Seq(Links) /\ NewHead(x) = Append(L, Link(x)) /\ NewHead(x) \in Seq(Links)
      /\ Len(NewHead(x)) = Len(L) + 1 /\ Link(x) \in Links /\ Len(x.base) \in Nat
    BY ChainHead, HeadGrows DEF NewHead
<1>2. ASSUME NEW y \in C
      PROVE  Len(y.base) < Len(x.base) /\ NewHead(y) = SubSeq(NewHead(x), 1, Len(y.base) + 1)
  <2>1. PICK last \in C : /\ L = NewHead(last)
                          /\ Len(y.base) <= Len(last.base)
                          /\ NewHead(y) = SubSeq(NewHead(last), 1, Len(y.base) + 1)
    BY Zenon, <1>2, ChainTop
  <2>2. Len(L) = Len(last.base) + 1 /\ Len(last.base) \in Nat /\ Len(y.base) \in Nat
    BY <2>1, HeadGrows DEF ResultSet
  <2>3. PICK n \in Nat : n = Len(y.base) + 1 /\ n <= Len(L)
    BY <2>1, <2>2
  <2>4. SubSeq(Append(L, Link(x)), 1, n) = SubSeq(L, 1, n)
    BY <1>1, <2>3
  <2> QED BY <1>1, <2>1, <2>2, <2>3, <2>4
<1>3. ASSUME NEW k \in 0..Len(x.base) PROVE \E y \in C \cup {x} : Len(y.base) = k
  <2>1. CASE k = Len(x.base)
    BY Zenon, <2>1
  <2>2. CASE k # Len(x.base)
    <3>1. C # {}
        BY <1>1, <2>2 DEF Longest
    <3>2. PICK last \in C : L = NewHead(last)
                            /\ \A j \in 0..Len(last.base) : \E y \in C : Len(y.base) = j
        BY Zenon, <3>1, ChainTop
    <3>3. k \in 0..Len(last.base)
        BY <1>1, <2>2, <3>2, HeadGrows
    <3> QED BY Zenon, <3>2, <3>3
  <2> QED BY Zenon, <2>1, <2>2
<1>4. NewHead(x) = SubSeq(NewHead(x), 1, Len(x.base) + 1)
    BY <1>1
<1>5. Chained(C \cup {x})
  <2>1. \A y \in C \cup {x} : /\ Len(y.base) <= Len(x.base)
                              /\ NewHead(y) = SubSeq(NewHead(x), 1, Len(y.base) + 1)
    BY <1>1, <1>2, <1>4 DEF ResultSet
  <2> QED BY Zenon, <1>3, <2>1 DEF Chained
<1>6. Longest(C \cup {x}) = NewHead(x)
  <2>1. \A y \in C \cup {x} : /\ Len(y.base) <= Len(x.base)
                              /\ Len(y.base) = Len(x.base) => NewHead(y) = NewHead(x)
    BY <1>1, <1>2 DEF ResultSet
  <2> QED BY Zenon, <2>1, MaxLongest
<1> QED BY Zenon, <1>5, <1>6

(* At most one commit waits for its activation.                            *)
LEMMA OnePending ==
    ASSUME TypeInv, ChainInv, NEW x \in Commits \ Activated, NEW y \in Commits \ Activated
    PROVE  x = y
<1>1. NewHead(x) = NewHead(y)
    BY Zenon DEF ChainInv
<1>2. x \in ResultSet /\ y \in ResultSet
    BY Zenon, CommitsType DEF TypeInv
<1>3. x.id = y.id
    BY Zenon, <1>1, <1>2, SameHead
<1> QED BY <1>3, CommitsType DEF TypeInv

(* The renderer does not show a link before it is activated.               *)
LEMMA NotShown ==
    ASSUME TypeInv, ChainInv, NEW x \in Commits \ Activated
    PROVE  ~Shows(Longest(Activated), Link(x))
<1> SUFFICES ASSUME NEW k \in DOMAIN Longest(Activated), Longest(Activated)[k] = Link(x)
             PROVE  FALSE
    BY Zenon DEF Shows
<1>1. PICK y \in Activated : Longest(Activated)[k] = Link(y)
    BY Zenon DEF ChainInv
<1>2. x \in ResultSet /\ y \in Commits /\ y \in ResultSet
    BY Zenon, CommitsType DEF TypeInv
<1>3. x.id = y.id
    BY Zenon, <1>1, <1>2, HeadGrows
<1> QED BY <1>2, <1>3, CommitsType DEF TypeInv

LEMMA ActivateGood ==
    ASSUME TypeInv, Good, errors = 0, Activate
    PROVE  /\ Good'
           /\ seen' \in {seen, Longest(Commits)} /\ Commits' = Commits
<1> USE DEF Good
<1>1. UNCHANGED <<disk, cas, mem, up>> /\ op.do = "activate"
    BY Zenon DEF Activate, store
<1>2. Commits' = Commits /\ Activated' = Activated /\ ChainInv'
    BY Zenon, <1>1, SameDecisions
<1>3. RecordsAgree'
    BY Zenon, <1>1 DEF RecordsAgree, Live, Whole
<1>4. op'.do # "record"
    BY DEF Activate, Idle, TypeInv, OpType
<1>5. MemoryInv'
    BY Zenon, <1>1, <1>2, <1>4 DEF MemoryInv, Live
<1>6. PICK x \in Commits \ Activated : x = mem.pending
  <2>1. up /\ mem.pending # NoRecord
    BY <1>1 DEF TypeInv, OpType, Idle
  <2> QED BY Zenon, <2>1 DEF MemoryInv
<1>7. /\ x \in ResultSet /\ NewHead(x) = Longest(Commits)
      /\ Append(Longest(Activated), Link(x)) = Longest(Commits)
    BY Zenon, CommitsType DEF ChainInv, TypeInv, NewHead
<1>8. \/ seen' = seen /\ op' = Idle
      \/ /\ op'.do = "publish"
         /\ seen' = IF Shows(seen, Link(x)) THEN seen ELSE Append(seen, Link(x))
    BY Zenon, <1>6 DEF Activate, TypeInv, OpType, Idle
<1>9. CASE seen' = seen /\ op' = Idle
  <2>1. SeenInv'
    BY Zenon, <1>2, <1>9, KeepsSeen DEF Idle
  <2> QED BY Zenon, <1>2, <1>3, <1>5, <1>9, <2>1
<1>10. CASE seen' = IF Shows(seen, Link(x)) THEN seen ELSE Append(seen, Link(x))
  <2>1. ASSUME seen = Longest(Activated) PROVE seen' = Longest(Commits)
    BY Zenon, <1>7, <1>10, <2>1, NotShown
  <2>2. ASSUME seen = Longest(Commits) PROVE seen' = Longest(Commits)
    <3>1. Shows(seen, Link(x))
        BY <1>7, <2>2, HeadGrows DEF Shows
    <3> QED BY Zenon, <1>10, <2>2, <3>1
  <2>3. seen' = Longest(Commits)
    BY Zenon, <2>1, <2>2 DEF SeenInv
  <2> QED BY Zenon, <1>2, <1>3, <1>5, <2>3 DEF SeenInv
<1> QED BY Zenon, <1>8, <1>9, <1>10

LEMMA CommitGood ==
    ASSUME TypeInv, TypeInv', Good, errors = 0, errors' = 0, NEW i \in Ids, CommitRound(i)
    PROVE  /\ Good' /\ seen' = seen /\ seen = Longest(Commits)
           /\ \E link \in Links : Longest(Commits)' = Append(Longest(Commits), link)
           /\ ~Closed(Longest(Commits))
<1> USE DEF Good
<1>1. PICK x \in ResultSet : /\ x = mem.prepared[i] /\ x = mem.staged[i] /\ x.id = i
                             /\ GoodResult(x) /\ x # NoRecord /\ x # Torn
  <2>1. mem.prepared[i] # NoRecord /\ mem.prepared[i] = mem.staged[i]
    BY Zenon DEF CommitRound
  <2> QED BY <2>1, Records DEF TypeInv, MemType, RecordOK, GoodResult
<1>2. /\ Write("commits", i, x) /\ mem' = [mem EXCEPT !.pending = x]
      /\ op' = [do |-> "activate", id |-> i]
      /\ UNCHANGED <<cas, up, seen>> /\ op = Idle /\ up
      /\ mem.pending = NoRecord /\ x.base = mem.head
    BY Zenon, <1>1, FailureCounts DEF CommitRound, Ready, renderer
<1>3. /\ disk["commits"][i] = NoRecord /\ disk'["commits"][i] = x
      /\ \A e \in Dirs \ {"commits"} : disk'[e] = disk[e]
      /\ \A j \in Ids \ {i} : disk'["commits"][j] = disk["commits"][j]
    BY <1>1, <1>2, WriteDone DEF TypeInv, Dirs
<1>4. /\ disk'["tombstones"] = disk["tombstones"] /\ disk'["active"] = disk["active"]
      /\ disk'["reservations"] = disk["reservations"] /\ disk'["staged"] = disk["staged"]
      /\ disk'["prepared"] = disk["prepared"] /\ disk'["acks"] = disk["acks"]
    BY Zenon, <1>3 DEF Dirs
<1>5. Activated = Commits /\ mem.head = Longest(Commits)
  <2>1. NoRecord \notin Commits
    BY Zenon, CommitsType, Records DEF TypeInv
  <2> QED BY Zenon, <1>2, <2>1 DEF MemoryInv
<1>6. disk["active"][i] = NoRecord /\ Live(i)
    BY Zenon, <1>3 DEF RecordsAgree, Live
<1>7. Commits' = Commits \cup {x} /\ x \notin Commits
  <2>1. \A y : y \in Commits <=> GoodResult(y) /\ y.id \in Ids /\ disk["commits"][y.id] = y
    BY Zenon, CommitsType DEF TypeInv
  <2>2. \A y : y \in Commits' <=> GoodResult(y) /\ y.id \in Ids /\ disk'["commits"][y.id] = y
    <3>1. \A y : y \in Commits' <=> \E j \in Ids : /\ disk'["commits"][j] \notin {NoRecord, Torn}
                                                  /\ y = disk'["commits"][j]
        BY Zenon DEF Commits, Having
    <3>2. \A j \in Ids : disk'["commits"][j] \notin {NoRecord, Torn} =>
                             disk'["commits"][j].id = j /\ GoodResult(disk'["commits"][j])
        BY Zenon DEF TypeInv, DiskType, RecordOK, Dirs
    <3> QED BY <3>1, <3>2, Records DEF GoodResult
  <2>3. ASSUME NEW y PROVE y \in Commits' <=> y \in Commits \/ y = x
    <3>1. CASE GoodResult(y) /\ y.id = i
      <4>1. y # NoRecord
        BY Zenon, <3>1, Records DEF GoodResult
      <4> QED BY Zenon, <1>1, <1>3, <2>1, <2>2, <3>1, <4>1
    <3>2. CASE ~(GoodResult(y) /\ y.id = i)
        BY <1>1, <1>3, <2>1, <2>2, <3>2
    <3> QED BY Zenon, <3>1, <3>2
  <2> QED BY Zenon, <1>1, <1>3, <2>1, <2>3
<1>8. Activated' = Activated
  <2>1. \A y \in Commits : y.id \in Ids /\ y.id # i /\ disk'["active"][y.id] = disk["active"][y.id]
    BY <1>3, <1>4, CommitsType, Records DEF TypeInv, GoodResult
  <2>2. disk'["active"][x.id] # x
    BY Zenon, <1>1, <1>4, <1>6
  <2> QED BY Zenon, <1>7, <2>1, <2>2 DEF Activated
<1>9. /\ Chained(Commits') /\ Longest(Commits') = NewHead(x)
      /\ Longest(Commits') = Append(Longest(Commits), Link(x)) /\ Link(x) \in Links
  <2>1. Chained(Commits \cup {x}) /\ Longest(Commits \cup {x}) = NewHead(x)
    BY Zenon, <1>2, <1>5, <1>7, CommitsType, ChainGrows DEF TypeInv, ChainInv
  <2> QED BY Zenon, <1>2, <1>5, <1>7, <2>1, HeadGrows DEF NewHead
<1>10. ChainInv'
  <2>1. \A y \in Commits' \ Activated' : y = x
    BY Zenon, <1>5, <1>7, <1>8
  <2> QED BY Zenon, <1>2, <1>5, <1>8, <1>9, <2>1 DEF ChainInv
<1>11. SeenInv' /\ seen = Longest(Commits)
    BY Zenon, <1>2, <1>5, <1>8 DEF SeenInv
<1>12. RecordsAgree'
  <2>1. \A d \in Dirs, j \in Ids : disk'[d][j] # Torn
    BY <1>1, <1>3 DEF RecordsAgree
  <2>2. disk["staged"][i] = x
    BY Zenon, <1>1, <1>2, <1>6 DEF MemoryInv
  <2>3. ASSUME NEW j \in Ids
        PROVE  /\ disk["active"][j] # NoRecord => disk["active"][j] = disk'["commits"][j]
               /\ Live(j) /\ disk'["commits"][j] # NoRecord =>
                     disk["staged"][j] = disk'["commits"][j]
    BY Zenon, <1>3, <1>6, <2>2 DEF RecordsAgree
  <2> QED BY <1>2, <1>4, <2>1, <2>3 DEF RecordsAgree, Live, Whole
<1>13. MemoryInv'
  <2>1. /\ mem'.head = mem.head /\ mem'.pending = x /\ mem'.tombstones = mem.tombstones
        /\ mem'.completions = mem.completions /\ mem'.reservations = mem.reservations
        /\ mem'.prepared = mem.prepared /\ mem'.staged = mem.staged
    BY Zenon, <1>2 DEF TypeInv, MemType
  <2>2. x \in Commits' \ Activated'
    BY Zenon, <1>5, <1>7, <1>8
  <2> QED BY <1>2, <1>4, <1>8, <2>1, <2>2 DEF MemoryInv, Live
<1>14. ~Closed(Longest(Commits))
    BY Zenon, <1>1, <1>2, <1>5 DEF GoodResult
<1> QED BY Zenon, <1>2, <1>9, <1>10, <1>11, <1>12, <1>13, <1>14

LEMMA PublishGood ==
    ASSUME TypeInv, TypeInv', Good, errors = 0, errors' = 0, PublishActive
    PROVE  Good' /\ seen' = seen /\ Commits' = Commits
<1> USE DEF Good
<1>1. PICK x \in Commits \ Activated : x = mem.pending
  <2>1. up /\ mem.pending # NoRecord
    BY DEF PublishActive, TypeInv, OpType, Idle
  <2> QED BY Zenon, <2>1 DEF MemoryInv
<1>2. /\ x \in ResultSet /\ x.id \in Ids /\ disk["commits"][x.id] = x /\ GoodResult(x)
      /\ x # NoRecord /\ x # Torn
    BY Zenon, CommitsType, Records DEF TypeInv, GoodResult
<1>3. disk["active"][x.id] = NoRecord
    BY Zenon, <1>1, <1>2 DEF Activated, RecordsAgree
<1>4. /\ Write("active", x.id, x)
      /\ mem' = [ApplyActive(mem, x) EXCEPT !.pending = NoRecord]
      /\ UNCHANGED <<cas, up, seen>> /\ op' = Idle /\ up
    BY <1>1, <1>2, <1>3, Records, FailureCounts DEF PublishActive, renderer, TypeInv, OpType, Idle
<1>5. /\ disk'["active"][x.id] = x
      /\ \A e \in Dirs \ {"active"} : disk'[e] = disk[e]
      /\ \A j \in Ids \ {x.id} : disk'["active"][j] = disk["active"][j]
    BY <1>2, <1>4, WriteDone DEF TypeInv, Dirs
<1>6. /\ disk'["tombstones"] = disk["tombstones"] /\ disk'["commits"] = disk["commits"]
      /\ disk'["reservations"] = disk["reservations"] /\ disk'["staged"] = disk["staged"]
      /\ disk'["prepared"] = disk["prepared"] /\ disk'["acks"] = disk["acks"]
    BY Zenon, <1>5 DEF Dirs
<1>7. Commits' = Commits
    BY Zenon, <1>6 DEF Commits, Having
<1>8. Activated' = Commits
  <2>1. ASSUME NEW y \in Commits PROVE disk'["active"][y.id] = y
    <3>1. CASE y = x
        BY Zenon, <1>5, <3>1
    <3>2. CASE y # x
      <4>1. y \in Activated
        BY Zenon, <1>1, <3>2, OnePending
      <4>2. y.id # x.id /\ y.id \in Ids
        BY Zenon, <1>2, <3>2, CommitsType DEF TypeInv
      <4> QED BY Zenon, <1>5, <4>1, <4>2 DEF Activated
    <3> QED BY Zenon, <3>1, <3>2
  <2> QED BY Zenon, <1>7, <2>1 DEF Activated
<1>9. NewHead(x) = Longest(Commits) /\ Longest(Commits) = Append(Longest(Activated), Link(x))
    BY Zenon, <1>1 DEF ChainInv, NewHead
<1>10. ChainInv'
  <2>1. ASSUME NEW k \in DOMAIN Longest(Commits)
        PROVE  \E y \in Commits : Longest(Commits)[k] = Link(y)
    <3>1. Longest(Activated) \in Seq(Links) /\ Link(x) \in Links
        BY Zenon, <1>2, ActivatedHead, HeadGrows DEF TypeInv, ChainInv
    <3>2. CASE k \in DOMAIN Longest(Activated)
      <4>1. Longest(Commits)[k] = Longest(Activated)[k]
        BY <1>9, <3>1, <3>2
      <4> QED BY Zenon, <3>2, <4>1 DEF ChainInv, Activated
    <3>3. CASE k \notin DOMAIN Longest(Activated)
      <4>1. Longest(Commits)[k] = Link(x)
        BY <1>9, <3>1, <3>3
      <4> QED BY Zenon, <1>1, <4>1
    <3> QED BY Zenon, <3>2, <3>3
  <2> QED BY Zenon, <1>7, <1>8, <2>1 DEF ChainInv
<1>11. SeenInv'
  <2>1. seen = Longest(Commits)
    BY Zenon DEF SeenInv, PublishActive
  <2> QED BY Zenon, <1>4, <1>7, <2>1 DEF SeenInv, Idle
<1>12. RecordsAgree'
  <2>1. \A d \in Dirs, j \in Ids : disk'[d][j] # Torn
    BY <1>2, <1>5 DEF RecordsAgree
  <2>2. ASSUME NEW j \in Ids
        PROVE  /\ disk'["active"][j] # NoRecord => disk'["active"][j] = disk["commits"][j]
               /\ disk["acks"][j] # NoRecord => disk["acks"][j] = disk'["active"][j]
               /\ disk["tombstones"][j] # NoRecord => disk["tombstones"][j] = disk'["active"][j]
    BY <1>2, <1>3, <1>5 DEF RecordsAgree
  <2> QED BY <1>4, <1>6, <2>1, <2>2 DEF RecordsAgree, Live, Whole
<1>13. MemoryInv'
  <2>1. /\ mem'.head = NewHead(x) /\ mem'.pending = NoRecord /\ mem'.tombstones = mem.tombstones
        /\ mem'.completions = [mem.completions EXCEPT ![x.id] = x]
        /\ mem'.reservations = mem.reservations
        /\ mem'.prepared = mem.prepared /\ mem'.staged = mem.staged
    BY Zenon, <1>4 DEF ApplyActive, TypeInv, MemType
  <2>2. Live(x.id) => disk["staged"][x.id] = x
    BY Zenon, <1>2 DEF RecordsAgree
  <2>3. ASSUME NEW j \in Ids, Live(j)
        PROVE  /\ mem'.completions[j] = disk'["active"][j]
               /\ disk["staged"][j] # NoRecord =>
                     disk["staged"][j] \in {mem.prepared[j], mem'.completions[j]}
    <3>1. CASE j = x.id
        BY Zenon, <1>2, <1>5, <2>1, <2>2, <2>3, <3>1 DEF TypeInv, MemType, Slots
    <3>2. CASE j # x.id
        BY <1>4, <1>5, <2>1, <2>3, <3>2 DEF TypeInv, MemType, Slots, MemoryInv
    <3> QED BY Zenon, <3>1, <3>2
  <2>4. mem'.head = Longest(Activated')
    BY Zenon, <1>8, <1>9, <2>1
  <2> QED BY <1>4, <1>6, <1>7, <1>8, <2>1, <2>3, <2>4 DEF MemoryInv, Live, Idle
<1> QED BY Zenon, <1>4, <1>7, <1>10, <1>11, <1>12, <1>13

LEMMA ActiveIsDone ==
    ASSUME TypeInv, Good, NEW i \in Ids
    PROVE  disk["active"][i] = IF disk["commits"][i] \in Activated THEN disk["commits"][i]
                               ELSE NoRecord
<1> USE DEF Good
<1>1. CASE disk["active"][i] = NoRecord
  <2>1. ASSUME disk["commits"][i] \in Activated PROVE FALSE
    <3>1. disk["commits"][i] \in ResultSet
        BY Zenon, <2>1, CommitsType DEF TypeInv
    <3>2. disk["commits"][i].id = i
        BY Zenon, <3>1, Records DEF TypeInv, DiskType, RecordOK, Dirs
    <3>3. disk["active"][i] = disk["commits"][i]
        BY Zenon, <2>1, <3>2 DEF Activated
    <3> QED BY Zenon, <1>1, <3>1, <3>3, Records
  <2> QED BY Zenon, <1>1, <2>1
<1>2. CASE disk["active"][i] # NoRecord
  <2>1. /\ disk["commits"][i] = disk["active"][i] /\ disk["active"][i].id = i
        /\ GoodResult(disk["active"][i])
    BY Zenon, <1>2 DEF RecordsAgree, TypeInv, DiskType, RecordOK, Dirs
  <2>2. disk["commits"][i] \in Commits
    BY Zenon, <2>1, CommitsType DEF TypeInv
  <2> QED BY Zenon, <2>1, <2>2 DEF Activated
<1> QED BY Zenon, <1>1, <1>2

LEMMA OpenGood ==
    ASSUME TypeInv, Good, errors = 0, Open
    PROVE  Good'
<1> USE DEF Good
<1>1. /\ mem' = Restored /\ op = Idle /\ UNCHANGED <<disk, cas, op, seen>>
    BY Zenon DEF Open, store, renderer, TypeInv, OpType
<1>2. Commits' = Commits /\ Activated' = Activated /\ ChainInv' /\ SeenInv'
    BY Zenon, <1>1, SameDecisions, KeepsSeen
<1>3. RecordsAgree'
    BY Zenon, <1>1 DEF RecordsAgree, Live, Whole
<1>4. /\ mem'.head = Longest(Activated) /\ mem'.tombstones = disk["tombstones"]
      /\ mem'.pending = IF Activated = Commits THEN NoRecord
                        ELSE CHOOSE x \in Commits : x \notin Activated
    BY Zenon, <1>1 DEF Restored
<1>5. \/ mem'.pending = NoRecord /\ Activated = Commits
      \/ mem'.pending \in Commits \ Activated
    BY Zenon, <1>4 DEF Activated
<1>6. \A i \in Ids :
         disk["active"][i] = IF disk["commits"][i] \in Activated THEN disk["commits"][i]
                             ELSE NoRecord
    BY Zenon, ActiveIsDone
<1>7. ASSUME NEW i \in Ids, Live(i)
      PROVE  /\ mem'.completions[i] = disk["active"][i]
             /\ mem'.reservations[i] \in {NoRecord, disk["reservations"][i]}
             /\ mem'.staged[i] \in {NoRecord, disk["staged"][i]}
             /\ mem'.prepared[i] = IF disk["active"][i] # NoRecord THEN NoRecord
                                   ELSE disk["prepared"][i]
    BY Zenon, <1>1, <1>6, <1>7 DEF Restored, Unretired, Live
<1>8. ASSUME NEW i \in Ids, Live(i), disk["staged"][i] # NoRecord
      PROVE  disk["staged"][i] \in {mem'.prepared[i], mem'.completions[i]}
  <2>1. CASE disk["active"][i] = NoRecord
    BY Zenon, <1>7, <1>8, <2>1 DEF RecordsAgree
  <2>2. CASE disk["active"][i] # NoRecord
    BY Zenon, <1>7, <1>8, <2>2 DEF RecordsAgree
  <2> QED BY Zenon, <2>1, <2>2
<1>9. MemoryInv'
    BY Zenon, <1>1, <1>2, <1>4, <1>5, <1>7, <1>8 DEF MemoryInv, Live, Idle
<1> QED BY Zenon, <1>2, <1>3, <1>9

(* One step, and what it does to the abstract frontier.                    *)
StepGood == /\ Good'
            /\ \/ UNCHANGED <<Longest(Commits), seen>>
               \/ seen' = Longest(Commits) /\ Longest(Commits)' = Longest(Commits)
               \/ /\ seen' = seen /\ seen = Longest(Commits) /\ ~Closed(Longest(Commits))
                  /\ \E link \in Links : Longest(Commits)' = Append(Longest(Commits), link)

LEMMA SameFrontier ==
    ASSUME UNCHANGED <<Commits, seen>>
    PROVE  UNCHANGED <<Longest(Commits), seen>>
    BY Zenon

LEMMA StepSound ==
    ASSUME TypeInv, TypeInv', Good, errors = 0, errors' = 0, [JournalNext]_journalVars
    PROVE  StepGood
<1>1. ASSUME UNCHANGED <<disk, cas, mem, op, up, seen>> PROVE StepGood
  <2>1. Commits' = Commits
    BY Zenon, <1>1, SameDecisions
  <2> QED BY Zenon, <1>1, <2>1, ReplayCrashGood, SameFrontier DEF StepGood
<1>2. ASSUME NEW r \in Rounds(mem.head), Reserve(r) PROVE StepGood
  <2>1. UNCHANGED <<disk["commits"], disk["active"], seen>>
    BY Zenon, <1>2 DEF Reserve, Write, WriteFails, renderer, TypeInv, DiskType, Dirs
  <2> QED BY Zenon, <1>2, <2>1, ReserveGood, SameDecisions, SameFrontier DEF StepGood
<1>3. ASSUME NEW i \in Having(mem.reservations), NEW x \in Results(mem.reservations[i]), Prepare(x)
      PROVE  StepGood
  <2>1. x \in ResultSet
    <3>1. GoodRound(mem.reservations[i])
        BY Zenon DEF Having, TypeInv, MemType, RecordOK
    <3> QED BY Zenon, <3>1, ResultGood DEF GoodResult
  <2>2. UNCHANGED <<disk["commits"], disk["active"], seen>>
    BY Zenon, <1>3 DEF Prepare, Write, WriteFails, renderer, TypeInv, DiskType, Dirs
  <2> QED BY Zenon, <1>3, <2>1, <2>2, PrepareGood, SameDecisions, SameFrontier DEF StepGood
<1>4. ASSUME \/ \E i \in Ids : StageBegin(i)
             \/ StageFragment \/ StageRender \/ Recover
      PROVE  StepGood
  <2>1. UNCHANGED <<disk, seen>>
    BY Zenon, <1>4 DEF StageBegin, StageFragment, StageRender, Recover, store, renderer
  <2> QED BY Zenon, <1>4, <2>1, StageGood, SameDecisions, SameFrontier DEF StepGood
<1>5. CASE StageRecord
  <2>1. UNCHANGED <<disk["commits"], disk["active"], seen>>
    BY Zenon, <1>5 DEF StageRecord, Write, WriteFails, renderer, TypeInv, DiskType, Dirs
  <2> QED BY Zenon, <1>5, <2>1, StageRecordGood, SameDecisions, SameFrontier DEF StepGood
<1>6. ASSUME NEW i \in Ids, CommitRound(i) PROVE StepGood
    BY Zenon, <1>6, CommitGood DEF StepGood
<1>7. CASE Activate
  <2>1. Longest(Commits)' = Longest(Commits) /\ Good' /\ seen' \in {seen, Longest(Commits)}
    BY Zenon, <1>7, ActivateGood
  <2> QED BY Zenon, <2>1 DEF StepGood
<1>8. CASE PublishActive
    BY Zenon, <1>8, PublishGood, SameFrontier DEF StepGood
<1>9. ASSUME NEW i \in Ids, Acknowledge(i) \/ Retire(i) PROVE StepGood
  <2>1. UNCHANGED <<disk["commits"], disk["active"], seen>>
    BY Zenon, <1>9 DEF Acknowledge, Retire, Write, WriteFails, renderer, TypeInv, DiskType, Dirs
  <2> QED BY Zenon, <1>9, <2>1, AcknowledgeGood, RetireGood, SameDecisions, SameFrontier DEF StepGood
<1>10. CASE RetireUnlink \/ RetireEnd
  <2>1. UNCHANGED <<disk["commits"], disk["active"], seen>>
    BY Zenon, <1>10, UnlinkType DEF RetireUnlink, RetireEnd, store, renderer, Dirs, RetireDirs
  <2> QED BY Zenon, <1>10, <2>1, UnlinkGood, RetireEndGood, SameDecisions, SameFrontier DEF StepGood
<1>11. CASE Crash \/ Open
  <2>1. UNCHANGED <<disk, seen>>
    BY Zenon, <1>11 DEF Crash, Open, store, renderer
  <2> QED BY Zenon, <1>11, <2>1, ReplayCrashGood, OpenGood, SameDecisions, SameFrontier DEF StepGood
<1>12. ASSUME NEW r, Replay(r) PROVE StepGood
  <2>1. UNCHANGED <<disk, cas, mem, op, up, seen>>
    BY Zenon, <1>12 DEF Replay, store, renderer
  <2> QED BY Zenon, <1>1, <2>1
<1>13. CASE Calls
    BY Zenon, <1>2, <1>3, <1>4, <1>6, <1>9, <1>12, <1>13 DEF Calls
<1>14. CASE Steps
    BY Zenon, <1>4, <1>5, <1>7, <1>8, <1>10, <1>14 DEF Steps
<1>15. CASE UNCHANGED journalVars
    BY Zenon, <1>1, <1>15 DEF journalVars
<1> QED BY Zenon, <1>11, <1>13, <1>14, <1>15 DEF JournalNext

LEMMA ErrorsGrow ==
    ASSUME errors \in Nat, [JournalNext]_journalVars
    PROVE  errors' \in {errors, errors + 1}
<1>1. CASE Calls
    BY Zenon, <1>1 DEF Calls, Reserve, Replay, Prepare, StageBegin, CommitRound, Acknowledge, Retire,
                Recover, Write, WriteFails, budget
<1>2. CASE Steps
    BY Zenon, <1>2 DEF Steps, StageFragment, StageRender, StageRecord, Activate, PublishActive,
                RetireUnlink, RetireEnd, Write, WriteFails, budget
<1>3. CASE Crash \/ Open \/ UNCHANGED journalVars
    BY Zenon, <1>3 DEF Crash, Open, budget, journalVars
<1> QED BY Zenon, <1>1, <1>2, <1>3 DEF JournalNext

LEMMA InitSound == JournalInit => Sound
<1> SUFFICES ASSUME JournalInit PROVE Sound
    BY Zenon
<1>1. Commits = {} /\ Activated = {} /\ Longest(Commits) = <<>>
    BY Zenon DEF JournalInit, Commits, Activated, Having, Longest, Dirs, Blank
<1>2. ChainInv
    BY <1>1 DEF ChainInv, Chained
<1>3. RecordsAgree
    BY Zenon DEF JournalInit, RecordsAgree, Blank, Dirs, NoRecord, Torn
<1>4. MemoryInv
    BY Zenon, <1>1 DEF JournalInit, MemoryInv, Fresh, Blank, Dirs, Idle
<1>5. SeenInv
    BY Zenon, <1>1 DEF JournalInit, SeenInv, Idle
<1> QED BY Zenon, <1>2, <1>3, <1>4, <1>5 DEF Sound, Good, JournalInit

LEMMA SoundStep ==
    ASSUME TypeInv, TypeInv', Sound, [JournalNext]_journalVars
    PROVE  Sound'
<1>1. errors' \in Nat /\ (errors' = 0 => errors = 0)
    BY ErrorsGrow DEF Sound
<1>2. errors' = 0 => Good'
    BY Zenon, <1>1, StepSound DEF Sound, StepGood
<1> QED BY Zenon, <1>1, <1>2 DEF Sound

LEMMA SoundAlways == JournalSpec => [](TypeInv /\ Sound)
<1>1. TypeInv /\ Sound /\ [JournalNext]_journalVars => (TypeInv /\ Sound)'
    BY Zenon, StepType, SoundStep
<1> QED BY <1>1, InitType, InitSound, PTL DEF JournalSpec

LEMMA SoundRestores ==
    ASSUME TypeInv, Good
    PROVE  Restorable
<1> USE DEF Good
<1>1. ASSUME NEW i \in Having(Unretired(disk["prepared"]))
      PROVE  Unretired(disk["reservations"])[i] = Unretired(disk["prepared"])[i].round
  <2>1. i \in Ids /\ Live(i) /\ disk["prepared"][i] # NoRecord
    BY Zenon, <1>1 DEF Having, Unretired, Live
  <2> QED BY Zenon, <2>1 DEF Unretired, RecordsAgree, Live
<1>2. ASSUME NEW i \in Having(Unretired(disk["staged"]))
      PROVE  /\ Unretired(disk["prepared"])[i] = Unretired(disk["staged"])[i]
             /\ Whole(Unretired(disk["staged"])[i])
  <2>1. i \in Ids /\ Live(i) /\ disk["staged"][i] # NoRecord
    BY Zenon, <1>2 DEF Having, Unretired, Live
  <2> QED BY Zenon, <2>1 DEF Unretired, RecordsAgree, Live
<1>3. \A i \in Having(disk["active"]) : disk["active"][i] = disk["commits"][i]
    BY Zenon DEF Having, RecordsAgree
<1>4. ASSUME NEW x \in Commits, disk["tombstones"][x.id] = NoRecord PROVE Whole(x)
  <2>1. x.id \in Ids /\ disk["commits"][x.id] = x /\ x # NoRecord
    BY Zenon, CommitsType, Records DEF TypeInv, GoodResult
  <2> QED BY <1>4, <2>1 DEF RecordsAgree, Live
<1>5. ASSUME NEW d \in {"acks", "tombstones"}, NEW i \in Having(disk[d])
      PROVE  disk[d][i] \in Activated
  <2>1. i \in Ids /\ disk[d][i] # NoRecord /\ disk[d][i] # Torn
    BY Zenon, Records DEF Having
  <2>2. disk[d][i] = disk["active"][i] /\ disk["active"][i] = disk["commits"][i]
    BY Zenon, <2>1 DEF RecordsAgree
  <2>3. disk["commits"][i].id = i /\ GoodResult(disk["commits"][i])
    BY Zenon, <2>1, <2>2 DEF TypeInv, DiskType, RecordOK, Dirs
  <2>4. disk["commits"][i] \in Commits
    BY Zenon, <2>1, <2>3, CommitsType DEF TypeInv
  <2> QED BY Zenon, <2>2, <2>3, <2>4 DEF Activated
<1>6. \A d \in Dirs, i \in Ids : disk[d][i] # Torn
    BY Zenon DEF RecordsAgree
<1>7. Chained(Commits) /\ \A x \in Commits \ Activated : NewHead(x) = Longest(Commits)
    BY Zenon DEF ChainInv
<1> QED BY Zenon, <1>1, <1>2, <1>3, <1>4, <1>5, <1>6, <1>7 DEF Restorable

(* As long as no write has failed, open() finds records that restore_records *)
(* accepts, wherever the process stopped: between any two file operations  *)
(* of a round, of an activation or of a collection.                        *)
THEOREM AlwaysReopens == JournalSpec => []Reopens
<1>1. TypeInv /\ Sound => Reopens
    BY Zenon, SoundRestores DEF Sound, Reopens
<1> QED BY <1>1, SoundAlways, PTL

LEMMA SoundMemory == TypeInv /\ Sound => MemoryIsDurable
<1> SUFFICES ASSUME TypeInv, Good, up
             PROVE  /\ mem.head = Restored.head /\ mem.pending = Restored.pending
                    /\ \A i \in Ids : mem.tombstones[i] = NoRecord =>
                          mem.completions[i] = Restored.completions[i]
    BY Zenon DEF Sound, MemoryIsDurable
<1> USE DEF Good
<1>1. /\ Restored.head = Longest(Activated)
      /\ Restored.pending = IF Activated = Commits THEN NoRecord
                            ELSE CHOOSE x \in Commits : x \notin Activated
      /\ \A i \in Ids : Restored.completions[i] =
                           IF disk["commits"][i] \in Activated THEN disk["commits"][i] ELSE NoRecord
    BY Zenon DEF Restored
<1>2. mem.head = Restored.head
    BY Zenon, <1>1 DEF MemoryInv
<1>3. mem.pending = Restored.pending
  <2>1. CASE Activated = Commits
    BY Zenon, <1>1, <2>1 DEF MemoryInv
  <2>2. CASE Activated # Commits
    <3>1. Restored.pending \in Commits \ Activated
        BY Zenon, <1>1, <2>2 DEF Activated
    <3>2. mem.pending \in Commits \ Activated
        BY Zenon, <2>2 DEF MemoryInv
    <3> QED BY Zenon, <3>1, <3>2, OnePending
  <2> QED BY Zenon, <2>1, <2>2
<1>4. ASSUME NEW i \in Ids, mem.tombstones[i] = NoRecord
      PROVE  mem.completions[i] = Restored.completions[i]
    BY Zenon, <1>1, <1>4, ActiveIsDone DEF MemoryInv, Live
<1> QED BY Zenon, <1>2, <1>3, <1>4

(* What was answered stays decided, whatever fails; and until a write      *)
(* fails, the head, the pending round and the completions of the running   *)
(* journal are the ones that open() would read back from its records.      *)
THEOREM JournalIsExact == JournalSpec => []JournalExact
<1>1. TypeInv /\ Sound => JournalExact
    BY Zenon, TypedDecided, SoundMemory DEF JournalExact
<1> QED BY <1>1, SoundAlways, PTL

(* Until a write fails, the commit records and the renderer implement the  *)
(* carried frontier: one chain of links, nothing decided on top of a link  *)
(* that is not shown, nothing after a closing link, every link shown once. *)
THEOREM FrontierRefined == JournalSpec /\ [](errors = 0) => ImplementsFrontier
<1>1. JournalInit => Frontier!AbsInit
  <2>1. JournalInit => Longest(Commits) = <<>>
    BY DEF JournalInit, Commits, Having, Longest, Dirs, Blank
  <2> QED BY Zenon, <2>1 DEF Frontier!AbsInit, JournalInit
<1>2. /\ TypeInv /\ Sound /\ errors = 0
      /\ (TypeInv /\ errors = 0)' /\ [JournalNext]_journalVars
      => [Frontier!AbsNext]_(Frontier!absVars)
  <2> SUFFICES ASSUME TypeInv, TypeInv', Sound, errors = 0, errors' = 0,
                      [JournalNext]_journalVars
               PROVE  [Frontier!AbsNext]_(Frontier!absVars)
    BY Zenon
  <2>1. StepGood
    BY Zenon, StepSound DEF Sound
  <2>2. CASE UNCHANGED <<Longest(Commits), seen>>
    BY Zenon, <2>2 DEF Frontier!absVars
  <2>3. CASE seen' = Longest(Commits) /\ Longest(Commits)' = Longest(Commits)
    BY Zenon, <2>3 DEF Frontier!absVars, Frontier!AbsNext, Frontier!Show
  <2>4. CASE /\ seen' = seen /\ seen = Longest(Commits) /\ ~Closed(Longest(Commits))
             /\ \E link \in Links : Longest(Commits)' = Append(Longest(Commits), link)
    <3>1. Longest(Commits) \in Seq(Links)
        BY Zenon, CommitsType, ChainHead DEF TypeInv, Sound, Good, ChainInv
    <3>2. Len(Longest(Commits)') = Len(Longest(Commits)) + 1
        BY <2>4, <3>1
    <3> QED BY Zenon, <2>4, <3>2 DEF Frontier!AbsNext, Frontier!Decide, Frontier!IsClosed, Closed
  <2> QED BY Zenon, <2>1, <2>2, <2>3, <2>4 DEF StepGood
<1> QED BY <1>1, <1>2, SoundAlways, PTL DEF JournalSpec, ImplementsFrontier, Frontier!AbsSpec
==============================================================================
