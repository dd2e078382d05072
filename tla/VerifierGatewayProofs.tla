------------------------ MODULE VerifierGatewayProofs ------------------------
(***************************************************************************)
(* The steps of a gateway command from the announcement on, those of the   *)
(* journal and a restart keep GwInv.  With it, as long as no write fails,  *)
(* every reply is of a decided, activated and visible round, the source is *)
(* never more than one head behind, and the gateway with its real renderer *)
(* implements CarriedFrontier.                                             *)
(***************************************************************************)
EXTENDS VerifierGatewaySteps, VerifierJournalProofs

(* The render catches up with what is decided.                             *)
LEMMA ShowCatchesUp ==
    ASSUME Safe, GwShow
    PROVE  visible' \in {visible, Tip} /\ (Go("mark") => visible' = Tip /\ Shown(gw.id)')
<1> USE DEF journalVars, gwStore, world, source, store, renderer
<1>1. /\ gw.do \in Doing /\ gw.do = "show" /\ op = Idle /\ up /\ disk' = disk
    BY Zenon DEF GwShow, At, Doing
<1> USE <1>1
<1>2. /\ Top(gw.id) /\ mem.pending = NoRecord /\ gw.id \in Ids
    BY Zenon, Serving DEF Safe, GwInv, Control
<1> DEFINE c == disk["commits"][gw.id]
<1>3. /\ c \in Commits /\ c \in ResultSet /\ NewHead(c) = Tip /\ c.id = gw.id /\ c # NoRecord
    BY <1>2, CommitsType, Records DEF Top, Safe, TypeInv, DiskType, RecordOK, Dirs
<1> USE <1>3
<1>4. disk["active"][gw.id] = c /\ mem.completions[gw.id] = c
    BY <1>2, Running DEF Activated
<1> HIDE DEF c
<1>5. CASE visible' = IF Shows(visible, Link(c)) THEN visible ELSE Append(visible, Link(c))
  <2>1. visible' = Tip
    <3>1. CASE Shows(visible, Link(c))
        BY Zenon, <1>5, <3>1, AllShown DEF Safe, GwInv
    <3>2. CASE ~Shows(visible, Link(c))
      <4>1. visible # Tip
          BY Zenon, <3>2, InChain DEF Safe
      <4>2. PICK y \in Commits : NewHead(y) = Tip /\ visible = y.base
          BY Zenon, <4>1 DEF Safe, GwInv, World
      <4>3. y = c
          BY <4>2, SameHead, CommitsType DEF Safe, TypeInv
      <4> QED BY Zenon, <1>5, <3>2, <4>2, <4>3 DEF NewHead
    <3> QED BY Zenon, <3>1, <3>2
  <2>2. Shows(Tip, Link(c))
      BY Zenon, InChain DEF Safe
  <2>3. Go("mark") => Shown(gw.id)'
    <3>1. Go("mark") => gw'.id = gw.id
        BY Zenon, Serving, Moved DEF Doing
    <3> QED BY Zenon, <1>4, <2>1, <2>2, <3>1 DEF Shown, c
  <2> QED BY Zenon, <2>1, <2>3
<1>6. CASE Return /\ visible' = visible
  <2>1. ~Go("mark")
    <3> SUFFICES ASSUME Go("mark") PROVE FALSE
        BY Zenon
    <3>1. gw' # Rest
        BY Zenon, Serving, Moved DEF Doing
    <3> QED BY Zenon, <1>6, <3>1 DEF Return
  <2> QED BY Zenon, <1>6, <2>1
<1> QED BY Zenon, <1>4, <1>5, <1>6 DEF GwShow

LEMMA ShowSafe ==
    ASSUME Safe, GwShow
    PROVE  GwInv'
<1> USE DEF journalVars, gwStore, world, source, store, renderer
<1>1. /\ gw.do \in Doing /\ gw.do = "show" /\ op = Idle /\ op' = Idle /\ up
      /\ UNCHANGED <<disk, mem, up, admitted, saved, intents>>
      /\ UNCHANGED <<marks, acked, registry, replied, installed>>
    BY Zenon DEF GwShow, At, Doing
<1> USE <1>1
<1>2. Steady /\ gw \in GwSet /\ Fit(gw.r) /\ gw # Rest
    BY Zenon, Serving DEF Steady
<1> USE <1>2
<1>3. CASE Return /\ visible' = visible
    BY Zenon, <1>3, Returned
<1>4. CASE Go("mark")
  <2>1. visible' = Tip /\ Shown(gw.id)'
      BY Zenon, <1>4, ShowCatchesUp
  <2> USE <2>1
  <2>2. /\ gw' \in GwSet /\ Fit(gw'.r) /\ gw' # Rest /\ gw'.do = "mark"
        /\ gw'.r = gw.r /\ gw'.cmd = gw.cmd
      BY Zenon, <1>4, Moved DEF Doing
  <2>3. GwTypes'
      BY Zenon, <2>2, KeepTypes DEF Safe, GwInv
  <2>4. \A link : Shows(visible, link) => Shows(visible', link)
    <3>1. visible = Tip \/ \E x \in Commits : NewHead(x) = Tip /\ visible = x.base
        BY Zenon DEF Safe, GwInv, World
    <3>2. ASSUME NEW x \in Commits, NewHead(x) = Tip, visible = x.base, NEW link,
                 Shows(visible, link)
          PROVE  Shows(Tip, link)
      <4>1. x.base \in Seq(Links) /\ Tip = Append(x.base, Link(x))
          BY Zenon, <3>2, HeadGrows, CommitsType DEF Safe, TypeInv, NewHead
      <4>2. PICK k \in DOMAIN x.base : x.base[k] = link
          BY Zenon, <3>2 DEF Shows
      <4>3. k \in DOMAIN Tip /\ Tip[k] = link
          BY <4>1, <4>2
      <4> QED BY Zenon, <4>3 DEF Shows
    <3> QED BY Zenon, <3>1, <3>2
  <2>5. Stored' /\ Commits' = Commits /\ Tip' = Tip /\ Activated \subseteq Activated'
      BY Zenon, <2>4, KeepStored, SteadyChain DEF Safe, GwInv
  <2> USE <2>5
  <2>6. World'
      BY Zenon, <2>4 DEF Safe, GwInv, World, Control
  <2>7. Control'
      BY Zenon, <2>2 DEF Control, Clear, Safe, GwInv
  <2> QED BY Zenon, <2>3, <2>6, <2>7 DEF GwInv
<1> QED BY Zenon, <1>3, <1>4 DEF GwShow

LEMMA MarkSafe ==
    ASSUME Safe, GwMark
    PROVE  GwInv'
<1> USE DEF journalVars, gwStore, world, source
<1>1. /\ gw.do \in Doing /\ gw.do = "mark" /\ op = Idle /\ up
      /\ UNCHANGED <<disk, mem, op, up, admitted, saved, intents>>
      /\ UNCHANGED <<acked, registry, visible, replied, installed>>
      /\ marks' = marks \cup {gw.id} /\ Go(gw.then)
    BY Zenon DEF GwMark, At, Doing
<1> USE <1>1
<1>2. /\ Steady /\ gw \in GwSet /\ Fit(gw.r) /\ gw # Rest /\ gw.id \in Ids
      /\ gw.then \in {"reply", "reconcile"}
    BY Zenon, Serving DEF Steady
<1> USE <1>2
<1>3. Shown(gw.id) /\ mem.pending = NoRecord
    BY Zenon DEF Safe, GwInv, Control
<1>4. /\ gw' \in GwSet /\ Fit(gw'.r) /\ gw' # Rest /\ gw'.do = gw.then
      /\ gw'.id = gw.id /\ gw'.r = gw.r /\ gw'.cmd = gw.cmd
    BY Zenon, Moved DEF Doing
<1>5. GwTypes' /\ World' /\ Commits' = Commits /\ Tip' = Tip
    BY Zenon, <1>4, KeepTypes, KeepWorld, SteadyChain DEF Safe, GwInv
<1> USE <1>5
<1>6. Stored'
  <2>1. PendingHasIntent' /\ SourceFollows'
      BY Zenon DEF Safe, GwInv, Stored, PendingHasIntent, SourceFollows, Tip
  <2>2. \A i \in marks' : i \in Ids /\ Shown(i)'
      BY Zenon, <1>3 DEF Safe, GwInv, Stored, Shown
  <2> QED BY Zenon, <2>1, <2>2 DEF Safe, GwInv, Stored
<1>7. Control'
    BY Zenon, <1>3, <1>4 DEF Control, Clear, Shown, Safe, GwInv
<1> QED BY Zenon, <1>6, <1>7 DEF GwInv

LEMMA AnswerSafe ==
    ASSUME Safe, GwReply \/ GwFetch
    PROVE  GwInv'
<1> USE DEF journalVars, gwStore, world, source
<1>1. /\ gw.do \in Doing /\ op = Idle /\ up /\ Return
      /\ UNCHANGED <<disk, mem, op, up, admitted, saved, intents>>
      /\ UNCHANGED <<marks, acked, registry, visible, installed>>
    BY Zenon DEF GwReply, GwFetch, At, Doing, Clear
<1> USE <1>1
<1>2. Steady /\ gw.id \in Ids
    BY Zenon, Serving DEF Steady
<1> USE <1>2
<1>3. GwTypes' /\ Stored' /\ Control'
    BY Zenon, KeepTypes, KeepStored, RestControl DEF Safe, GwInv, Return
<1>4. CASE replied' = replied
    BY Zenon, <1>3, <1>4, KeepWorld DEF Safe, GwInv
<1>5. CASE GwReply
  <2>1. Shown(gw.id) /\ replied' = replied \cup {mem.completions[gw.id]}
      BY Zenon, <1>5 DEF GwReply, At, Safe, GwInv, Control
  <2>2. /\ mem.completions[gw.id] \in Activated
        /\ Shows(visible, Link(mem.completions[gw.id]))
      BY Zenon, <2>1, Running DEF Shown
  <2>3. Commits' = Commits /\ Tip' = Tip /\ Activated \subseteq Activated'
      BY Zenon, SteadyChain DEF Safe
  <2>4. World'
      BY Zenon, <2>1, <2>2, <2>3 DEF Safe, GwInv, World
  <2> QED BY Zenon, <1>3, <2>4 DEF GwInv
<1> QED BY Zenon, <1>4, <1>5 DEF GwFetch

LEMMA AckSafe ==
    ASSUME Safe, GwAck \/ GwAcked
    PROVE  GwInv'
<1> USE DEF journalVars, gwStore, world, source, renderer
<1>1. /\ gw.do \in Doing /\ gw.do \in Clear \ {"refresh"} /\ op = Idle /\ op' = Idle /\ up
      /\ UNCHANGED <<up, admitted, saved, intents>> /\ gw.cmd = "ack"
      /\ UNCHANGED <<marks, registry, visible, replied, installed>>
    BY Zenon DEF GwAck, GwAcked, At, Doing, Clear, Acknowledge, Safe, GwInv, Control
<1> USE <1>1
<1>2. gw.id \in Ids /\ gw.id = gw.r.id /\ gw # Rest
    BY Zenon, Serving DEF Safe, GwInv, Control
<1>3. CASE GwAck
  <2>1. mem'.pending = mem.pending
      BY <1>2, <1>3 DEF GwAck, Acknowledge, Safe, TypeInv, MemType
  <2>2. \/ disk' = disk
        \/ \E left \in {Torn, mem.completions[gw.id]} :
               disk' = [disk EXCEPT !["acks"][gw.id] = left]
      BY Zenon, <1>3 DEF GwAck, Acknowledge, Write, WriteFails
  <2>3. disk \in [Dirs -> [Ids -> RoundSet \cup ResultSet \cup {NoRecord, Torn}]]
      BY Zenon DEF Safe, TypeInv, DiskType
  <2>4. \A d \in Dirs \ {"acks"} : disk'[d] = disk[d]
      BY Zenon, <2>2, <2>3
  <2>5. Steady
      BY Zenon, <2>4 DEF Steady, Dirs
  <2> QED BY Zenon, <1>3, <2>1, <2>5, NextStep DEF GwAck, Clear
<1>4. CASE GwAcked
  <2>1. /\ acked' = acked \cup {NewHead(mem.completions[gw.id])} /\ Return
        /\ UNCHANGED <<disk, mem>>
      BY Zenon, <1>4 DEF GwAcked
  <2> USE <2>1
  <2>2. Steady
      BY Zenon DEF Steady
  <2>3. NewHead(mem.completions[gw.id]) \in installed
      BY Zenon, <1>2, Running DEF Safe, GwInv, Control
  <2>4. GwTypes' /\ World' /\ Control' /\ Commits' = Commits /\ Tip' = Tip
      BY Zenon, <2>2, KeepTypes, KeepWorld, RestControl, SteadyChain DEF Safe, GwInv, Return
  <2> USE <2>4
  <2>5. PendingHasIntent' /\ SourceFollows'
      BY Zenon DEF Safe, GwInv, Stored, PendingHasIntent, SourceFollows, Tip
  <2>6. \A i \in marks' : i \in Ids /\ Shown(i)'
      BY Zenon DEF Safe, GwInv, Stored, Shown
  <2>7. Stored'
      BY Zenon, <2>3, <2>5, <2>6 DEF Safe, GwInv, Stored
  <2> QED BY Zenon, <2>7 DEF GwInv
<1> QED BY Zenon, <1>3, <1>4

LEMMA CommitsPrimed ==
    ASSUME DiskType'
    PROVE  \A x : x \in Commits' <=> /\ GoodResult(x) /\ x.id \in Ids
                                     /\ disk'["commits"][x.id] = x
    BY Records DEF Commits, Having, DiskType, RecordOK, Dirs, GoodResult

(* The decision: nothing was left to show, and the source has the head.    *)
LEMMA CommitSafe ==
    ASSUME Safe, TypeInv', Good', errors = 0, errors' = 0, GwCommit
    PROVE  GwInv' /\ visible' = visible /\ visible = Tip
           /\ ~Closed(Tip) /\ \E link \in Links : Tip' = Append(Tip, link)
<1> USE DEF gwStore, world, source, renderer
<1>1. /\ gw.do \in Doing /\ gw.do \in Clear \ {"refresh"} /\ gw.do = "commit" /\ op = Idle /\ up
      /\ UNCHANGED <<up, admitted, saved, intents, marks, acked>> /\ CommitRound(gw.id)
      /\ UNCHANGED <<registry, visible, replied, installed>> /\ Go("announce")
    BY Zenon DEF GwCommit, At, Doing, Clear, CommitRound
<1> USE <1>1
<1>2. gw \in GwSet /\ Fit(gw.r) /\ gw # Rest /\ gw.id \in Ids
    BY Zenon, Serving
<1> USE <1>2
<1>3. visible = Tip /\ mem.pending = NoRecord /\ \A y \in Commits : y.id \in marks
    BY Zenon, ClearShows DEF Safe, GwInv, Control
<1> USE <1>3
<1>4. Good' /\ ~Closed(Tip) /\ \E link \in Links : Tip' = Append(Tip, link)
    BY Zenon, CommitGood DEF Safe, Tip
<1> DEFINE x == mem.prepared[gw.id]
<1>5. /\ disk["commits"][gw.id] = NoRecord /\ disk'["commits"][gw.id] = x
      /\ \A d \in {"tombstones", "prepared", "reservations", "active"} : disk'[d] = disk[d]
      /\ \A i \in Ids \ {gw.id} : disk'["commits"][i] = disk["commits"][i]
      /\ mem'.pending = x /\ op' = [do |-> "activate", id |-> gw.id]
      /\ x.base = mem.head /\ mem.completions[gw.id] = NoRecord /\ x # NoRecord
  <2>1. /\ Write("commits", gw.id, x) /\ mem' = [mem EXCEPT !.pending = x]
        /\ op' = [do |-> "activate", id |-> gw.id]
      BY Zenon, FailureCounts DEF CommitRound
  <2> QED BY ZenonT(60), <2>1 DEF CommitRound, Write, Dirs, Safe, TypeInv, DiskType, MemType
<1> USE <1>5
<1>6. /\ GoodResult(x) /\ x.id = gw.id /\ x = disk["prepared"][gw.id] /\ saved[gw.id] = x
  <2>1. x = disk["prepared"][gw.id]
      BY Zenon, Running
  <2> USE <2>1
  <2>2. GoodResult(x) /\ x.id = gw.id
    <3>1. x # Torn
        BY DEF Safe, Good, RecordsAgree, Dirs
    <3> QED BY <3>1 DEF Safe, TypeInv, DiskType, RecordOK, Dirs
  <2> QED BY Zenon, <2>2 DEF Safe, GwInv, Stored
<1> USE <1>6
<1>7. x.base \in {<<>>} \cup acked /\ x.base = Tip
  <2>1. disk["reservations"][gw.id] = x.round /\ x.round # NoRecord
    <3>1. Live(gw.id)
        BY Zenon DEF Safe, GwInv, Stored, Live, Blank
    <3> QED BY <3>1, Records DEF Safe, Good, RecordsAgree, GoodResult, ResultSet
  <2>2. x.round.base = x.base
      BY Zenon DEF GoodResult
  <2> QED BY Zenon, <2>1, <2>2, Running DEF Safe, GwInv, Stored
<1> USE <1>7
<1> HIDE DEF x
<1>8. Commits' = Commits \cup {x} /\ NewHead(x) = Tip' /\ Activated \subseteq Activated'
  <2>1. \A y : y \in Commits <=> GoodResult(y) /\ y.id \in Ids /\ disk["commits"][y.id] = y
      BY Zenon, CommitsType DEF Safe, TypeInv
  <2>2. \A y : y \in Commits' <=> GoodResult(y) /\ y.id \in Ids /\ disk'["commits"][y.id] = y
      BY Zenon, CommitsPrimed DEF TypeInv
  <2>3. x \in Commits' \ Activated'
      BY Zenon DEF Good, MemoryInv
  <2>4. NewHead(x) = Tip'
      BY Zenon, <2>3 DEF Good, ChainInv, Tip
  <2>5. \A y : GoodResult(y) => y # NoRecord
      BY Zenon, Records DEF GoodResult
  <2>6. Commits' = Commits \cup {x}
      BY <2>1, <2>2, <2>5
  <2>7. Activated \subseteq Activated'
      BY Zenon, <2>6 DEF Activated
  <2> QED BY Zenon, <2>4, <2>6, <2>7
<1> USE <1>8
<1>9. World'
    BY Zenon DEF Safe, GwInv, World
<1>10. SourceFollows'
  <2> SUFFICES ASSUME NEW k \in 1..(Len(Tip') - 1)
               PROVE  SubSeq(Tip', 1, k) \in installed' \cap acked'
      BY Zenon DEF SourceFollows, Tip
  <2>1. x.base \in Seq(Links) /\ Len(Tip') = Len(Tip) + 1 /\ Tip' = Append(Tip, Link(x))
        /\ Tip \in Seq(Links)
      BY Zenon, HeadGrows DEF GoodResult, NewHead
  <2> USE <2>1
  <2>2. k \in 1..Len(Tip) /\ SubSeq(Tip', 1, k) = SubSeq(Tip, 1, k)
      OBVIOUS
  <2> USE <2>2
  <2>3. CASE k < Len(Tip)
    <3>1. k \in 1..(Len(Tip) - 1)
        BY <2>3
    <3>2. \A n \in 1..(Len(Tip) - 1) : SubSeq(Tip, 1, n) \in installed \cap acked
        BY Zenon DEF Safe, GwInv, Stored, SourceFollows, Tip
    <3> QED BY Zenon, <3>1, <3>2
  <2>4. CASE k = Len(Tip)
    <3>1. SubSeq(Tip, 1, k) = Tip /\ Tip # <<>>
        BY <2>4
    <3> QED BY Zenon, <3>1 DEF Safe, GwInv, Stored
  <2> QED BY SMTT(40), <2>3, <2>4
<1>11. Stored'
  <2>1. PendingHasIntent'
    <3>1. gw.id \in intents
        BY Zenon DEF Safe, GwInv, Control
    <3> QED BY Zenon, <3>1 DEF Safe, GwInv, Stored, PendingHasIntent
  <2>2. \A i \in marks' : i \in Ids /\ Shown(i)'
    <3>1. gw.id \notin marks
      <4>1. disk["active"][gw.id] = NoRecord
          BY Zenon, Running
      <4> QED BY Zenon, <4>1 DEF Safe, GwInv, Stored, Shown
    <3> QED BY Zenon, <3>1 DEF Safe, GwInv, Stored, Shown
  <2>3. \A y \in Commits' : y.id \in marks' \/ NewHead(y) = Tip'
      BY Zenon
  <2> QED BY Zenon, <1>10, <2>1, <2>2, <2>3 DEF Safe, GwInv, Stored
<1>12. /\ gw' \in GwSet /\ Fit(gw'.r) /\ gw' # Rest /\ gw'.do = "announce"
       /\ gw'.id = gw.id /\ gw'.r = gw.r /\ gw'.cmd = gw.cmd
    BY Zenon, Moved DEF Doing
<1> USE <1>12
<1>13. GwTypes'
    BY Zenon, KeepTypes DEF Safe, GwInv
<1>14. Control'
  <2>1. op' # Idle /\ op'.do = "activate"
      BY Zenon DEF Idle
  <2>2. Top(gw.id)'
      BY Zenon DEF Top
  <2> QED BY Zenon, <2>1, <2>2 DEF Control, Clear, Safe, GwInv
<1> QED BY Zenon, <1>4, <1>9, <1>11, <1>13, <1>14 DEF GwInv

LEMMA JournalStepSafe ==
    ASSUME Safe, Good', errors = 0, errors' = 0, JournalStep
    PROVE  GwInv'
<1> USE DEF gwVars, gwStore, world, source, renderer, store
<1>1. /\ UNCHANGED <<gw, admitted, saved, intents, marks, acked>>
      /\ UNCHANGED <<registry, visible, replied, installed>>
    BY Zenon DEF JournalStep
<1> USE <1>1
<1>2. /\ op # Idle /\ up' = up /\ up
      /\ \/ op.do = "stage" /\ (StageFragment \/ StageRender)
         \/ op.do = "record" /\ StageRecord
         \/ op.do = "activate" /\ Activate
         \/ op.do = "publish" /\ PublishActive
  <2>1. op # Idle /\ up' = up
      BY DEF JournalStep, StageFragment, StageRender, StageRecord, PublishActive, Activate, Idle
  <2>2. up
      BY Zenon, <2>1 DEF Safe, TypeInv, OpType
  <2> QED BY Zenon, <2>1, <2>2 DEF JournalStep, StageFragment, StageRender, StageRecord, PublishActive,
                            Activate
<1> USE <1>2
<1>3. \/ gw.do = "intent" /\ op.do \in {"stage", "record"}
      \/ gw.do \in {"announce", "show"} /\ op.do \in {"activate", "publish"}
    BY Zenon DEF Safe, GwInv, Control
<1> USE <1>3
<1>4. gw \in GwSet /\ Fit(gw.r) /\ gw # Rest /\ gw.id \in Ids /\ gw.r.id \in Ids
    BY Zenon, Serving DEF Doing, Clear
<1> USE <1>4
<1>5. /\ op \in [do : {"stage", "record", "activate", "publish", "retire"}, id : Ids]
      /\ op.do \in {"activate", "publish"} => mem.pending # NoRecord /\ mem.pending.id \in Ids
  <2>1. \A y \in ResultSet : y.id \in Ids
      BY Zenon DEF ResultSet
  <2> QED BY Zenon, <2>1 DEF Safe, TypeInv, OpType, MemType
<1> USE <1>5
<1>6. CASE op.do \in {"stage", "record"}
  <2> USE <1>6
  <2>1. Steady /\ mem'.pending = mem.pending
    <3>1. CASE StageFragment \/ StageRender
        BY Zenon, <3>1 DEF StageFragment, StageRender, Steady
    <3>2. CASE StageRecord
      <4>1. \A d \in Dirs \ {"staged"} : disk'[d] = disk[d]
          BY Zenon, <3>2 DEF StageRecord, Write, WriteFails, Dirs, Safe, TypeInv, DiskType
      <4>2. mem'.pending = mem.pending
          BY Zenon, <3>2 DEF StageRecord, Safe, TypeInv, MemType
      <4> QED BY Zenon, <4>1, <4>2 DEF Steady, Dirs
    <3> QED BY Zenon, <3>1, <3>2
  <2> USE <2>1
  <2>2. op' = Idle \/ op'.do \in {"stage", "record"}
    <3>1. CASE StageFragment
        BY Zenon, <3>1 DEF StageFragment
    <3>2. CASE StageRender
        BY Zenon, <3>2 DEF StageRender
    <3>3. CASE StageRecord
        BY Zenon, <3>3 DEF StageRecord
    <3> QED BY Zenon, <3>1, <3>2, <3>3
  <2>3. GwTypes' /\ Stored' /\ World' /\ Commits' = Commits /\ Tip' = Tip
      BY Zenon, Stays
  <2>4. Control'
    <3>1. gw'.do = "intent"
        BY Zenon
    <3>2. gw.cmd = "ack" =>
            /\ disk'["active"][gw.r.id] # NoRecord
            /\ NewHead(disk'["active"][gw.r.id]) \in installed
        BY Zenon DEF Safe, GwInv, Control, Steady
    <3> QED BY Zenon, <2>2, <2>3, <3>1, <3>2 DEF Control, Clear, Safe, GwInv
  <2> QED BY Zenon, <2>3, <2>4 DEF GwInv
<1>7. CASE op.do \in {"activate", "publish"}
  <2> USE <1>7
  <2>1. Steady
    <3>1. CASE Activate
        BY Zenon, <3>1 DEF Activate, Steady
    <3>2. CASE PublishActive
        BY <3>2 DEF PublishActive, Write, WriteFails, Steady, Dirs, Safe, TypeInv, DiskType
    <3> QED BY Zenon, <3>1, <3>2
  <2> USE <2>1
  <2>2. (op' = Idle /\ mem'.pending = NoRecord) \/ (op'.do = "publish" /\ op' # Idle)
    <3>1. CASE Activate
      <4>1. op.do = "activate" /\ refusals' = refusals
          BY Zenon, <3>1 DEF JournalStep, Activate, PublishActive, StageFragment, StageRender, StageRecord
      <4>2. op' = [op EXCEPT !.do = "publish"]
          BY <3>1, <4>1 DEF Activate, Safe
      <4> QED BY Zenon, <4>2 DEF Idle
    <3>2. CASE PublishActive
      <4>1. disk["active"][mem.pending.id] # Torn
          BY Zenon DEF Safe, Good, RecordsAgree, Dirs
      <4>2. mem' = [ApplyActive(mem, mem.pending) EXCEPT !.pending = NoRecord] /\ op' = Idle
          BY Zenon, <3>2, <4>1, FailureCounts DEF PublishActive
      <4> QED BY Zenon, <4>2 DEF ApplyActive, Safe, TypeInv, MemType
    <3> QED BY Zenon, <3>1, <3>2
  <2>3. GwTypes' /\ Stored' /\ World' /\ Commits' = Commits /\ Tip' = Tip
        /\ disk'["commits"] = disk["commits"]
      BY Zenon, Stays DEF Steady
  <2> USE <2>3
  <2>4. Control'
    <3>1. gw'.do \in {"announce", "show"}
        BY Zenon
    <3>2. gw.cmd = "ack" =>
            /\ disk'["active"][gw.r.id] # NoRecord
            /\ NewHead(disk'["active"][gw.r.id]) \in installed
        BY Zenon DEF Safe, GwInv, Control, Steady
    <3>3. Top(gw.id)'
        BY Zenon, <3>1 DEF Top, Safe, GwInv, Control
    <3> QED BY Zenon, <2>2, <3>1, <3>2, <3>3 DEF Control, Clear, Safe, GwInv
  <2> QED BY Zenon, <2>4 DEF GwInv
<1> QED BY Zenon, <1>6, <1>7

LEMMA RestartSafe ==
    ASSUME Safe, GwCrash \/ GwOpen
    PROVE  GwInv'
<1> USE DEF gwVars, gwStore, world, source, renderer, store
<1>1. /\ UNCHANGED <<disk, admitted, saved, intents, marks, acked>>
      /\ UNCHANGED <<registry, visible, replied, installed>>
    BY Zenon DEF GwCrash, GwOpen, Crash, Open
<1>2. gw' = Rest /\ op' = Idle
  <2>1. CASE GwCrash
      BY Zenon, <2>1 DEF GwCrash, Crash
  <2>2. CASE GwOpen
    <3>1. gw = Rest /\ UNCHANGED <<gw, op>>
        BY Zenon, <2>2 DEF GwOpen, Open, Safe, GwInv, Control
    <3>2. gw.do = "rest"
        BY Zenon, <3>1 DEF Rest
    <3> QED BY Zenon, <3>1, <3>2 DEF Safe, GwInv, Control
  <2> QED BY Zenon, <2>1, <2>2
<1>3. Steady
    BY Zenon, <1>1 DEF Steady
<1> QED BY Zenon, <1>1, <1>2, <1>3, Returned DEF Return

-----------------------------------------------------------------------------
(* The gateway's steps are steps of its journal, outages aside.            *)
LEMMA GwJournal ==
    ASSUME Safe, GwNext
    PROVE  [JournalNext]_journalVars \/ Quiet
<1> USE DEF store, renderer
<1>1. CASE Commands \/ Deliver \/ Lose \/ Install \/ LoseLease \/ Usurp \/ \E i \in Ids : Expire(i)
    BY Zenon, <1>1 DEF Commands, Submit, Fetch, SendAck, Command, Deliver, Lose, Install, LoseLease, Usurp,
                Expire
<1>2. CASE GwCrash \/ GwOpen \/ JournalStep
    BY Zenon, <1>2 DEF GwCrash, GwOpen, JournalStep, JournalNext, Steps
<1>3. CASE GwRecover
    BY Zenon, <1>3 DEF GwRecover, Quiet, JournalNext, Calls
<1>4. CASE GwReconcile \/ GwRefresh \/ GwAdmit \/ GwEvaluate \/ GwIntent \/ GwAcquire
    BY Zenon, <1>4 DEF GwReconcile, GwRefresh, GwAdmit, GwEvaluate, GwIntent, GwAcquire, Quiet
<1>5. CASE GwAnnounce \/ GwShow \/ GwMark \/ GwReply \/ GwFetch \/ GwAcked
    BY Zenon, <1>5 DEF GwAnnounce, GwShow, GwMark, GwReply, GwFetch, GwAcked, Quiet
<1>6. CASE GwReserve
  <2>1. gw.do \in Doing /\ gw.r.id \in Ids /\ Fit(gw.r)
      BY Zenon, <1>6, Serving DEF GwReserve, At, Doing, Clear
  <2> USE <2>1
  <2>2. Reserve(gw.r) => JournalNext
    <3>1. Reserve(gw.r) => gw.r \in Rounds(mem.head)
        BY Zenon DEF Reserve, Admits, Fit
    <3> QED BY Zenon, <3>1 DEF JournalNext, Calls
  <2>3. Replay(gw.r) => JournalNext
    <3> SUFFICES ASSUME Replay(gw.r) PROVE JournalNext
        BY Zenon
    <3>1. mem.completions[gw.r.id] # NoRecord /\ mem.completions[gw.r.id].round = gw.r
        BY Zenon DEF Replay
    <3>2. gw.r.id \in Having(mem.completions)
      <4>1. mem.completions[gw.r.id] \in ResultSet
          BY Zenon, <3>1 DEF Safe, TypeInv, MemType, Slots
      <4> QED BY Zenon, <4>1, Records DEF Having
    <3> QED BY Zenon, <3>1, <3>2 DEF JournalNext, Calls
  <2> QED BY Zenon, <1>6, <2>2, <2>3 DEF GwReserve
<1>7. CASE GwPrepare
  <2> DEFINE x == saved[gw.id]
  <2>1. gw.do = "prepare" /\ gw.id \in Ids /\ x # NoRecord
      BY Zenon, <1>7, Serving DEF GwPrepare, At, Doing, Clear, Safe, GwInv, Control
  <2>2. x.id \in Ids /\ x \in Results(x.round) /\ Fit(x.round)
      BY Zenon, <2>1 DEF Safe, GwInv, GwTypes, Evaluated
  <2>3. Prepare(x) => JournalNext
    <3> HIDE DEF x
    <3> SUFFICES ASSUME Prepare(x) PROVE JournalNext
        BY Zenon
    <3>1. mem.reservations[x.id] = x.round
        BY Zenon DEF Prepare
    <3>2. x.id \in Having(mem.reservations)
        BY Zenon, <2>2, <3>1, Records DEF Having, Fit
    <3> QED BY Zenon, <2>2, <3>1, <3>2 DEF JournalNext, Calls
  <2> QED BY Zenon, <1>7, <2>3 DEF GwPrepare
<1>8. CASE GwStage \/ GwCommit \/ GwAck
  <2>1. gw.id \in Ids
      BY Zenon, <1>8, Serving DEF GwStage, GwCommit, GwAck, At, Doing, Clear
  <2> QED BY Zenon, <1>8, <2>1 DEF GwStage, GwCommit, GwAck, JournalNext, Calls
<1> QED BY Zenon, <1>1, <1>2, <1>3, <1>4, <1>5, <1>6, <1>7, <1>8 DEF GwNext, GwSteps

LEMMA GwBudget ==
    ASSUME errors \in Nat, refusals \in Nat, [GwNext]_allVars
    PROVE  /\ errors' \in {errors, errors + 1} /\ refusals' \in {refusals, refusals + 1}
<1> USE DEF Write, WriteFails, budget, journalVars, Outage
<1>1. CASE Commands \/ Deliver \/ Lose \/ Install \/ LoseLease \/ Usurp \/ \E i \in Ids : Expire(i)
    BY Zenon, <1>1 DEF Commands, Submit, Fetch, SendAck, Command, Deliver, Lose, Install, LoseLease, Usurp,
                Expire
<1>2. CASE GwCrash \/ GwOpen
    BY Zenon, <1>2 DEF GwCrash, GwOpen, Crash, Open
<1>3. CASE JournalStep
    BY Zenon, <1>3 DEF JournalStep, StageFragment, StageRender, StageRecord, PublishActive, Activate
<1>4. CASE GwRecover \/ GwReconcile \/ GwRefresh \/ GwAdmit
    BY Zenon, <1>4 DEF GwRecover, Recover, GwReconcile, GwRefresh, GwAdmit
<1>5. CASE GwReserve \/ GwEvaluate \/ GwPrepare \/ GwStage \/ GwIntent
    BY Zenon, <1>5 DEF GwReserve, Replay, Reserve, GwEvaluate, GwPrepare, Prepare, GwStage, StageBegin,
                GwIntent
<1>6. CASE GwAcquire \/ GwCommit \/ GwAnnounce \/ GwShow \/ GwMark
    BY Zenon, <1>6 DEF GwAcquire, GwCommit, CommitRound, GwAnnounce, GwShow, GwMark
<1>7. CASE GwReply \/ GwFetch \/ GwAck \/ GwAcked
    BY Zenon, <1>7 DEF GwReply, GwFetch, GwAck, Acknowledge, GwAcked
<1>8. CASE UNCHANGED allVars
    BY Zenon, <1>8 DEF allVars
<1> QED BY Zenon, <1>1, <1>2, <1>3, <1>4, <1>5, <1>6, <1>7, <1>8 DEF GwNext, GwSteps

(* Only the decision adds a link, only the render shows one.               *)
LEMMA OnlyCommitAndShow ==
    ASSUME TypeInv, [GwNext]_allVars, ~GwCommit, ~GwShow
    PROVE  disk'["commits"] = disk["commits"] /\ visible' = visible
<1> USE DEF journalVars, gwVars, gwStore, world, source, store, renderer
<1>1. CASE Commands \/ Deliver \/ Lose \/ Install \/ LoseLease \/ Usurp \/ \E i \in Ids : Expire(i)
    BY Zenon, <1>1 DEF Commands, Submit, Fetch, SendAck, Command, Deliver, Lose, Install, LoseLease, Usurp,
                Expire
<1>2. CASE GwCrash \/ GwOpen
    BY Zenon, <1>2 DEF GwCrash, GwOpen, Crash, Open
<1>3. CASE JournalStep
    BY Zenon, <1>3 DEF JournalStep, StageFragment, StageRender, StageRecord, PublishActive, Activate,
                Write, WriteFails, TypeInv, DiskType, Dirs
<1>4. CASE GwRecover \/ GwReconcile \/ GwRefresh \/ GwAdmit
    BY Zenon, <1>4 DEF GwRecover, Recover, GwReconcile, GwRefresh, GwAdmit
<1>5. CASE GwReserve \/ GwPrepare \/ GwAck
    BY Zenon, <1>5 DEF GwReserve, Replay, Reserve, GwPrepare, Prepare, GwAck, Acknowledge,
                Write, WriteFails, TypeInv, DiskType, Dirs
<1>6. CASE GwEvaluate \/ GwStage \/ GwIntent \/ GwAcquire
    BY Zenon, <1>6 DEF GwEvaluate, GwStage, StageBegin, GwIntent, GwAcquire
<1>7. CASE GwAnnounce \/ GwMark \/ GwReply \/ GwFetch \/ GwAcked
    BY Zenon, <1>7 DEF GwAnnounce, GwMark, GwReply, GwFetch, GwAcked
<1>8. CASE UNCHANGED allVars
    BY Zenon, <1>8 DEF allVars
<1> QED BY Zenon, <1>1, <1>2, <1>3, <1>4, <1>5, <1>6, <1>7, <1>8 DEF GwNext, GwSteps

(* One step, and what it does to the abstract frontier.                    *)
GwStepGood ==
    /\ Safe'
    /\ \/ UNCHANGED <<Tip, visible>>
       \/ visible' = Tip /\ Tip' = Tip
       \/ /\ visible' = visible /\ visible = Tip /\ ~Closed(Tip)
          /\ \E link \in Links : Tip' = Append(Tip, link)

LEMMA GwStep ==
    ASSUME Safe, errors = 0, errors' = 0, refusals' \in Nat, [GwNext]_allVars
    PROVE  GwStepGood
<1>1. CASE UNCHANGED allVars
  <2>1. Safe' /\ UNCHANGED <<Tip, visible>>
    <3>1. UNCHANGED <<disk, mem, op, up>> /\ TypeInv' /\ Good'
          /\ UNCHANGED <<gw, admitted, saved, intents, marks, acked, visible, replied>>
          /\ UNCHANGED <<installed, registry>>
        BY Zenon, <1>1, StepType, ReplayCrashGood DEF allVars, journalVars, gwVars, gwStore, world, source,
           Safe
    <3> USE <3>1
    <3>2. GwInv'
        BY Zenon, Outside
    <3>3. Tip' = Tip
        BY Zenon, SameDecisions DEF Tip
    <3> QED BY Zenon, <3>2, <3>3 DEF Safe
  <2> QED BY Zenon, <2>1 DEF GwStepGood
<1>2. CASE GwNext
  <2> USE <1>2
  <2>1. TypeInv' /\ Good'
    <3>1. CASE [JournalNext]_journalVars
        BY Zenon, <3>1, StepType, StepSound DEF Safe, StepGood
    <3>2. CASE Quiet
      <4>1. TypeInv'
          BY Zenon, <3>2 DEF Quiet, Safe, TypeInv, DiskType, MemType, OpType, Decided
      <4> QED BY Zenon, <3>2, <4>1, ReplayCrashGood DEF Quiet, Safe
    <3> QED BY Zenon, <3>1, <3>2, GwJournal
  <2> USE <2>1
  <2>2. GwInv'
    <3>1. CASE Deliver \/ Lose \/ Install \/ LoseLease \/ Usurp \/ \E i \in Ids : Expire(i)
      <4>1. /\ UNCHANGED <<disk, mem, op, up>>
            /\ UNCHANGED <<gw, admitted, saved, intents, marks, acked, visible, replied>>
            /\ installed \subseteq installed' /\ registry' \in {registry, Foreign}
          BY Zenon, <3>1 DEF Deliver, Lose, Install, LoseLease, Usurp, Expire, journalVars, gwStore, world,
                      source
      <4> QED BY Zenon, <4>1, Outside
    <3>2. CASE GwSteps
        BY Zenon, <3>2, RecoverSafe, ReconcileSafe, RefreshSafe, AdmitSafe, ReserveSafe, EvaluateSafe, PrepareSafe, StageSafe, CommitSafe, AnnounceSafe, ShowSafe, MarkSafe, AnswerSafe, AckSafe, JournalStepSafe DEF GwSteps
    <3> QED BY Zenon, <3>1, <3>2, CommandsSafe, RestartSafe DEF GwNext
  <2>3. Safe'
      BY Zenon, <2>2 DEF Safe
  <2> USE <2>3
  <2>4. CASE GwCommit
      BY Zenon, <2>4, CommitSafe DEF GwStepGood
  <2>5. CASE GwShow
    <3>1. disk' = disk
        BY Zenon, <2>5 DEF GwShow, journalVars, store
    <3>2. Tip' = Tip
        BY Zenon, <3>1, SameDecisions DEF Tip
    <3> QED BY Zenon, <2>5, <3>2, ShowCatchesUp DEF GwStepGood
  <2>6. CASE ~GwCommit /\ ~GwShow
    <3>1. disk'["commits"] = disk["commits"] /\ visible' = visible
        BY Zenon, <2>6, OnlyCommitAndShow DEF Safe
    <3>2. Tip' = Tip
        BY Zenon, <3>1 DEF Tip, Commits
    <3> QED BY Zenon, <3>1, <3>2 DEF GwStepGood
  <2> QED BY Zenon, <2>4, <2>5, <2>6
<1> QED BY Zenon, <1>1, <1>2

GwSound == errors \in Nat /\ refusals \in Nat /\ (errors = 0 => Safe)

LEMMA GwInitSound == GwInit => GwSound
<1> SUFFICES ASSUME GwInit PROVE GwSound
    BY Zenon
<1>1. JournalInit /\ errors = 0 /\ refusals = 0 /\ gw = Rest /\ op = Idle
    BY Zenon DEF GwInit, JournalInit
<1> USE <1>1
<1>2. TypeInv /\ Good
    BY Zenon, InitType, InitSound DEF Sound
<1>3. Commits = {} /\ Tip = <<>> /\ \A d \in Dirs : disk[d] = Blank
    BY Zenon DEF JournalInit, Commits, Having, Longest, Tip, Blank, Dirs
<1> USE <1>3
<1>4. GwTypes
    BY Zenon DEF GwInit, GwTypes, Blank
<1>5. SourceFollows
    BY DEF SourceFollows, Tip
<1>6. Stored
    BY Zenon, <1>5 DEF GwInit, Stored, PendingHasIntent, Blank, Dirs
<1>7. World
    BY Zenon DEF GwInit, World
<1>8. Control
    BY Zenon DEF Control, Rest, Clear
<1> QED BY Zenon, <1>2, <1>4, <1>6, <1>7, <1>8 DEF GwSound, Safe, GwInv

LEMMA GwSoundStep == GwSound /\ [GwNext]_allVars => GwSound'
    BY GwBudget, GwStep DEF GwSound, GwStepGood

LEMMA SafeReplies == Safe => RepliesFollow
<1> SUFFICES ASSUME Safe PROVE ReplyIsVisible /\ SourceFollows
    BY Zenon DEF RepliesFollow
<1>1. SourceFollows /\ \A x \in replied : Shows(visible, Link(x)) /\ x \in Activated
    BY Zenon DEF Safe, GwInv, Stored, World
<1>2. Tip \in Seq(Links)
    BY Zenon, ChainHead, CommitsType DEF Safe, TypeInv, Good, ChainInv, Tip
<1>3. ASSUME registry # Foreign PROVE \E n \in 0..Len(registry) : visible = SubSeq(registry, 1, n)
  <2>1. CASE visible = Tip
    <3>1. registry = Tip /\ SubSeq(Tip, 1, Len(Tip)) = Tip /\ Len(Tip) \in 0..Len(Tip)
        BY <1>2, <1>3, <2>1 DEF Safe, GwInv, World
    <3> QED BY Zenon, <2>1, <3>1
  <2>2. ASSUME NEW x \in Commits, NewHead(x) = Tip, visible = x.base
        PROVE  \E n \in 0..Len(registry) : visible = SubSeq(registry, 1, n)
    <3> USE <2>2
    <3>1. /\ x.base \in Seq(Links) /\ Len(Tip) = Len(x.base) + 1
          /\ SubSeq(Tip, 1, Len(x.base)) = x.base
        BY Zenon, HeadGrows, CommitsType DEF Safe, TypeInv
    <3>2. registry \in {x.base, Tip}
        BY Zenon, <1>3 DEF Safe, GwInv, World
    <3>3. SubSeq(x.base, 1, Len(x.base)) = x.base /\ Len(x.base) \in 0..Len(registry)
        BY <3>1, <3>2
    <3> QED BY Zenon, <3>1, <3>2, <3>3
  <2> QED BY Zenon, <2>1, <2>2 DEF Safe, GwInv, World
<1> QED BY Zenon, <1>1, <1>3 DEF ReplyIsVisible

(* drive_round, committed_frames and source_ack: as long as no write has   *)
(* failed, every reply is of a round that is decided, activated and shown, *)
(* the renderer shows no link before the registry has its head, and no     *)
(* round is decided before the source has installed and acknowledged the   *)
(* head it builds on, whatever crashes, outages, lost frames, expired      *)
(* rounds and other terms come in between.                                 *)
THEOREM RepliesAreDecided == GwSpec => [](errors = 0 => RepliesFollow)
<1>1. GwSound => (errors = 0 => RepliesFollow)
    BY Zenon, SafeReplies DEF GwSound
<1> QED BY <1>1, GwInitSound, GwSoundStep, PTL DEF GwSpec

(* The same in the terms of CarriedFrontier: the gateway decides one link  *)
(* at a time, on top of a link its renderer already shows, and shows each  *)
(* link once, although the journal's activation is deferred and a restart  *)
(* may find a link decided, announced and not shown.                       *)
THEOREM GwFrontierRefined == GwSpec /\ [](errors = 0) => GwImplementsFrontier
<1>1. GwInit => GwFrontier!AbsInit
  <2> SUFFICES ASSUME GwInit PROVE Longest(Commits) = <<>> /\ visible = <<>>
      BY Zenon DEF GwFrontier!AbsInit
  <2>1. Commits = {}
      BY Zenon DEF GwInit, JournalInit, Commits, Having, Blank, Dirs
  <2> QED BY Zenon, <2>1 DEF GwInit, Longest
<1>2. GwSound /\ errors = 0 /\ (GwSound /\ errors = 0)' /\ [GwNext]_allVars
      => [GwFrontier!AbsNext]_(GwFrontier!absVars)
  <2> SUFFICES ASSUME GwSound, errors = 0, (GwSound /\ errors = 0)', [GwNext]_allVars
               PROVE  [GwFrontier!AbsNext]_(GwFrontier!absVars)
      BY Zenon
  <2>1. GwStepGood
      BY Zenon, GwStep DEF GwSound
  <2>2. CASE UNCHANGED <<Tip, visible>>
      BY Zenon, <2>2 DEF GwFrontier!absVars, Tip
  <2>3. CASE visible' = Tip /\ Tip' = Tip
    <3>1. visible # Tip => GwFrontier!Show
        BY Zenon, <2>3 DEF GwFrontier!Show, Tip
    <3> QED BY Zenon, <2>2, <2>3, <3>1 DEF GwFrontier!AbsNext
  <2>4. CASE /\ visible' = visible /\ visible = Tip /\ ~Closed(Tip)
             /\ \E link \in Links : Tip' = Append(Tip, link)
    <3>1. Tip \in Seq(Links)
        BY Zenon, ChainHead, CommitsType DEF GwSound, Safe, TypeInv, Good, ChainInv, Tip
    <3>2. Len(Tip') = Len(Tip) + 1
        BY <2>4, <3>1
    <3>3. GwFrontier!Decide
        BY Zenon, <2>4, <3>2 DEF GwFrontier!Decide, GwFrontier!IsClosed, Closed, Tip
    <3> QED BY Zenon, <3>3 DEF GwFrontier!AbsNext
  <2> QED BY Zenon, <2>1, <2>2, <2>3, <2>4 DEF GwStepGood
<1> QED BY <1>1, <1>2, GwInitSound, GwSoundStep, PTL
        DEF GwSpec, GwImplementsFrontier, GwFrontier!AbsSpec
=============================================================================
