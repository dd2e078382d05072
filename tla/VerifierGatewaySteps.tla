------------------------ MODULE VerifierGatewaySteps ------------------------
(***************************************************************************)
(* VerifierGateway for every set of request ids and fragments and every    *)
(* bound: a latched failure is final.  Then the invariant GwInv, which     *)
(* says what the command in progress may rely on while no write fails, and *)
(* that the steps of a command up to the announcement keep it.             *)
(***************************************************************************)
EXTENDS VerifierGateway, VerifierJournalTypes

(* A latched failure leaves no command behind.                             *)
FailedRests == failed => gw = Rest /\ op = Idle

(* A step of a command that sets the latch ends the command.               *)
LEMMA FailedEnds ==
    ASSUME ~failed, GwSteps, ~JournalStep
    PROVE  failed' => gw' = Rest /\ op' = Idle
<1> USE DEF gwStore, journalVars
<1>1. CASE GwRecover
  <2>1. CASE failed' = failed
      BY Zenon, <2>1
  <2>2. CASE UNCHANGED journalVars /\ Return
      BY Zenon, <1>1, <2>2 DEF GwRecover, At, Return
  <2> QED BY Zenon, <1>1, <2>1, <2>2 DEF GwRecover
<1>2. CASE GwReconcile
  <2>1. CASE failed' = failed
      BY Zenon, <2>1
  <2>2. CASE UNCHANGED journalVars /\ Return
      BY Zenon, <1>2, <2>2 DEF GwReconcile, At, Return
  <2> QED BY Zenon, <1>2, <2>1, <2>2 DEF GwReconcile
<1>3. CASE GwRefresh
    BY Zenon, <1>3 DEF GwRefresh, At, Return
<1>4. CASE GwEvaluate
  <2>1. CASE failed' = failed
      BY Zenon, <2>1
  <2>2. CASE Return /\ op' = op
      BY Zenon, <1>4, <2>2 DEF GwEvaluate, At, Return
  <2> QED BY Zenon, <1>4, <2>1, <2>2 DEF GwEvaluate
<1>5. CASE GwAcquire
  <2>1. CASE failed' = failed
      BY Zenon, <2>1
  <2>2. CASE UNCHANGED journalVars /\ Return
      BY Zenon, <1>5, <2>2 DEF GwAcquire, At, Return
  <2> QED BY Zenon, <1>5, <2>1, <2>2 DEF GwAcquire
<1>6. CASE failed' = failed
    BY Zenon, <1>6
<1>7. GwAdmit \/ GwReserve \/ GwPrepare \/ GwStage \/ GwIntent \/ GwCommit => failed' = failed
    BY Zenon DEF GwAdmit, GwReserve, GwPrepare, GwStage, GwIntent, GwCommit
<1>8. GwAnnounce \/ GwShow \/ GwMark \/ GwReply \/ GwFetch \/ GwAck \/ GwAcked => failed' = failed
    BY Zenon DEF GwAnnounce, GwShow, GwMark, GwReply, GwFetch, GwAck, GwAcked
<1> QED BY Zenon, <1>1, <1>2, <1>3, <1>4, <1>5, <1>6, <1>7, <1>8 DEF GwSteps

LEMMA RestIsNoStep ==
    ASSUME gw = Rest, GwSteps
    PROVE  JournalStep
<1>1. \A step \in {"recover", "reconcile", "refresh", "submit", "reserve", "evaluate", "prepare",
                   "stage", "intent", "acquire", "commit", "announce", "show", "mark", "reply",
                   "fetch", "ack", "acked"} : ~At(step)
    BY Zenon DEF At, Rest
<1> USE <1>1
<1>2. ~GwRecover /\ ~GwReconcile /\ ~GwRefresh
    BY Zenon DEF GwRecover, GwReconcile, GwRefresh
<1>3. ~GwAdmit /\ ~GwReserve /\ ~GwEvaluate /\ ~GwPrepare /\ ~GwStage /\ ~GwIntent
    BY Zenon DEF GwAdmit, GwReserve, GwEvaluate, GwPrepare, GwStage, GwIntent
<1>4. ~GwAcquire /\ ~GwCommit /\ ~GwAnnounce /\ ~GwShow /\ ~GwMark
    BY Zenon DEF GwAcquire, GwCommit, GwAnnounce, GwShow, GwMark
<1>5. ~GwReply /\ ~GwFetch /\ ~GwAck /\ ~GwAcked
    BY Zenon DEF GwReply, GwFetch, GwAck, GwAcked
<1> QED BY Zenon, <1>2, <1>3, <1>4, <1>5 DEF GwSteps

LEMMA FailedStep ==
    ASSUME FailedRests, GwNext
    PROVE  /\ FailedRests'
           /\ failed => failed' /\ UNCHANGED <<disk["commits"], visible, replied>>
<1> USE DEF FailedRests, gwStore, world, source, gwVars, journalVars, store
<1>1. CASE Commands
    BY <1>1 DEF Commands, Submit, Fetch, SendAck, Command
<1>2. CASE GwSteps /\ ~JournalStep
    BY Zenon, <1>2, FailedEnds, RestIsNoStep
<1>3. CASE JournalStep
  <2>1. op # Idle
      BY <1>3 DEF JournalStep, StageFragment, StageRender, StageRecord, PublishActive, Activate,
                  Idle
  <2> QED BY Zenon, <1>3, <2>1 DEF JournalStep
<1>4. CASE Deliver \/ Lose \/ Install
    BY <1>4 DEF Deliver, Lose, Install
<1>5. CASE GwCrash \/ GwOpen
    BY <1>5 DEF GwCrash, GwOpen, Crash, Open
<1>6. CASE LoseLease \/ Usurp \/ \E i \in Ids : Expire(i)
    BY <1>6 DEF LoseLease, Usurp, Expire
<1> QED BY Zenon, <1>1, <1>2, <1>3, <1>4, <1>5, <1>6 DEF GwNext, GwSteps

(* refresh_session_failure and latch_session_failure: once a session has   *)
(* failed no command decides, shows or answers anything more, whatever     *)
(* crashes, late rounds and other terms come after.                        *)
THEOREM FailureLatched == GwSpec => FailureIsFinal
<1>1. GwInit => FailedRests
    BY Zenon DEF GwInit, JournalInit, FailedRests
<1>2. FailedRests /\ [GwNext]_allVars => FailedRests'
    BY Zenon, FailedStep DEF FailedRests, allVars, gwVars, gwStore, journalVars
<1>3. FailedRests /\ [GwNext]_allVars
        => [failed => failed' /\ UNCHANGED <<disk["commits"], visible, replied>>]_allVars
    BY Zenon, FailedStep
<1> QED BY <1>1, <1>2, <1>3, PTL DEF GwSpec, FailureIsFinal

-----------------------------------------------------------------------------
(* What holds as long as no write has failed.                              *)
Tip == Longest(Commits)

(* The commit of this id is the last one.                                  *)
Top(i) == disk["commits"][i] \in Commits /\ NewHead(disk["commits"][i]) = Tip

(* Its activation is on disk and the renderer shows its link.              *)
Shown(i) == disk["active"][i] # NoRecord /\ Shows(visible, Link(disk["commits"][i]))

(* The steps of a command that has found nothing left to finish.           *)
Clear == {"refresh", "submit", "reserve", "evaluate", "prepare", "stage", "intent", "acquire",
          "commit", "fetch", "ack", "acked"}
Doing == {"recover", "reconcile", "announce", "show", "mark", "reply"} \cup Clear
GwSet == [do : Doing, cmd : {"submit", "fetch", "ack"}, r : RoundSet, id : Ids,
          then : {"reply", "reconcile"}]

Evaluated(i, x) == x.id = i /\ Fit(x.round) /\ x \in Results(x.round)

GwTypes ==
    /\ gw = Rest \/ (gw \in GwSet /\ Fit(gw.r))
    /\ admitted \in [Ids -> RoundSet \cup {NoRecord}]
    /\ \A i \in Ids : admitted[i] # NoRecord => Fit(admitted[i])
    /\ saved \in [Ids -> ResultSet \cup {NoRecord}]
    /\ \A i \in Ids : saved[i] # NoRecord => Evaluated(i, saved[i])

(* What the gateway's store says of the journal's records, and what of the *)
(* decided chain is marked, acknowledged and installed.                    *)
Stored ==
    /\ disk["tombstones"] = Blank
    /\ \A i \in Ids : disk["prepared"][i] # NoRecord => saved[i] = disk["prepared"][i]
    /\ \A i \in Ids : disk["reservations"][i] # NoRecord =>
          disk["reservations"][i].base \in {<<>>} \cup acked
    /\ PendingHasIntent /\ intents \subseteq Ids
    /\ \A i \in marks : i \in Ids /\ Shown(i)
    /\ \A x \in Commits : x.id \in marks \/ NewHead(x) = Tip
    /\ acked \subseteq installed
    /\ SourceFollows

(* The renderer is at most one link behind, the registry never behind it.  *)
World ==
    /\ visible = Tip \/ \E x \in Commits : NewHead(x) = Tip /\ visible = x.base
    /\ registry \in {Foreign, visible, Tip}
    /\ \A x \in replied : x \in Activated /\ Shows(visible, Link(x))

(* What a command has established at each of its steps.                    *)
Control ==
    /\ ~up => gw = Rest
    /\ \/ op = Idle
       \/ gw.do = "intent" /\ op.do \in {"stage", "record"}
       \/ gw.do \in {"announce", "show"} /\ op.do \in {"activate", "publish"}
    /\ gw.do \in {"announce", "show"} => Top(gw.id) /\ (op = Idle => mem.pending = NoRecord)
    /\ gw.do \in {"reconcile", "mark", "reply"} \cup Clear => mem.pending = NoRecord
    /\ gw.do \in Clear => \A x \in Commits : x.id \in marks
    /\ gw.do \in Clear \ {"refresh"} => gw.id = gw.r.id
    /\ gw.do \in {"mark", "reply"} => Shown(gw.id)
    /\ gw.do = "show" => registry \in {Foreign, Tip}
    /\ gw.do \in {"acquire", "commit"} => gw.id \in intents
    /\ gw.do = "reserve" => SourceCaughtUp(gw.r)
    /\ gw.do = "prepare" => saved[gw.id] # NoRecord
    /\ gw.do \in {"ack", "acked"} => gw.cmd = "ack"
    /\ gw # Rest /\ gw.cmd = "ack" =>
          disk["active"][gw.r.id] # NoRecord /\ NewHead(disk["active"][gw.r.id]) \in installed

GwInv == GwTypes /\ Stored /\ World /\ Control

(* The links of a chain differ.                                            *)
LEMMA LastIsNew ==
    ASSUME TypeInv, Good, NEW x \in Commits, NewHead(x) = Tip
    PROVE  ~Shows(x.base, Link(x))
<1> SUFFICES ASSUME NEW k \in DOMAIN x.base, x.base[k] = Link(x)
             PROVE  FALSE
    BY Zenon DEF Shows
<1>1. Commits \in SUBSET ResultSet /\ \A y, z \in Commits : y.id = z.id => y = z
    BY CommitsType DEF TypeInv
<1> USE <1>1
<1>2. PICK last \in Commits :
          /\ Tip = NewHead(last)
          /\ \A y \in Commits : NewHead(y) = SubSeq(NewHead(last), 1, Len(y.base) + 1)
          /\ \A n \in 0..Len(last.base) : \E y \in Commits : Len(y.base) = n
    BY Zenon, ChainTop DEF Good, ChainInv, Tip
<1> USE <1>2
<1>3. last = x /\ x \in ResultSet
    BY Zenon, SameHead
<1> USE <1>3
<1>4. x.base \in Seq(Links) /\ k \in 1..Len(x.base) /\ NewHead(x)[k] = x.base[k]
    BY HeadGrows DEF NewHead
<1> USE <1>4
<1>5. PICK y \in Commits : Len(y.base) = k - 1
    OBVIOUS
<1> USE <1>5
<1>6. NewHead(y) = SubSeq(NewHead(x), 1, k) /\ y \in ResultSet
    OBVIOUS
<1> USE <1>6
<1>7. Link(y) = Link(x)
  <2>1. NewHead(y)[k] = Link(y)
      BY HeadGrows
  <2>2. SubSeq(NewHead(x), 1, k)[k] = NewHead(x)[k]
      BY HeadGrows
  <2> QED BY Zenon, <2>1, <2>2
<1>8. y.id = x.id
    BY SMTT(60), <1>7, HeadGrows
<1> QED BY <1>8

(* A commit is a link of the decided chain.                                *)
LEMMA InChain ==
    ASSUME TypeInv, Good, NEW x \in Commits
    PROVE  Shows(Tip, Link(x)) /\ Tip \in Seq(Links)
<1>1. Commits \in SUBSET ResultSet
    BY Zenon, CommitsType DEF TypeInv
<1>2. PICK last \in Commits :
          /\ Tip = NewHead(last) /\ Len(x.base) <= Len(last.base)
          /\ NewHead(x) = SubSeq(NewHead(last), 1, Len(x.base) + 1)
    BY Zenon, <1>1, ChainTop DEF Good, ChainInv, Tip
<1> USE <1>2
<1>3. /\ x.base \in Seq(Links) /\ last.base \in Seq(Links)
      /\ NewHead(x)[Len(x.base) + 1] = Link(x)
      /\ Tip \in Seq(Links) /\ Len(Tip) = Len(last.base) + 1
    BY Zenon, <1>1, HeadGrows
<1> USE <1>3
<1>4. Len(x.base) + 1 \in 1..Len(Tip)
    OBVIOUS
<1>5. SubSeq(Tip, 1, Len(x.base) + 1)[Len(x.base) + 1] = Tip[Len(x.base) + 1]
    BY <1>4
<1>6. Tip[Len(x.base) + 1] = Link(x)
    BY Zenon, <1>5
<1> QED BY <1>4, <1>6 DEF Shows

(* Once the last commit is shown nothing is left to show.                  *)
LEMMA AllShown ==
    ASSUME TypeInv, Good, World, NEW x \in Commits, NewHead(x) = Tip,
           Shows(visible, Link(x))
    PROVE  visible = Tip
<1>1. ASSUME NEW y \in Commits, NewHead(y) = Tip, visible = y.base PROVE FALSE
  <2>1. y = x
      BY <1>1, SameHead, CommitsType DEF TypeInv
  <2> QED BY Zenon, <1>1, <2>1, LastIsNew
<1> QED BY Zenon, <1>1 DEF World

LEMMA ClearShows ==
    ASSUME TypeInv, Good, Stored, World, \A x \in Commits : x.id \in marks
    PROVE  visible = Tip
<1>1. ASSUME NEW x \in Commits, NewHead(x) = Tip PROVE visible = Tip
  <2>1. Shown(x.id) /\ disk["commits"][x.id] = x
      BY Zenon, CommitsType DEF TypeInv, Stored, Commits, Having
  <2> QED BY Zenon, <1>1, <2>1, AllShown DEF Shown
<1> QED BY Zenon, <1>1 DEF World

-----------------------------------------------------------------------------
Safe == TypeInv /\ Good /\ GwInv /\ refusals \in Nat

(* The decided chain stays, activations stay.                              *)
Steady ==
    /\ \A d \in {"tombstones", "prepared", "reservations", "commits"} : disk'[d] = disk[d]
    /\ \A i \in Ids : disk["active"][i] # NoRecord => disk'["active"][i] = disk["active"][i]

(* The journal and an outage aside, nothing happens to the records.        *)
Quiet == UNCHANGED <<disk, cas, mem, op, up, rendered, seen, told, crashes, errors>>

LEMMA SteadyChain ==
    ASSUME TypeInv, Steady
    PROVE  /\ Commits' = Commits /\ Tip' = Tip /\ Activated \subseteq Activated'
           /\ disk'["commits"] = disk["commits"]
<1>1. disk'["commits"] = disk["commits"]
    BY Zenon DEF Steady
<1>2. Commits' = Commits
    BY Zenon, <1>1 DEF Commits
<1> USE <1>2
<1>3. Tip' = Tip
    BY Zenon DEF Tip
<1>4. ASSUME NEW x \in Activated PROVE x \in Activated'
  <2>1. x \in Commits /\ x.id \in Ids /\ disk["active"][x.id] = x /\ x # NoRecord
      BY Zenon, CommitsType, Records DEF TypeInv, Activated
  <2> QED BY Zenon, <2>1 DEF Activated, Steady
<1> QED BY Zenon, <1>1, <1>3, <1>4

LEMMA KeepStored ==
    ASSUME TypeInv, Stored, Steady, UNCHANGED <<saved, acked, marks>>,
           intents \subseteq intents', intents' \subseteq intents \cup Ids,
           installed \subseteq installed',
           \A link : Shows(visible, link) => Shows(visible', link)
    PROVE  Stored'
<1>1. Commits' = Commits /\ Tip' = Tip /\ disk'["commits"] = disk["commits"]
    BY Zenon, SteadyChain
<1> USE <1>1
<1>2. PendingHasIntent' /\ intents' \subseteq Ids
    BY Zenon DEF Stored, PendingHasIntent
<1>3. SourceFollows'
    BY Zenon DEF Stored, SourceFollows, Tip
<1>4. \A i \in marks' : i \in Ids /\ Shown(i)'
    BY Zenon DEF Stored, Shown, Steady
<1>5. \A x \in Commits' : x.id \in marks' \/ NewHead(x) = Tip'
    BY Zenon DEF Stored
<1>6. /\ disk'["tombstones"] = Blank
      /\ \A i \in Ids : disk'["prepared"][i] # NoRecord => saved'[i] = disk'["prepared"][i]
      /\ \A i \in Ids : disk'["reservations"][i] # NoRecord =>
            disk'["reservations"][i].base \in {<<>>} \cup acked'
    BY Zenon DEF Stored, Steady
<1> QED BY Zenon, <1>2, <1>3, <1>4, <1>5, <1>6 DEF Stored

LEMMA KeepWorld ==
    ASSUME TypeInv, World, Steady, UNCHANGED <<visible, replied>>,
           registry' \in {registry, Foreign, Tip}
    PROVE  World'
<1>1. Commits' = Commits /\ Tip' = Tip /\ Activated \subseteq Activated'
    BY Zenon, SteadyChain
<1> QED BY Zenon, <1>1 DEF World

LEMMA KeepTypes ==
    ASSUME GwTypes, UNCHANGED <<admitted, saved>>, gw' = Rest \/ (gw' \in GwSet /\ Fit(gw'.r))
    PROVE  GwTypes'
    BY Zenon DEF GwTypes

LEMMA RestControl ==
    ASSUME gw' = Rest, op' = Idle
    PROVE  Control'
<1>1. gw'.do = "rest"
    BY Zenon DEF Rest
<1> QED BY Zenon, <1>1 DEF Control, Clear

(* A command that ends with nothing done.                                  *)
LEMMA Returned ==
    ASSUME Safe, Steady, Return, op' = Idle,
           UNCHANGED <<admitted, saved, intents, marks, acked, registry, visible, replied, installed>>
    PROVE  GwInv'
<1>1. GwTypes' /\ Control'
    BY Zenon, KeepTypes, RestControl DEF Safe, GwInv, Return
<1>2. Stored' /\ World'
    BY Zenon, KeepStored, KeepWorld DEF Safe, GwInv
<1> QED BY Zenon, <1>1, <1>2 DEF GwInv

(* Whatever happens outside the gateway.                                   *)
LEMMA Outside ==
    ASSUME Safe, UNCHANGED <<disk, mem, op, up>>,
           UNCHANGED <<gw, admitted, saved, intents, marks, acked, visible, replied>>,
           installed \subseteq installed', registry' \in {registry, Foreign}
    PROVE  GwInv'
<1>1. Steady
    BY Zenon DEF Steady
<1>2. GwTypes'
    BY Zenon, KeepTypes DEF Safe, GwInv, GwTypes
<1>3. Stored' /\ World'
    BY Zenon, <1>1, KeepStored, KeepWorld DEF Safe, GwInv
<1>4. Commits' = Commits /\ Tip' = Tip
    BY Zenon, <1>1, SteadyChain DEF Safe
<1>5. Control'
  <2>1. Control
      BY Zenon DEF Safe, GwInv
  <2> QED BY <1>4, <2>1 DEF Control, Top, Shown, SourceCaughtUp, Children
<1> QED BY Zenon, <1>2, <1>3, <1>5 DEF GwInv

(* What the running gateway may rely on.                                   *)
LEMMA Running ==
    ASSUME Safe, up
    PROVE  /\ mem.head = Longest(Activated) /\ mem.head \in Seq(Links)
           /\ mem.pending = NoRecord => Activated = Commits /\ mem.head = Tip
           /\ mem.pending # NoRecord => mem.pending \in Commits /\ NewHead(mem.pending) = Tip
           /\ \A i \in Ids :
                 /\ mem.completions[i] = disk["active"][i]
                 /\ disk["active"][i] # NoRecord =>
                       disk["active"][i] = disk["commits"][i] /\ disk["commits"][i] \in Activated
                 /\ mem.prepared[i] # NoRecord => mem.prepared[i] = disk["prepared"][i]
                 /\ mem.reservations[i] # NoRecord => mem.reservations[i] = disk["reservations"][i]
<1> USE DEF Safe, Good
<1>1. \A i \in Ids : Live(i)
    BY Zenon DEF GwInv, Stored, Live, Blank
<1>2. \A i \in Ids : disk["active"][i] # NoRecord =>
          disk["active"][i] = disk["commits"][i] /\ disk["commits"][i] \in Activated
  <2> SUFFICES ASSUME NEW i \in Ids, disk["active"][i] # NoRecord
               PROVE  disk["active"][i] = disk["commits"][i] /\ disk["commits"][i] \in Activated
      BY Zenon
  <2>1. disk["active"][i] = disk["commits"][i] /\ disk["commits"][i] # Torn
      BY Zenon DEF RecordsAgree, Dirs
  <2>2. disk["commits"][i].id = i /\ GoodResult(disk["commits"][i])
      BY Zenon, <2>1 DEF TypeInv, DiskType, RecordOK, Dirs
  <2>3. disk["commits"][i] \in Commits
      BY Zenon, <2>2, CommitsType DEF TypeInv
  <2> QED BY Zenon, <2>1, <2>2, <2>3 DEF Activated
<1>3. mem.pending \in Commits \ Activated => mem.pending # NoRecord
    BY Zenon, CommitsType, Records DEF TypeInv
<1>4. \A x \in Commits \ Activated : NewHead(x) = Tip
    BY Zenon DEF ChainInv, Tip
<1>5. mem.head \in Seq(Links)
    BY Zenon DEF TypeInv, MemType
<1> QED BY Zenon, <1>1, <1>2, <1>3, <1>4, <1>5 DEF MemoryInv, Tip

LEMMA Serving ==
    ASSUME Safe, gw.do \in Doing
    PROVE  /\ gw \in GwSet /\ Fit(gw.r) /\ gw.id \in Ids /\ gw.r.id \in Ids /\ gw # Rest
           /\ gw.cmd \in {"submit", "fetch", "ack"} /\ gw.then \in {"reply", "reconcile"}
<1>1. gw \in GwSet /\ Fit(gw.r) /\ gw # Rest
    BY DEF Safe, GwInv, GwTypes, Rest, Doing, Clear
<1>2. gw.r.id \in Ids
    BY Zenon, <1>1 DEF Fit, RoundSet
<1> QED BY Zenon, <1>1, <1>2 DEF GwSet

LEMMA Moved ==
    ASSUME gw \in GwSet, Fit(gw.r), NEW s \in Doing, Go(s)
    PROVE  /\ gw' \in GwSet /\ Fit(gw'.r) /\ gw' # Rest /\ gw'.do = s
           /\ gw'.id = gw.id /\ gw'.r = gw.r /\ gw'.cmd = gw.cmd /\ gw'.then = gw.then
<1>1. /\ gw' \in GwSet /\ gw'.do = s
      /\ gw'.id = gw.id /\ gw'.r = gw.r /\ gw'.cmd = gw.cmd /\ gw'.then = gw.then
    BY Zenon DEF Go, GwSet
<1> QED BY <1>1 DEF Rest, Doing, Clear

(* What a step keeps that only moves on in the command.                    *)
LEMMA Stays ==
    ASSUME Safe, Steady, gw' \in GwSet, Fit(gw'.r), UNCHANGED <<admitted, saved>>,
           UNCHANGED <<marks, acked, visible, replied, installed>>,
           intents \subseteq intents', intents' \subseteq intents \cup Ids,
           registry' \in {registry, Foreign, Tip}
    PROVE  GwTypes' /\ Stored' /\ World' /\ Commits' = Commits /\ Tip' = Tip
<1>1. GwTypes'
    BY Zenon, KeepTypes DEF Safe, GwInv
<1>2. Stored' /\ World'
    BY Zenon, KeepStored, KeepWorld DEF Safe, GwInv
<1> QED BY Zenon, <1>1, <1>2, SteadyChain DEF Safe

LEMMA CommandSafe ==
    ASSUME Safe, NEW cmd \in {"submit", "fetch", "ack"}, NEW r, Fit(r), Command(cmd, r),
           cmd = "ack" => /\ disk["active"][r.id] # NoRecord
                          /\ NewHead(disk["active"][r.id]) \in installed
    PROVE  GwInv'
<1>1. /\ gw' = [do |-> "recover", cmd |-> cmd, r |-> r, id |-> r.id, then |-> "reply"]
      /\ UNCHANGED <<disk, mem, op, up>> /\ op = Idle /\ up
      /\ UNCHANGED <<admitted, saved, intents, marks, acked, registry, visible, replied, installed>>
    BY Zenon DEF Command, journalVars, gwStore, world, source
<1> USE <1>1
<1>2. gw' \in GwSet /\ Fit(gw'.r)
    BY Zenon DEF GwSet, Doing, Fit, RoundSet
<1>3. GwTypes' /\ Stored' /\ World'
    BY Zenon, <1>2, Stays DEF Steady
<1>4. Control'
    BY Zenon DEF Control, Clear
<1> QED BY Zenon, <1>3, <1>4 DEF GwInv

LEMMA CommandsSafe ==
    ASSUME Safe, Commands
    PROVE  GwInv'
<1>1. ASSUME NEW x \in replied
      PROVE  /\ Fit(x.round) /\ x.round.id = x.id /\ x.id \in Ids
             /\ disk["active"][x.id] = x /\ x # NoRecord
  <2>1. x \in Activated /\ x \in Commits
      BY Zenon DEF Safe, GwInv, World, Activated
  <2> USE <2>1
  <2>2. GoodResult(x) /\ x.id \in Ids /\ x # NoRecord
      BY Zenon, CommitsType, Records DEF Safe, TypeInv
  <2>3. saved[x.id] = x
      BY Zenon DEF Safe, GwInv, Stored, PendingHasIntent
  <2> QED BY Zenon, <2>2, <2>3 DEF Safe, GwInv, GwTypes, Evaluated, GoodResult, Activated
<1>2. CASE Submit
  <2>1. ASSUME NEW r \in Rounds(mem.head) PROVE Fit(r)
      BY Zenon DEF Fit, Rounds, RoundSet, Intents, Safe, TypeInv, MemType
  <2>2. ASSUME NEW i \in Having(admitted) PROVE Fit(admitted[i])
      BY Zenon DEF Having, Safe, GwInv, GwTypes
  <2> QED BY Zenon, <1>2, <2>1, <2>2, CommandSafe DEF Submit
<1>3. CASE Fetch
    BY Zenon, <1>1, <1>3, CommandSafe DEF Fetch
<1>4. CASE SendAck
    BY <1>1, <1>4, CommandSafe DEF SendAck
<1> QED BY Zenon, <1>2, <1>3, <1>4 DEF Commands

(* The steps that move a command on and change no record of the chain.     *)
LEMMA RecoverSafe ==
    ASSUME Safe, GwRecover
    PROVE  GwInv'
<1> USE DEF journalVars, gwStore, world, source, store, renderer
<1>1. /\ gw.do \in Doing /\ op = Idle /\ up /\ disk' = disk
      /\ UNCHANGED <<admitted, saved, intents, marks, acked, visible, replied, installed>>
    BY Zenon DEF GwRecover, At, Doing, Recover, budget
<1> USE <1>1
<1>2. Steady /\ gw \in GwSet /\ Fit(gw.r) /\ gw # Rest
    BY Zenon, Serving DEF Steady
<1> USE <1>2
<1>3. CASE Return /\ registry' = registry /\ op' = Idle
    BY Zenon, <1>3, Returned
<1>4. CASE Go("reconcile") /\ mem.pending = NoRecord /\ UNCHANGED <<mem, op, up, registry>>
  <2> USE <1>4
  <2>1. /\ gw' \in GwSet /\ Fit(gw'.r) /\ gw' # Rest /\ gw'.do = "reconcile"
        /\ gw'.r = gw.r /\ gw'.cmd = gw.cmd
      BY Zenon, Moved DEF Doing
  <2>2. GwTypes' /\ Stored' /\ World'
      BY Zenon, <2>1, Stays
  <2>3. Control'
      BY Zenon, <2>1 DEF Control, Clear, Safe, GwInv
  <2> QED BY Zenon, <2>2, <2>3 DEF GwInv
<1>5. CASE /\ mem.pending # NoRecord /\ registry' = NewHead(mem.pending) /\ Recover
           /\ gw' = [gw EXCEPT !.do = "show", !.id = mem.pending.id, !.then = "reconcile"]
  <2> USE <1>5
  <2>1. /\ mem.pending \in Commits /\ NewHead(mem.pending) = Tip
        /\ mem.pending.id \in Ids /\ disk["commits"][mem.pending.id] = mem.pending
      BY Zenon, Running, CommitsType DEF Safe, TypeInv
  <2> USE <2>1
  <2>2. /\ gw' \in GwSet /\ gw'.r = gw.r /\ gw'.do = "show" /\ gw'.id = mem.pending.id
        /\ gw'.cmd = gw.cmd
      BY Zenon DEF GwSet, Doing
  <2>3. /\ GwTypes' /\ Stored' /\ World' /\ Commits' = Commits /\ Tip' = Tip
      BY Zenon, <2>2, Stays
  <2>4. op' = [do |-> "activate", id |-> mem.pending.id] /\ op' # Idle /\ up'
      BY Zenon DEF Recover, Idle
  <2>5. Control'
      BY <2>2, <2>3, <2>4 DEF Control, Clear, Top, Safe, GwInv
  <2> QED BY Zenon, <2>3, <2>5 DEF GwInv
<1> QED BY Zenon, <1>3, <1>4, <1>5 DEF GwRecover

LEMMA ReconcileSafe ==
    ASSUME Safe, GwReconcile
    PROVE  GwInv'
<1> USE DEF journalVars, gwStore, world, source, store, renderer
<1>1. /\ gw.do \in Doing /\ op = Idle /\ op' = Idle /\ up /\ UNCHANGED <<disk, mem, up>>
      /\ UNCHANGED <<admitted, saved, intents, marks, acked, visible, replied, installed>>
    BY Zenon DEF GwReconcile, At, Doing
<1> USE <1>1
<1>2. Steady /\ gw \in GwSet /\ Fit(gw.r) /\ gw # Rest
    BY Zenon, Serving DEF Steady
<1> USE <1>2
<1>3. mem.pending = NoRecord
    BY Zenon DEF GwReconcile, At, Safe, GwInv, Control
<1> USE <1>3
<1>4. CASE Return /\ registry' = registry
    BY Zenon, <1>4, Returned
<1>5. CASE Go("refresh") /\ Unmarked = {} /\ registry' = registry
  <2> USE <1>5
  <2>1. /\ gw' \in GwSet /\ Fit(gw'.r) /\ gw' # Rest /\ gw'.do = "refresh"
        /\ gw'.r = gw.r /\ gw'.cmd = gw.cmd
      BY Zenon, Moved DEF Doing, Clear
  <2>2. GwTypes' /\ Stored' /\ World' /\ Commits' = Commits
      BY Zenon, <2>1, Stays
  <2>3. ASSUME NEW x \in Commits PROVE x.id \in marks
    <3>1. x.id \in Ids /\ x \in Activated /\ x # NoRecord /\ x.id \in intents
        BY Zenon, Running, CommitsType, Records DEF Safe, TypeInv, GwInv, Stored, PendingHasIntent
    <3>2. mem.completions[x.id] = x
        BY Zenon, <3>1, Running DEF Activated
    <3> QED BY Zenon, <3>1, <3>2 DEF Unmarked
  <2>4. Control'
      BY Zenon, <2>1, <2>2, <2>3 DEF Control, Clear, Safe, GwInv
  <2> QED BY Zenon, <2>2, <2>4 DEF GwInv
<1>6. ASSUME NEW i \in Unmarked, registry' = NewHead(mem.completions[i]),
             gw' = [gw EXCEPT !.do = "show", !.id = i, !.then = "reconcile"]
      PROVE  GwInv'
  <2> USE <1>6
  <2>1. i \in Ids /\ i \notin marks /\ disk["commits"][i] \in Commits
        /\ mem.completions[i] = disk["commits"][i] /\ disk["commits"][i].id = i
    <3>1. mem.completions[i] # NoRecord /\ i \in intents /\ i \notin marks
        BY Zenon DEF Unmarked
    <3> USE <3>1
    <3>2. i \in Ids
        BY Zenon DEF Safe, GwInv, Stored
    <3> USE <3>2
    <3>3. disk["commits"][i] \in Activated /\ mem.completions[i] = disk["commits"][i]
        BY Zenon, Running
    <3>4. disk["commits"][i] \in Commits /\ disk["commits"][i] \in ResultSet
        BY Zenon, <3>3, CommitsType DEF Safe, TypeInv
    <3>5. disk["commits"][i].id = i
        BY Zenon, <3>4, Records DEF Safe, TypeInv, DiskType, RecordOK, Dirs
    <3> QED BY Zenon, <3>3, <3>4, <3>5
  <2> USE <2>1
  <2>2. NewHead(disk["commits"][i]) = Tip
      BY Zenon DEF Safe, GwInv, Stored
  <2>3. gw' \in GwSet /\ gw'.r = gw.r /\ gw'.do = "show" /\ gw'.id = i /\ gw'.cmd = gw.cmd
      BY Zenon DEF GwSet, Doing
  <2>4. GwTypes' /\ Stored' /\ World' /\ Commits' = Commits /\ Tip' = Tip
      BY Zenon, <2>2, <2>3, Stays
  <2>5. Control'
      BY <2>2, <2>3, <2>4 DEF Control, Clear, Top, Safe, GwInv
  <2> QED BY Zenon, <2>4, <2>5 DEF GwInv
<1> QED BY Zenon, <1>4, <1>5, <1>6 DEF GwReconcile

LEMMA RefreshSafe ==
    ASSUME Safe, GwRefresh
    PROVE  GwInv'
<1> USE DEF journalVars, gwStore, world, source
<1>1. /\ gw.do \in Doing /\ gw.do \in Clear /\ op = Idle /\ up /\ UNCHANGED <<disk, mem, op, up>>
      /\ UNCHANGED <<admitted, saved, intents, marks, acked, registry, visible, replied, installed>>
    BY Zenon DEF GwRefresh, At, Doing, Clear
<1> USE <1>1
<1>2. Steady /\ gw \in GwSet /\ Fit(gw.r) /\ gw # Rest /\ gw.r.id \in Ids
      /\ gw.cmd \in {"submit", "fetch", "ack"}
    BY Zenon, Serving DEF Steady
<1> USE <1>2
<1>3. CASE Return
    BY Zenon, <1>3, Returned
<1>4. CASE gw' = [gw EXCEPT !.do = gw.cmd, !.id = gw.r.id, !.then = "reply"]
  <2>1. gw' \in GwSet /\ gw'.r = gw.r /\ gw'.do = gw.cmd /\ gw'.id = gw.r.id /\ gw'.cmd = gw.cmd
      BY Zenon, <1>4 DEF GwSet, Doing, Clear
  <2>2. GwTypes' /\ Stored' /\ World' /\ Commits' = Commits
      BY Zenon, <2>1, Stays
  <2>3. Control'
      BY Zenon, <2>1, <2>2 DEF Control, Clear, Safe, GwInv
  <2> QED BY Zenon, <2>2, <2>3 DEF GwInv
<1> QED BY Zenon, <1>3, <1>4 DEF GwRefresh

LEMMA AdmitSafe ==
    ASSUME Safe, GwAdmit
    PROVE  GwInv'
<1> USE DEF journalVars, gwStore, world, source
<1>1. /\ gw.do \in Doing /\ gw.do = "submit" /\ op = Idle /\ up /\ UNCHANGED <<disk, mem, op, up>>
      /\ UNCHANGED <<saved, intents, marks, acked, registry, visible, replied, installed>>
    BY Zenon DEF GwAdmit, At, Doing, Clear
<1> USE <1>1
<1>2. Steady /\ gw \in GwSet /\ Fit(gw.r) /\ gw # Rest /\ gw.id \in Ids
    BY Zenon, Serving DEF Steady
<1> USE <1>2
<1>3. CASE Return /\ admitted' = admitted
    BY Zenon, <1>3, Returned
<1>4. CASE Admissible(gw.r) /\ admitted' = [admitted EXCEPT ![gw.id] = gw.r] /\ Go("reserve")
  <2> USE <1>4
  <2>1. /\ gw' \in GwSet /\ Fit(gw'.r) /\ gw' # Rest /\ gw'.do = "reserve"
        /\ gw'.id = gw.id /\ gw'.r = gw.r /\ gw'.cmd = gw.cmd
      BY Zenon, Moved DEF Doing, Clear
  <2> USE <2>1
  <2>2. GwTypes'
      BY Zenon DEF GwTypes, Safe, GwInv, Fit
  <2>3. Stored' /\ World' /\ Commits' = Commits
      BY Zenon, KeepStored, KeepWorld, SteadyChain DEF Safe, GwInv
  <2>4. SourceCaughtUp(gw.r)'
      BY Zenon DEF Admissible, SourceCaughtUp, Children
  <2>5. Control'
      BY Zenon, <2>3, <2>4 DEF Control, Clear, Safe, GwInv
  <2> QED BY Zenon, <2>2, <2>3, <2>5 DEF GwInv
<1> QED BY Zenon, <1>3, <1>4 DEF GwAdmit

(* From one step of a round to the next, with nothing to finish before it. *)
LEMMA NextStep ==
    ASSUME Safe, Steady, gw.do \in Clear \ {"refresh"}, op = Idle, up,
           NEW s \in Clear \ {"refresh", "reserve", "ack"}, Go(s), UNCHANGED <<up, saved, admitted>>,
           UNCHANGED <<marks, acked, registry, visible, replied, installed>>,
           intents \subseteq intents', intents' \subseteq intents \cup Ids,
           mem'.pending = mem.pending,
           op' = Idle \/ (s = "intent" /\ op'.do \in {"stage", "record"}),
           s \in {"acquire", "commit"} => gw.id \in intents',
           s = "acked" => gw.cmd = "ack",
           s = "prepare" => saved[gw.id] # NoRecord
    PROVE  GwInv'
<1>1. gw.do \in Doing /\ s \in Doing
    BY Zenon DEF Doing
<1> USE <1>1
<1>2. gw \in GwSet /\ Fit(gw.r) /\ gw # Rest
    BY Zenon, Serving
<1>3. /\ gw' \in GwSet /\ Fit(gw'.r) /\ gw' # Rest /\ gw'.do = s
      /\ gw'.id = gw.id /\ gw'.r = gw.r /\ gw'.cmd = gw.cmd
    BY Zenon, <1>2, Moved
<1>4. GwTypes' /\ Stored' /\ World' /\ Commits' = Commits
    BY Zenon, <1>3, Stays
<1>5. /\ mem.pending = NoRecord /\ gw.id = gw.r.id /\ \A x \in Commits : x.id \in marks
      /\ gw.cmd = "ack" =>
            disk["active"][gw.r.id] # NoRecord /\ NewHead(disk["active"][gw.r.id]) \in installed
    BY Zenon, <1>2 DEF Control, Safe, GwInv
<1>6. gw.cmd = "ack" =>
         disk'["active"][gw.r.id] # NoRecord /\ NewHead(disk'["active"][gw.r.id]) \in installed'
    BY Zenon, <1>5, Serving DEF Steady
<1>7. Control'
    BY Zenon, <1>3, <1>4, <1>5, <1>6 DEF Control, Clear
<1> QED BY Zenon, <1>4, <1>7 DEF GwInv

LEMMA ReserveSafe ==
    ASSUME Safe, GwReserve, Good'
    PROVE  GwInv'
<1> USE DEF journalVars, gwStore, world, source
<1>1. /\ gw.do \in Doing /\ gw.do \in Clear \ {"refresh"} /\ gw.do = "reserve" /\ op = Idle /\ up
      /\ UNCHANGED <<admitted, saved, intents, marks, acked, registry, visible, replied, installed>>
    BY Zenon DEF GwReserve, At, Doing, Clear
<1> USE <1>1
<1>2. gw \in GwSet /\ Fit(gw.r) /\ gw # Rest /\ gw.id \in Ids /\ gw.r.id = gw.id
    BY Zenon, Serving DEF Safe, GwInv, Control
<1> USE <1>2
<1>3. CASE UNCHANGED <<disk, mem, op, up>> /\ (Return \/ Go("stage") \/ Go("evaluate"))
  <2>1. Steady
      BY Zenon, <1>3 DEF Steady
  <2> QED BY Zenon, <1>3, <2>1, Returned, NextStep DEF Clear
<1>4. CASE mem.completions[gw.id] # NoRecord /\ Go("reply") /\ UNCHANGED <<disk, mem, op, up>>
  <2> USE <1>4
  <2>1. Steady
      BY Zenon DEF Steady
  <2>2. /\ gw' \in GwSet /\ Fit(gw'.r) /\ gw' # Rest /\ gw'.do = "reply"
        /\ gw'.id = gw.id /\ gw'.r = gw.r /\ gw'.cmd = gw.cmd
      BY Zenon, Moved DEF Doing
  <2>3. GwTypes' /\ Stored' /\ World' /\ Commits' = Commits
      BY Zenon, <2>1, <2>2, Stays
  <2>4. Shown(gw.id)
    <3>1. disk["active"][gw.id] # NoRecord /\ disk["commits"][gw.id] \in Commits
        BY Zenon, Running DEF Activated
    <3>2. visible = Tip
        BY Zenon, ClearShows DEF Safe, GwInv, Control
    <3> QED BY Zenon, <3>1, <3>2, InChain DEF Safe, Shown
  <2>5. Control'
      BY Zenon, <2>2, <2>4 DEF Control, Clear, Shown, Safe, GwInv
  <2> QED BY Zenon, <2>3, <2>5 DEF GwInv
<1>5. CASE Reserve(gw.r) /\ Go("evaluate")
  <2> USE <1>5
  <2>1. /\ \A d \in {"tombstones", "prepared", "commits", "active"} : disk'[d] = disk[d]
        /\ disk'["reservations"][gw.id] \in {gw.r, Torn}
        /\ \A i \in Ids \ {gw.id} : disk'["reservations"][i] = disk["reservations"][i]
        /\ UNCHANGED <<op, up>> /\ mem'.pending = mem.pending
      BY DEF Reserve, Write, WriteFails, Dirs, Safe, TypeInv, DiskType, MemType
  <2> USE <2>1
  <2>2. disk'["reservations"][gw.id] = gw.r
      BY Zenon DEF Good, RecordsAgree, Dirs
  <2>3. gw.r.base \in {<<>>} \cup acked
    <3>1. gw.r.base = mem.head /\ \A i \in Having(mem.reservations) :
                                     mem.reservations[i].base # mem.head
        BY Zenon DEF Reserve, Admits
    <3>2. SourceCaughtUp(gw.r)
        BY Zenon DEF Safe, GwInv, Control
    <3> QED BY Zenon, <3>1, <3>2 DEF SourceCaughtUp, Children
  <2>4. Commits' = Commits /\ Tip' = Tip /\ Activated' = Activated
      BY Zenon, SameDecisions DEF Tip
  <2> USE <2>4
  <2>5. Stored'
    <3>1. PendingHasIntent' /\ SourceFollows'
        BY Zenon DEF Safe, GwInv, Stored, PendingHasIntent, SourceFollows, Tip
    <3>2. \A i \in marks' : i \in Ids /\ Shown(i)'
        BY Zenon DEF Safe, GwInv, Stored, Shown
    <3>3. \A i \in Ids : disk'["reservations"][i] # NoRecord =>
            disk'["reservations"][i].base \in {<<>>} \cup acked'
        BY Zenon, <2>2, <2>3 DEF Safe, GwInv, Stored
    <3> QED BY Zenon, <3>1, <3>2, <3>3 DEF Safe, GwInv, Stored
  <2>6. World'
      BY Zenon DEF Safe, GwInv, World
  <2>7. /\ gw' \in GwSet /\ Fit(gw'.r) /\ gw' # Rest /\ gw'.do = "evaluate"
        /\ gw'.id = gw.id /\ gw'.r = gw.r /\ gw'.cmd = gw.cmd
      BY Zenon, Moved DEF Doing, Clear
  <2>8. GwTypes'
      BY Zenon, <2>7, KeepTypes DEF Safe, GwInv
  <2>9. Control'
      BY Zenon, <2>7 DEF Control, Clear, Safe, GwInv
  <2> QED BY Zenon, <2>5, <2>6, <2>8, <2>9 DEF GwInv
<1>6. Replay(gw.r) => UNCHANGED <<disk, mem, op, up>>
    BY Zenon DEF Replay, store
<1> QED BY Zenon, <1>3, <1>4, <1>5, <1>6 DEF GwReserve

LEMMA EvaluateSafe ==
    ASSUME Safe, GwEvaluate
    PROVE  GwInv'
<1> USE DEF journalVars, gwStore, world, source, store, renderer
<1>1. /\ gw.do \in Doing /\ gw.do = "evaluate" /\ op = Idle /\ up /\ UNCHANGED <<disk, mem, op, up>>
      /\ UNCHANGED <<admitted, intents, marks, acked, registry, visible, replied, installed>>
      /\ gw.do \in Clear \ {"refresh"}
    BY Zenon DEF GwEvaluate, At, Doing, Clear
<1> USE <1>1
<1>2. Steady /\ gw \in GwSet /\ Fit(gw.r) /\ gw # Rest /\ gw.id \in Ids /\ gw.id = gw.r.id
    BY Zenon, Serving DEF Steady, Safe, GwInv, Control
<1> USE <1>2
<1>3. CASE Return /\ saved' = saved
    BY Zenon, <1>3, Returned
<1>4. CASE Go("prepare") /\ saved' = saved /\ saved[gw.id] # NoRecord
    BY Zenon, <1>4, NextStep DEF Clear
<1>5. ASSUME saved[gw.id] = NoRecord, NEW x \in Results(gw.r),
             saved' = [saved EXCEPT ![gw.id] = x], Go("prepare")
      PROVE  GwInv'
  <2> USE <1>5
  <2>1. /\ gw' \in GwSet /\ Fit(gw'.r) /\ gw' # Rest /\ gw'.do = "prepare"
        /\ gw'.id = gw.id /\ gw'.r = gw.r /\ gw'.cmd = gw.cmd
      BY Zenon, Moved DEF Doing, Clear
  <2>2. Commits' = Commits /\ Tip' = Tip
      BY Zenon, SteadyChain DEF Safe
  <2> USE <2>2
  <2>3. x \in ResultSet /\ Evaluated(gw.id, x)
      BY Zenon, ResultTyped DEF Evaluated
  <2>4. GwTypes'
      BY Zenon, <2>1, <2>3 DEF GwTypes, Safe, GwInv, Evaluated
  <2>5. \A i \in Ids : saved[i] # NoRecord => saved'[i] = saved[i]
      BY Zenon DEF Safe, GwInv, GwTypes
  <2>6. \A i \in Ids : disk'["prepared"][i] # NoRecord => saved'[i] = disk'["prepared"][i]
      BY Zenon, <2>5 DEF Safe, GwInv, Stored
  <2>7. PendingHasIntent'
    <3>1. \A y \in Commits : y.id \in Ids /\ y # NoRecord
        BY Zenon, CommitsType, Records DEF Safe, TypeInv
    <3> QED BY <2>5, <3>1 DEF Safe, GwInv, Stored, PendingHasIntent
  <2>8. SourceFollows' /\ \A i \in marks' : i \in Ids /\ Shown(i)'
      BY Zenon DEF Safe, GwInv, Stored, SourceFollows, Shown, Tip
  <2>9. Stored'
      BY Zenon, <2>6, <2>7, <2>8 DEF Safe, GwInv, Stored
  <2>10. World'
      BY Zenon, KeepWorld DEF Safe, GwInv
  <2>11. saved'[gw.id] # NoRecord
      BY Zenon, <2>3, Records DEF Safe, GwInv, GwTypes
  <2>12. Control'
      BY Zenon, <2>1, <2>11 DEF Control, Clear, Safe, GwInv
  <2> QED BY Zenon, <2>4, <2>9, <2>10, <2>12 DEF GwInv
<1> QED BY Zenon, <1>3, <1>4, <1>5 DEF GwEvaluate

LEMMA PrepareSafe ==
    ASSUME Safe, GwPrepare, Good'
    PROVE  GwInv'
<1> USE DEF journalVars, gwStore, world, source
<1>1. /\ gw.do \in Doing /\ gw.do \in Clear \ {"refresh"} /\ gw.do = "prepare" /\ op = Idle /\ up
      /\ UNCHANGED <<admitted, saved, intents, marks, acked, registry, visible, replied, installed>>
    BY Zenon DEF GwPrepare, At, Doing, Clear
<1> USE <1>1
<1>2. gw \in GwSet /\ Fit(gw.r) /\ gw # Rest /\ gw.id \in Ids
    BY Zenon, Serving
<1> USE <1>2
<1>3. CASE UNCHANGED <<disk, mem, op, up>> /\ Return
  <2>1. Steady
      BY Zenon, <1>3 DEF Steady
  <2> QED BY Zenon, <1>3, <2>1, Returned
<1>4. CASE Prepare(saved[gw.id]) /\ Go("stage")
  <2>1. saved[gw.id].id = gw.id
      BY Zenon DEF Safe, GwInv, Control, GwTypes, Evaluated
  <2>2. /\ \A d \in {"tombstones", "reservations", "commits", "active"} : disk'[d] = disk[d]
        /\ disk'["prepared"][gw.id] \in {saved[gw.id], Torn}
        /\ \A i \in Ids \ {gw.id} : disk'["prepared"][i] = disk["prepared"][i]
        /\ UNCHANGED <<op, up>> /\ mem'.pending = mem.pending
      BY <1>4, <2>1 DEF Prepare, Write, WriteFails, Dirs, Safe, TypeInv, DiskType, MemType
  <2> USE <2>2
  <2>3. disk'["prepared"][gw.id] = saved[gw.id]
      BY Zenon DEF Good, RecordsAgree, Dirs
  <2>4. Commits' = Commits /\ Tip' = Tip /\ Activated' = Activated
      BY Zenon, SameDecisions DEF Tip
  <2> USE <2>4
  <2>5. Stored'
    <3>1. PendingHasIntent' /\ SourceFollows'
        BY Zenon DEF Safe, GwInv, Stored, PendingHasIntent, SourceFollows, Tip
    <3>2. \A i \in marks' : i \in Ids /\ Shown(i)'
        BY Zenon DEF Safe, GwInv, Stored, Shown
    <3>3. \A i \in Ids : disk'["prepared"][i] # NoRecord => saved'[i] = disk'["prepared"][i]
        BY Zenon, <2>3 DEF Safe, GwInv, Stored
    <3> QED BY Zenon, <3>1, <3>2, <3>3 DEF Safe, GwInv, Stored
  <2>6. World'
      BY Zenon DEF Safe, GwInv, World
  <2>7. /\ gw' \in GwSet /\ Fit(gw'.r) /\ gw' # Rest /\ gw'.do = "stage"
        /\ gw'.id = gw.id /\ gw'.r = gw.r /\ gw'.cmd = gw.cmd
      BY Zenon, <1>4, Moved DEF Doing, Clear
  <2>8. GwTypes'
      BY Zenon, <2>7, KeepTypes DEF Safe, GwInv
  <2>9. Control'
      BY Zenon, <2>7 DEF Control, Clear, Safe, GwInv
  <2> QED BY Zenon, <2>5, <2>6, <2>8, <2>9 DEF GwInv
<1> QED BY Zenon, <1>3, <1>4 DEF GwPrepare

LEMMA StageSafe ==
    ASSUME Safe, GwStage \/ GwIntent \/ GwAcquire
    PROVE  GwInv'
<1> USE DEF journalVars, gwStore, world, source, store, renderer, budget
<1>1. /\ gw.do \in Doing /\ gw.do \in Clear \ {"refresh"} /\ op = Idle /\ up /\ up' = up
      /\ UNCHANGED <<disk, mem, admitted, saved>>
      /\ UNCHANGED <<marks, acked, registry, visible, replied, installed>>
    BY Zenon DEF GwStage, GwIntent, GwAcquire, At, Doing, Clear, StageBegin
<1> USE <1>1
<1>2. Steady /\ gw.id \in Ids
    BY Zenon, Serving DEF Steady
<1> USE <1>2
<1>3. CASE GwStage
  <2>1. op' = Idle \/ op'.do = "stage"
      BY <1>3 DEF GwStage, StageBegin
  <2> QED BY Zenon, <1>3, <2>1, NextStep DEF GwStage, Clear
<1>4. CASE GwIntent
  <2>1. op' = Idle /\ intents \subseteq intents' /\ intents' \subseteq intents \cup Ids
      BY Zenon, <1>4 DEF GwIntent
  <2>2. CASE Go("acquire") /\ gw.id \in intents'
      BY Zenon, <2>1, <2>2, NextStep DEF Clear
  <2>3. CASE Return /\ intents' = intents
      BY Zenon, <2>1, <2>3, Returned
  <2> QED BY Zenon, <1>4, <2>2, <2>3 DEF GwIntent
<1>5. CASE GwAcquire
  <2>1. op' = Idle /\ intents' = intents /\ gw.id \in intents
      BY Zenon, <1>5 DEF GwAcquire, At, Safe, GwInv, Control
  <2>2. CASE Go("commit")
      BY Zenon, <2>1, <2>2, NextStep DEF Clear
  <2>3. CASE Return
      BY Zenon, <2>1, <2>3, Returned
  <2> QED BY Zenon, <1>5, <2>2, <2>3 DEF GwAcquire
<1> QED BY Zenon, <1>3, <1>4, <1>5

LEMMA AnnounceSafe ==
    ASSUME Safe, GwAnnounce
    PROVE  GwInv'
<1> USE DEF journalVars, gwStore, world, source, store, renderer
<1>1. /\ gw.do \in Doing /\ gw.do = "announce" /\ op = Idle /\ op' = Idle /\ up
      /\ UNCHANGED <<disk, mem, up, admitted, saved, intents>>
      /\ UNCHANGED <<marks, acked, visible, replied, installed>>
    BY Zenon DEF GwAnnounce, At, Doing
<1> USE <1>1
<1>2. Steady /\ gw \in GwSet /\ Fit(gw.r) /\ gw.id \in Ids /\ gw # Rest
    BY Zenon, Serving DEF Steady
<1> USE <1>2
<1>3. CASE Return /\ registry' = registry
    BY Zenon, <1>3, Returned
<1>4. CASE registry' = NewHead(saved[gw.id]) /\ Go("show")
  <2>1. Top(gw.id) /\ mem.pending = NoRecord
      BY Zenon DEF Safe, GwInv, Control
  <2> USE <2>1
  <2>2. disk["commits"][gw.id].id = gw.id
      BY CommitsType, Records DEF Top, Safe, TypeInv, DiskType, RecordOK, Dirs
  <2>3. saved[gw.id] = disk["commits"][gw.id]
      BY <2>2 DEF Top, Safe, GwInv, Stored, PendingHasIntent
  <2>4. registry' = Tip
      BY Zenon, <1>4, <2>3 DEF Top
  <2>5. /\ gw' \in GwSet /\ Fit(gw'.r) /\ gw' # Rest /\ gw'.do = "show"
        /\ gw'.id = gw.id /\ gw'.r = gw.r /\ gw'.cmd = gw.cmd
      BY Zenon, <1>4, Moved DEF Doing
  <2>6. GwTypes' /\ Stored' /\ World' /\ Commits' = Commits /\ Tip' = Tip
      BY Zenon, <2>4, <2>5, Stays
  <2>7. Control'
      BY Zenon, <2>4, <2>5, <2>6 DEF Control, Clear, Top, Safe, GwInv
  <2> QED BY Zenon, <2>6, <2>7 DEF GwInv
<1> QED BY Zenon, <1>3, <1>4 DEF GwAnnounce
==============================================================================
