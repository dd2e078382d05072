-------------------------- MODULE ServerStateProofs --------------------------
(***************************************************************************)
(* What the server keeps between requests.                                 *)
(*                                                                         *)
(* SessionStore for any number of threads, keys and commits.  Without a    *)
(* restore, the busy flag is a lock on the record and the revision check   *)
(* makes commits linear and retries harmless.  With restores, what is left *)
(* is that revisions count commits.                                        *)
(*                                                                         *)
(* ResumableStream for every ring size, frame size and number of readers.  *)
(***************************************************************************)
EXTENDS SessionStore, ResumableStream, TLAPS

USE StoreAssumption DEF StoreAssumption

(* No revision is ahead of the number of commits.                          *)
Bounded ==
    /\ rec # None => rec.rev <= version
    /\ disk # None => disk.rev <= version
    /\ \A s \in Savers : saving[s] # None => saving[s].bundle.rev <= version
    /\ \A r \in Restorers : loading[r] # None => loading[r].rev <= version

Types == TypeOK /\ Bounded

(* Updates of the flags of a record.                                       *)
LEMMA Flags ==
    ASSUME NEW x \in Records, NEW b \in BOOLEAN
    PROVE  /\ [x EXCEPT !.busy = b] \in Records
           /\ [x EXCEPT !.saved = b] \in Records
           /\ [x EXCEPT !.busy = b] # None
           /\ [x EXCEPT !.saved = b] # None
<1>1. [x EXCEPT !.busy = b] \in Records
    BY Zenon DEF Records
<1>2. [x EXCEPT !.saved = b] \in Records
    BY Zenon DEF Records
<1> QED BY Zenon, <1>1, <1>2

LEMMA InitTypes == Init => Types
BY DEF Init, Types, TypeOK, Bounded, Versions

(* The record a commit installs.                                           *)
LEMMA CommitTypes ==
    ASSUME Types, NEW w \in Workers, Commit(w)
    PROVE  /\ Types'
           /\ rec' # None
<1> DEFINE q == work[w].req
           a == [key |-> q.key, rev |-> q.rev, body |-> q.body, version |-> version']
<1> USE DEF Types
<1>1. q \in Requests /\ work[w].base \in Versions /\ work[w].life \in Nat /\ rec \in Records
    BY Zenon DEF TypeOK, Commit, HasLease
<1>2. rec.rev = q.rev /\ rec.rev \in Versions /\ rec.version \in Versions /\ rec.rev <= version
    BY Zenon, <1>1 DEF Commit, HasLease, Bounded, Records
<1>3. version' = version + 1 /\ version' \in Versions /\ q.rev + 1 \in Versions
    BY <1>1, <1>2 DEF Commit, TypeOK, Versions
<1>4. a \in Answers
    BY Zenon, <1>1, <1>3 DEF Answers, Requests
<1>5. Remembered \subseteq Answers
    BY Zenon, <1>1 DEF Remembered, Records
<1>6. rec' = [rev |-> q.rev + 1, version |-> version', busy |-> FALSE,
              saved |-> FALSE, idem |-> Remembered \cup {a}]
    BY Zenon DEF Commit
<1>7. FALSE \in BOOLEAN /\ Remembered \cup {a} \in SUBSET Answers
    BY Zenon, <1>4, <1>5, Zenon
<1>8. rec' \in Records /\ rec'.rev = q.rev + 1
    BY Zenon, <1>3, <1>6, <1>7 DEF Records
<1>9. commits' \subseteq Commits
  <2>1. [answer |-> a, parent |-> work[w].base, on |-> rec.version, rev |-> q.rev + 1,
         born |-> work[w].life, life |-> life] \in Commits
    BY Zenon, <1>1, <1>2, <1>3, <1>4 DEF Commits, TypeOK
  <2> QED BY Zenon, <2>1 DEF Commit, TypeOK
<1>10. TypeOK'
    BY Zenon, <1>3, <1>8, <1>9 DEF Commit, TypeOK
<1>11. Bounded'
    BY <1>1, <1>2, <1>3, <1>8 DEF Commit, TypeOK, Bounded, Versions, Bundles
<1> QED BY Zenon, <1>8, <1>10, <1>11

LEMMA StepTypes == ASSUME Types, Next PROVE Types'
<1> USE DEF Types
<1>1. CASE Create
  <2>1. rec' \in Records
    BY <1>1, FALSE \in BOOLEAN, {} \in SUBSET Answers DEF Create, Records, Versions
  <2> QED BY <1>1, <2>1 DEF Create, TypeOK, Bounded, Versions
<1>2. CASE Delete
    BY Zenon, <1>2 DEF Delete, TypeOK, Bounded
<1>3. CASE Restart
    BY Zenon, <1>3 DEF Restart, TypeOK, Bounded
<1>4. ASSUME NEW w \in Workers, NEW q \in Requests, Begin(w, q) PROVE Types'
  <2>1. rec \in Records /\ rec' = [rec EXCEPT !.busy = TRUE]
    BY Zenon, <1>4 DEF Begin, TypeOK
  <2>2. rec' \in Records
    BY Zenon, <2>1, TRUE \in BOOLEAN, Flags
  <2>3. rec'.rev = rec.rev /\ rec.version \in Versions
    BY Zenon, <2>1 DEF Records
  <2> QED BY Zenon, <1>4, <2>1, <2>2, <2>3 DEF Begin, TypeOK, Bounded
<1>5. ASSUME NEW w \in Workers, Abort(w) \/ CommitLost(w) PROVE Types'
  <2>1. CASE rec = None
    BY <1>5, <2>1 DEF Abort, CommitLost, TypeOK, Bounded
  <2>2. CASE rec # None
    <3>1. rec \in Records /\ rec' = [rec EXCEPT !.busy = FALSE]
      BY Zenon, <1>5, <2>2 DEF Abort, CommitLost, TypeOK
    <3>2. rec' \in Records
      BY Zenon, <3>1, FALSE \in BOOLEAN, Flags
    <3>3. rec'.rev = rec.rev
      BY Zenon, <3>1 DEF Records
    <3> QED BY <1>5, <2>2, <3>2, <3>3 DEF Abort, CommitLost, TypeOK, Bounded
  <2> QED BY Zenon, <2>1, <2>2
<1>6. ASSUME NEW w \in Workers, Commit(w) PROVE Types'
    BY Zenon, <1>6, CommitTypes
<1>7. ASSUME NEW s \in Savers, SaveClone(s) PROVE Types'
  <2>1. rec \in Records
    BY Zenon, <1>7 DEF SaveClone, TypeOK
  <2>2. Bundle \in Bundles /\ Bundle.rev = rec.rev
    BY Zenon, <2>1 DEF Bundle, Bundles, Records
  <2>3. [bundle |-> Bundle, written |-> FALSE] \in [bundle : Bundles, written : BOOLEAN]
    BY Zenon, <2>2, FALSE \in BOOLEAN
  <2> QED BY Zenon, <1>7, <2>2, <2>3 DEF SaveClone, TypeOK, Bounded
<1>8. ASSUME NEW s \in Savers, SaveWrite(s) PROVE Types'
  <2>1. saving[s] \in [bundle : Bundles, written : BOOLEAN]
    BY Zenon, <1>8 DEF SaveWrite, TypeOK
  <2>2. [saving[s] EXCEPT !.written = TRUE] \in [bundle : Bundles, written : BOOLEAN]
    BY Zenon, <2>1, TRUE \in BOOLEAN, Zenon
  <2>3. saving' = [saving EXCEPT ![s] = [saving[s] EXCEPT !.written = TRUE]]
    BY Zenon, <1>8 DEF SaveWrite
  <2>4. saving'[s].bundle = saving[s].bundle
    BY Zenon, <2>1, <2>3 DEF TypeOK
  <2> QED BY Zenon, <1>8, <2>1, <2>2, <2>3, <2>4 DEF SaveWrite, TypeOK, Bounded
<1>9. ASSUME NEW s \in Savers, SaveMark(s) PROVE Types'
  <2>1. CASE rec = None
    BY Zenon, <1>9, <2>1 DEF SaveMark, TypeOK, Bounded
  <2>2. CASE rec # None
    <3>1. rec \in Records /\ rec' = [rec EXCEPT !.saved = TRUE]
      BY Zenon, <1>9, <2>2 DEF SaveMark, TypeOK
    <3>2. rec' \in Records
      BY Zenon, <3>1, TRUE \in BOOLEAN, Flags
    <3>3. rec'.rev = rec.rev
      BY Zenon, <3>1 DEF Records
    <3> QED BY Zenon, <1>9, <2>2, <3>2, <3>3 DEF SaveMark, TypeOK, Bounded
  <2> QED BY Zenon, <2>1, <2>2
<1>10. ASSUME NEW r \in Restorers, RestoreRead(r) PROVE Types'
    BY Zenon, <1>10 DEF RestoreRead, TypeOK, Bounded
<1>11. ASSUME NEW r \in Restorers, RestoreInstall(r) PROVE Types'
  <2>1. loading[r] \in Bundles
    BY Zenon, <1>11 DEF RestoreInstall, TypeOK
  <2>2. rec' \in Records /\ rec'.rev = loading[r].rev
    BY Zenon, <1>11, <2>1, FALSE \in BOOLEAN, TRUE \in BOOLEAN, {} \in SUBSET Answers
    DEF RestoreInstall, Records, Bundles
  <2> QED BY <1>11, <2>1, <2>2 DEF RestoreInstall, TypeOK, Bounded
<1> QED BY Zenon, <1>1, <1>2, <1>3, <1>4, <1>5, <1>6, <1>7, <1>8, <1>9, <1>10, <1>11 DEF Next

LEMMA TypesAlways == Spec => []Types
<1>1. Types /\ [Next]_vars => Types'
  <2>1. CASE UNCHANGED vars
    BY Zenon, <2>1 DEF vars, Types, TypeOK, Bounded
  <2> QED BY Zenon, <2>1, StepTypes
<1> QED BY <1>1, InitTypes, PTL DEF Spec

(* A session is never called a revision it has not reached, and every part *)
(* of its state keeps its type: the type invariant of SessionStore.        *)
THEOREM TypeCorrect == Spec => []TypeOK
<1>1. Types => TypeOK
    BY Zenon DEF Types
<1> QED BY <1>1, TypesAlways, PTL

-----------------------------------------------------------------------------
(* A running generation that began on the record now in the registry is at *)
(* or below its revision; at its revision, the content is still the one it *)
(* began from.                                                             *)
Holds(w) ==
    /\ work[w].life <= life
    /\ rec # None /\ work[w].life = life =>
          /\ work[w].req.rev <= rec.rev
          /\ work[w].req.rev = rec.rev => work[w].base = rec.version

Lease == \A w \in Workers : work[w] # None => Holds(w)

LEMMA StepLease == ASSUME Types, Lease, Next PROVE Lease'
<1> USE DEF Types
<1>0. /\ life \in Nat
      /\ rec # None => rec.rev \in Nat
      /\ \A w \in Workers : work[w] # None => work[w].life \in Nat /\ work[w].req.rev \in Nat
    BY DEF TypeOK, Requests, Records, Versions
<1>1. ASSUME life' = life + 1, work' = work PROVE Lease'
  <2>1. \A w \in Workers : work[w] # None => work[w].life < life'
    BY <1>0, <1>1 DEF Lease, Holds
  <2> QED BY <1>0, <1>1, <2>1 DEF Lease, Holds
<1>2. ASSUME life' = life,
             rec' # None => rec # None,
             rec' # None => rec'.rev = rec.rev /\ rec'.version = rec.version,
             \A v \in Workers : work'[v] # None => work'[v] = work[v]
      PROVE  Lease'
    BY Zenon, <1>2 DEF Lease, Holds
<1>3. CASE Create
    BY Zenon, <1>1, <1>3 DEF Create
<1>4. CASE Delete
    BY Zenon, <1>2, <1>4 DEF Delete
<1>5. CASE Restart
    BY Zenon, <1>2, <1>5 DEF Restart
<1>6. ASSUME NEW w \in Workers, NEW q \in Requests, Begin(w, q) PROVE Lease'
  <2>1. rec \in Records /\ rec' = [rec EXCEPT !.busy = TRUE] /\ rec # None
    BY Zenon, <1>6 DEF Begin, TypeOK
  <2>2. rec'.rev = rec.rev /\ rec'.version = rec.version /\ rec.rev = q.rev /\ life' = life
    BY Zenon, <1>6, <2>1 DEF Begin, Records
  <2>3. /\ \A v \in Workers \ {w} : work'[v] = work[v]
        /\ work'[w].req = q /\ work'[w].base = rec.version /\ work'[w].life = life
    BY Zenon, <1>6 DEF Begin, TypeOK
  <2>4. Holds(w)'
    BY <1>0, <2>1, <2>2, <2>3 DEF Holds
  <2>5. \A v \in Workers \ {w} : work'[v] # None => Holds(v)'
    BY Zenon, <2>1, <2>2, <2>3 DEF Lease, Holds
  <2> QED BY Zenon, <2>4, <2>5 DEF Lease
<1>7. ASSUME NEW w \in Workers, Abort(w) \/ CommitLost(w) PROVE Lease'
  <2>1. rec # None => rec \in Records /\ rec' = [rec EXCEPT !.busy = FALSE]
    BY Zenon, <1>7 DEF Abort, CommitLost, TypeOK
  <2>2. rec' # None => rec # None /\ rec'.rev = rec.rev /\ rec'.version = rec.version
    BY Zenon, <1>7, <2>1 DEF Abort, CommitLost, Records
  <2>3. life' = life /\ \A v \in Workers : work'[v] # None => work'[v] = work[v]
    BY Zenon, <1>7 DEF Abort, CommitLost, TypeOK
  <2> QED BY Zenon, <1>2, <2>2, <2>3
<1>8. ASSUME NEW w \in Workers, Commit(w) PROVE Lease'
  <2>1. rec # None /\ rec'.rev = rec.rev + 1 /\ life' = life
    BY Zenon, <1>8 DEF Commit, HasLease
  <2>2. \A v \in Workers : work'[v] # None => work'[v] = work[v]
    BY Zenon, <1>8 DEF Commit, TypeOK
  <2> QED BY <1>0, <2>1, <2>2 DEF Lease, Holds
<1>9. ASSUME NEW s \in Savers, SaveClone(s) \/ SaveWrite(s) PROVE Lease'
    BY Zenon, <1>2, <1>9 DEF SaveClone, SaveWrite
<1>10. ASSUME NEW s \in Savers, SaveMark(s) PROVE Lease'
  <2>1. rec # None => rec \in Records /\ rec' = [rec EXCEPT !.saved = TRUE]
    BY Zenon, <1>10 DEF SaveMark, TypeOK
  <2>2. rec' # None => rec # None /\ rec'.rev = rec.rev /\ rec'.version = rec.version
    BY Zenon, <1>10, <2>1 DEF SaveMark, Records
  <2> QED BY Zenon, <1>2, <1>10, <2>2 DEF SaveMark
<1>11. ASSUME NEW r \in Restorers, RestoreRead(r) PROVE Lease'
    BY Zenon, <1>2, <1>11 DEF RestoreRead
<1>12. ASSUME NEW r \in Restorers, RestoreInstall(r) PROVE Lease'
    BY Zenon, <1>1, <1>12 DEF RestoreInstall
<1> QED BY Zenon, <1>3, <1>4, <1>5, <1>6, <1>7, <1>8, <1>9, <1>10, <1>11, <1>12 DEF Next

(* Where a commit comes from: the other actions leave the history alone.   *)
LEMMA StepLinear ==
    ASSUME Types, Lease, LinearHistory, Next
    PROVE  LinearHistory'
<1>1. CASE commits' = commits
    BY Zenon, <1>1 DEF LinearHistory
<1>2. ASSUME NEW w \in Workers, Commit(w) PROVE LinearHistory'
  <2> DEFINE q == work[w].req
             a == [key |-> q.key, rev |-> q.rev, body |-> q.body, version |-> version']
             c == [answer |-> a, parent |-> work[w].base, on |-> rec.version,
                   rev |-> q.rev + 1, born |-> work[w].life, life |-> life]
  <2>1. commits' = commits \cup {c}
    BY Zenon, <1>2 DEF Commit
  <2>2. c.born = work[w].life /\ c.life = life /\ c.parent = work[w].base /\ c.on = rec.version
    BY Zenon
  <2> HIDE DEF c
  <2>3. rec # None /\ rec.rev = q.rev /\ Holds(w)
    BY Zenon, <1>2 DEF Commit, HasLease, Lease
  <2> QED BY Zenon, <2>1, <2>2, <2>3 DEF Holds, LinearHistory
<1> QED BY Zenon, <1>1, <1>2 DEF Next, Create, Delete, Restart, Begin, Abort, CommitLost, SaveClone,
                          SaveWrite, SaveMark, RestoreRead, RestoreInstall

(* "revision conflicts or a busy session return 409" (begin and commit):   *)
(* an accepted generation extends exactly the state it was started from,   *)
(* on the record it was started on, whatever is saved, restored or aborted.*)
THEOREM LinearCommits == Spec => []LinearHistory
<1>1. Init => Lease /\ LinearHistory
    BY Zenon DEF Init, Lease, LinearHistory
<1>2. Types /\ Lease /\ LinearHistory /\ [Next]_vars => (Lease /\ LinearHistory)'
  <2>1. CASE UNCHANGED vars
    BY Zenon, <2>1 DEF vars, Lease, Holds, LinearHistory
  <2> QED BY Zenon, <2>1, StepLease, StepLinear
<1> QED BY <1>1, <1>2, TypesAlways, PTL DEF Spec

-----------------------------------------------------------------------------
(* The revision of a record has passed every commit made on it.            *)
Passed ==
    /\ \A c \in commits : c.life <= life
    /\ rec # None => \A c \in commits : c.life = life => c.answer.rev < rec.rev
    /\ \A c, d \in commits : c.life = d.life /\ c.answer.rev = d.answer.rev => c = d

LEMMA StepPassed ==
    ASSUME Types, Passed, Next
    PROVE  Passed'
<1> USE DEF Types
<1>0. /\ life \in Nat
      /\ \A c \in commits : c.life \in Nat /\ c.answer.rev \in Nat
    BY DEF TypeOK, Commits, Answers, Versions
<1>1. ASSUME life' = life + 1, commits' = commits PROVE Passed'
  <2>1. \A c \in commits : c.life < life'
    BY <1>0, <1>1 DEF Passed
  <2> QED BY <1>0, <1>1, <2>1 DEF Passed
<1>2. CASE Delete \/ Restart
    BY Zenon, <1>2 DEF Delete, Restart, Passed
<1>3. ASSUME NEW w \in Workers, Commit(w) PROVE Passed'
  <2> DEFINE q == work[w].req
             a == [key |-> q.key, rev |-> q.rev, body |-> q.body, version |-> version']
             c == [answer |-> a, parent |-> work[w].base, on |-> rec.version,
                   rev |-> q.rev + 1, born |-> work[w].life, life |-> life]
  <2>1. rec # None /\ rec.rev = q.rev /\ q.rev \in Nat
    BY <1>3 DEF Commit, HasLease, TypeOK, Requests, Versions
  <2>2. commits' = commits \cup {c} /\ rec'.rev = q.rev + 1 /\ life' = life
    BY Zenon, <1>3 DEF Commit
  <2>3. c.life = life /\ c.answer.rev = q.rev
    BY Zenon
  <2> HIDE DEF c
  <2>4. \A d \in commits : d.life = life => d.answer.rev < q.rev
    BY Zenon, <2>1 DEF Passed
  <2> QED BY <1>0, <2>1, <2>2, <2>3, <2>4 DEF Passed
<1>4. ASSUME /\ UNCHANGED <<commits, life>>
             /\ rec = None => rec' = None
             /\ rec # None => rec'.rev = rec.rev
      PROVE  Passed'
    BY Zenon, <1>4 DEF Passed
<1>5. ASSUME NEW w \in Workers, NEW q \in Requests, Begin(w, q) PROVE Passed'
  <2>1. rec \in Records /\ rec' = [rec EXCEPT !.busy = TRUE]
    BY Zenon, <1>5 DEF Begin, TypeOK
  <2> QED BY Zenon, <1>4, <1>5, <2>1 DEF Begin, Records
<1>6. ASSUME NEW w \in Workers, Abort(w) \/ CommitLost(w) PROVE Passed'
  <2>1. rec # None => rec \in Records /\ rec' = [rec EXCEPT !.busy = FALSE]
    BY Zenon, <1>6 DEF Abort, CommitLost, TypeOK
  <2> QED BY Zenon, <1>4, <1>6, <2>1 DEF Abort, CommitLost, Records
<1>7. ASSUME NEW s \in Savers, SaveClone(s) \/ SaveWrite(s) \/ SaveMark(s) PROVE Passed'
  <2>1. rec # None => rec' = rec \/ (rec \in Records /\ rec' = [rec EXCEPT !.saved = TRUE])
    BY Zenon, <1>7 DEF SaveClone, SaveWrite, SaveMark, TypeOK
  <2> QED BY Zenon, <1>4, <1>7, <2>1 DEF SaveClone, SaveWrite, SaveMark, Records
<1>8. ASSUME NEW r \in Restorers, RestoreRead(r) PROVE Passed'
    BY Zenon, <1>4, <1>8 DEF RestoreRead
<1> QED BY Zenon, <1>1, <1>2, <1>3, <1>5, <1>6, <1>7, <1>8 DEF Next, Create, RestoreInstall

(* Idempotency-Key: retrying a request under its key cannot generate it    *)
(* twice on one record of the session, however often the table of          *)
(* remembered keys was cleared.                                            *)
THEOREM RetriesAreHarmless == Spec => []IdempotentOnce
<1>1. Init => Passed
    BY Zenon DEF Init, Passed
<1>2. Types /\ Passed /\ [Next]_vars => Passed'
  <2>1. CASE UNCHANGED vars
    BY Zenon, <2>1 DEF vars, Passed
  <2> QED BY Zenon, <2>1, StepPassed
<1>3. Types /\ Passed => IdempotentOnce
  <2> SUFFICES ASSUME Types, Passed, NEW c \in commits, NEW d \in commits,
                      c.life = d.life,
                      [c.answer EXCEPT !.version = 0] = [d.answer EXCEPT !.version = 0]
               PROVE  c = d
    BY Zenon DEF IdempotentOnce
  <2>1. c.answer \in Answers /\ d.answer \in Answers
    BY Zenon DEF Types, TypeOK, Commits
  <2>2. c.answer.rev = d.answer.rev
    BY Zenon, <2>1 DEF Answers
  <2> QED BY Zenon, <2>2 DEF Passed
<1> QED BY <1>1, <1>2, <1>3, TypesAlways, PTL DEF Spec

-----------------------------------------------------------------------------
(* RevisionOf for a given history.                                         *)
CountedIn(C, v, r) == (v = 0 /\ r = 0) \/ \E c \in C : c.answer.version = v /\ c.rev = r

(* RevisionChain also holds of what is held by the calls in progress.      *)
Chain ==
    /\ RevisionChain
    /\ \A w \in Workers : work[w] # None => RevisionOf(work[w].base, work[w].req.rev)
    /\ \A s \in Savers : saving[s] # None =>
          RevisionOf(saving[s].bundle.version, saving[s].bundle.rev)
    /\ \A r \in Restorers : loading[r] # None => RevisionOf(loading[r].version, loading[r].rev)

LEMMA StepChain == ASSUME Types, Chain, Next PROVE Chain'
<1> USE DEF Types
<1>1. CASE Create
    BY <1>1 DEF Create, Chain, RevisionChain, RevisionOf
<1>2. CASE Delete \/ Restart
    BY <1>2 DEF Delete, Restart, Chain, RevisionChain, RevisionOf
<1>3. ASSUME NEW w \in Workers, NEW q \in Requests, Begin(w, q) PROVE Chain'
  <2>1. rec \in Records /\ rec' = [rec EXCEPT !.busy = TRUE] /\ rec.rev = q.rev
    BY Zenon, <1>3 DEF Begin, TypeOK
  <2>2. rec'.rev = rec.rev /\ rec'.version = rec.version
    BY Zenon, <2>1 DEF Records
  <2>3. RevisionOf(rec.version, rec.rev)
    BY Zenon, <1>3 DEF Begin, Chain, RevisionChain
  <2>4. RevisionChain'
    BY <1>3, <2>2, <2>3 DEF Begin, Chain, RevisionChain, RevisionOf
  <2>5. \A v \in Workers : work'[v] # None => RevisionOf(work'[v].base, work'[v].req.rev)
    BY Zenon, <1>3, <2>1, <2>3 DEF Begin, TypeOK, Chain
  <2> QED BY <1>3, <2>4, <2>5 DEF Begin, Chain, RevisionOf
<1>4. ASSUME NEW w \in Workers, Abort(w) \/ CommitLost(w) PROVE Chain'
  <2>1. rec # None => rec \in Records /\ rec' = [rec EXCEPT !.busy = FALSE]
    BY Zenon, <1>4 DEF Abort, CommitLost, TypeOK
  <2>2. /\ rec' # None => rec # None
        /\ rec # None => rec'.rev = rec.rev /\ rec'.version = rec.version
    BY Zenon, <1>4, <2>1 DEF Abort, CommitLost, Records
  <2>3. RevisionChain'
    BY <1>4, <2>2 DEF Abort, CommitLost, Chain, RevisionChain, RevisionOf
  <2> QED BY <1>4, <2>3 DEF Abort, CommitLost, TypeOK, Chain, RevisionOf
<1>5. ASSUME NEW w \in Workers, Commit(w) PROVE Chain'
  <2> DEFINE q == work[w].req
             a == [key |-> q.key, rev |-> q.rev, body |-> q.body, version |-> version']
             c == [answer |-> a, parent |-> work[w].base, on |-> rec.version,
                   rev |-> q.rev + 1, born |-> work[w].life, life |-> life]
  <2>1. q.rev \in Nat
    BY <1>5 DEF Commit, TypeOK, Requests, Versions
  <2>2. /\ commits' = commits \cup {c}
        /\ rec'.rev = q.rev + 1 /\ rec'.version = version'
    BY Zenon, <1>5 DEF Commit
  <2>3. c.answer.version = version' /\ c.rev = q.rev + 1 /\ c.parent = work[w].base
    BY Zenon
  <2> HIDE DEF c
  <2>4. ASSUME NEW v, NEW r, RevisionOf(v, r) PROVE CountedIn(commits', v, r)
    BY Zenon, <2>2, <2>4 DEF RevisionOf, CountedIn
  <2>5. RevisionOf(c.parent, c.rev - 1)
    BY <1>5, <2>1, <2>3 DEF Commit, Chain
  <2>6. CountedIn(commits', rec'.version, rec'.rev)
    BY Zenon, <2>2, <2>3 DEF CountedIn
  <2>7. \A d \in commits' : CountedIn(commits', d.parent, d.rev - 1)
    BY Zenon, <2>2, <2>4, <2>5 DEF Chain, RevisionChain
  <2>8. disk' # None => CountedIn(commits', disk'.version, disk'.rev)
    BY Zenon, <1>5, <2>4 DEF Commit, Chain, RevisionChain
  <2>9. RevisionChain'
    BY Zenon, <2>6, <2>7, <2>8 DEF RevisionChain, RevisionOf, CountedIn
  <2>10. \A v \in Workers : work'[v] # None => CountedIn(commits', work'[v].base, work'[v].req.rev)
    BY Zenon, <1>5, <2>4 DEF Commit, TypeOK, Chain
  <2>11. /\ \A s \in Savers : saving'[s] # None =>
               CountedIn(commits', saving'[s].bundle.version, saving'[s].bundle.rev)
         /\ \A r \in Restorers : loading'[r] # None =>
               CountedIn(commits', loading'[r].version, loading'[r].rev)
    BY Zenon, <1>5, <2>4 DEF Commit, Chain
  <2> QED BY Zenon, <2>9, <2>10, <2>11 DEF Chain, RevisionOf, CountedIn
<1>6. ASSUME NEW s \in Savers, SaveClone(s) PROVE Chain'
  <2>1. RevisionOf(Bundle.version, Bundle.rev)
    BY Zenon, <1>6 DEF SaveClone, Bundle, Chain, RevisionChain
  <2>2. \A t \in Savers : saving'[t] # None =>
          RevisionOf(saving'[t].bundle.version, saving'[t].bundle.rev)
    BY Zenon, <1>6, <2>1 DEF SaveClone, TypeOK, Chain
  <2> QED BY <1>6, <2>2 DEF SaveClone, Chain, RevisionChain, RevisionOf
<1>7. ASSUME NEW s \in Savers, SaveWrite(s) PROVE Chain'
  <2>1. saving[s] \in [bundle : Bundles, written : BOOLEAN]
    BY Zenon, <1>7 DEF SaveWrite, TypeOK
  <2>2. /\ saving'[s].bundle = saving[s].bundle
        /\ \A t \in Savers \ {s} : saving'[t] = saving[t]
    BY Zenon, <1>7, <2>1 DEF SaveWrite, TypeOK
  <2>3. RevisionOf(saving[s].bundle.version, saving[s].bundle.rev)
    BY Zenon, <1>7 DEF SaveWrite, Chain
  <2>4. RevisionChain'
    BY Zenon, <1>7, <2>3 DEF SaveWrite, Chain, RevisionChain, RevisionOf
  <2>5. \A t \in Savers : saving'[t] # None =>
          RevisionOf(saving'[t].bundle.version, saving'[t].bundle.rev)
    BY Zenon, <2>2, <2>3 DEF Chain
  <2> QED BY Zenon, <1>7, <2>4, <2>5 DEF SaveWrite, Chain, RevisionOf
<1>8. ASSUME NEW s \in Savers, SaveMark(s) PROVE Chain'
  <2>1. rec # None => rec \in Records /\ rec' = [rec EXCEPT !.saved = TRUE]
    BY Zenon, <1>8 DEF SaveMark, TypeOK
  <2>2. /\ rec' # None => rec # None
        /\ rec # None => rec'.rev = rec.rev /\ rec'.version = rec.version
    BY Zenon, <1>8, <2>1 DEF SaveMark, Records
  <2>3. RevisionChain'
    BY <1>8, <2>2 DEF SaveMark, Chain, RevisionChain, RevisionOf
  <2> QED BY <1>8, <2>3 DEF SaveMark, TypeOK, Chain, RevisionOf
<1>9. ASSUME NEW r \in Restorers, RestoreRead(r) PROVE Chain'
    BY ZenonT(30), <1>9 DEF RestoreRead, TypeOK, Chain, RevisionChain, RevisionOf
<1>10. ASSUME NEW r \in Restorers, RestoreInstall(r) PROVE Chain'
  <2>1. RevisionOf(rec'.version, rec'.rev)
    BY Zenon, <1>10 DEF RestoreInstall, Chain
  <2>2. RevisionChain'
    BY Zenon, <1>10, <2>1 DEF RestoreInstall, Chain, RevisionChain, RevisionOf
  <2> QED BY <1>10, <2>2 DEF RestoreInstall, TypeOK, Chain, RevisionOf
<1> QED BY Zenon, <1>1, <1>2, <1>3, <1>4, <1>5, <1>6, <1>7, <1>8, <1>9, <1>10 DEF Next

(* Whatever saves, restores, deletions, aborted generations and restarts   *)
(* interleave, revision r + 1 of a session was generated from a revision r *)
(* (commit), and what restore brings back carries its own revision.        *)
THEOREM RevisionsCountCommits == Spec => []RevisionChain
<1>1. Init => Chain
    BY Zenon DEF Init, Chain, RevisionChain, RevisionOf
<1>2. Types /\ Chain /\ [Next]_vars => Chain'
  <2>1. CASE UNCHANGED vars
    BY <2>1 DEF vars, Chain, RevisionChain, RevisionOf
  <2> QED BY Zenon, <2>1, StepChain
<1>3. Chain => RevisionChain
    BY Zenon DEF Chain
<1> QED BY <1>1, <1>2, <1>3, TypesAlways, PTL DEF Spec

HIDE StoreAssumption DEF StoreAssumption

-----------------------------------------------------------------------------
(* Resumable streams.                                                      *)

USE StreamAssumption DEF StreamAssumption

(* The bytes of a stream behind position a, up to and with position b.     *)
Bytes(a, b) == [i \in 1..(b - a) |-> a + i]

LEMMA BytesSeq ==
    ASSUME NEW a \in Nat, NEW b \in Nat, a <= b
    PROVE  Bytes(a, b) \in Seq(Nat) /\ Len(Bytes(a, b)) = b - a
    BY DEF Bytes

(* Dropping what lies before c leaves the bytes behind c.                  *)
LEMMA BytesCut ==
    ASSUME NEW a \in Nat, NEW b \in Nat, NEW c \in Nat, a <= c, c <= b
    PROVE  SubSeq(Bytes(a, b), c - a + 1, b - a) = Bytes(c, b)
    BY DEF Bytes

LEMMA BytesJoin ==
    ASSUME NEW a \in Nat, NEW b \in Nat, NEW c \in Nat, a <= b, b <= c
    PROVE  Bytes(a, b) \o Bytes(b, c) = Bytes(a, c)
    BY DEF Bytes

(* A ring is the tail of its stream, at most MaxBytes long.                *)
RingInv ==
    \A s \in Sessions :
        /\ dropped[s] <= total[s] /\ total[s] <= dropped[s] + MaxBytes
        /\ bytes[s] = Bytes(dropped[s], total[s])

(* A task reads one stream for good, and completes only on a done one.     *)
ReaderInv ==
    \A r \in Readers :
        /\ IF reader[r] = "idle" THEN offset[r] = from[r] ELSE reads[r] \in Sessions
        /\ reader[r] = "complete" => done[reads[r]] /\ offset[r] >= total[reads[r]]
        /\ from[r] <= offset[r]
        /\ reader[r] # "left" => got[r] = Bytes(from[r], offset[r])

(* The entry is the youngest stream or none; the others are done.          *)
EntryInv == (current # NoSession => current = created) /\ OneProducer

Shape ==
    /\ current \in Sessions \cup {NoSession} /\ created \in 0..MaxSessions
    /\ DOMAIN bytes = Sessions /\ bytes = [s \in Sessions |-> bytes[s]]
    /\ dropped \in [Sessions -> Nat] /\ total \in [Sessions -> 0..MaxTotal]
    /\ done \in [Sessions -> BOOLEAN] /\ cancelled \in [Sessions -> BOOLEAN]
    /\ writing \subseteq Sessions /\ notify \subseteq Sessions
    /\ reader \in [Readers -> {"idle", "read", "pending", "waiting"} \cup Ended]
    /\ reads \in [Readers -> Sessions \cup {NoSession}]
    /\ from \in [Readers -> 0..MaxTotal] /\ offset \in [Readers -> 0..MaxTotal]
    /\ got = [r \in Readers |-> got[r]]

Inv == Shape /\ RingInv /\ ReaderInv /\ EntryInv

LEMMA InitInv == StreamInit => Inv
<1> SUFFICES ASSUME StreamInit PROVE Inv
    BY Zenon
<1>1. Bytes(0, 0) = <<>>
    BY DEF Bytes
<1>2. done \in [Sessions -> BOOLEAN] /\ cancelled \in [Sessions -> BOOLEAN]
    BY Zenon DEF StreamInit
<1>3. Shape
    BY <1>2 DEF StreamInit, Shape, Sessions
<1>4. RingInv /\ ReaderInv
    BY <1>1 DEF StreamInit, RingInv, ReaderInv, Sessions
<1>5. EntryInv
    BY DEF StreamInit, EntryInv, OneProducer
<1> QED BY Zenon, <1>3, <1>4, <1>5 DEF Inv

(* The manager's operations only end streams.                              *)
LEMMA ManagerInv ==
    ASSUME Inv, CreateOrReplace \/ EvictAndCancel \/ Lookup
    PROVE  Inv'
<1> USE DEF Inv
<1>1. /\ UNCHANGED <<ring, reader, readers>>
      /\ notify' \subseteq Sessions /\ writing' \subseteq Sessions
      /\ created' \in 0..MaxSessions
      /\ current' \in Sessions \cup {NoSession}
  <2>1. CASE CreateOrReplace
    BY <2>1 DEF CreateOrReplace, Cancel, Shape, Sessions
  <2>2. CASE EvictAndCancel \/ Lookup
    BY Zenon, <2>2 DEF EvictAndCancel, Lookup, Cancel, Shape
  <2> QED BY Zenon, <2>1, <2>2
<1>2. done' \in [Sessions -> BOOLEAN] /\ cancelled' \in [Sessions -> BOOLEAN]
    BY ZenonT(60) DEF CreateOrReplace, EvictAndCancel, Lookup, Cancel, Shape, flags
<1>3. \A s \in Sessions : done[s] => done'[s]
    BY Zenon DEF CreateOrReplace, EvictAndCancel, Lookup, Cancel, flags
<1>4. Shape'
    BY Zenon, <1>1, <1>2 DEF Shape, ring, readers
<1>5. RingInv'
    BY Zenon, <1>1 DEF RingInv, ring
<1>6. ReaderInv'
    BY Zenon, <1>1, <1>3 DEF Shape, ReaderInv, ring, readers
<1>7. EntryInv'
  <2>1. CASE CreateOrReplace
    <3>1. PICK previous \in Sessions \cup {NoSession} : Gc(previous) /\ Cancel(previous)
        BY Zenon, <2>1 DEF CreateOrReplace
    <3>2. 1..created \subseteq Sessions
        BY DEF Shape, Sessions
    <3>3. ASSUME NEW s \in 1..created PROVE done'[s]
        BY Zenon, <3>1, <3>2, <3>3, Zenon DEF Gc, Cancel, EntryInv, OneProducer
    <3> QED BY <2>1, <3>3 DEF CreateOrReplace, EntryInv, OneProducer, Shape
  <2>2. CASE EvictAndCancel
    <3>1. 1..created \subseteq Sessions
        BY DEF Shape, Sessions
    <3>2. ASSUME NEW s \in 1..created PROVE done'[s]
        BY Zenon, <2>2, <3>1, <3>2, Zenon DEF EvictAndCancel, Cancel, EntryInv, OneProducer
    <3> QED BY Zenon, <2>2, <3>2 DEF EvictAndCancel, EntryInv, OneProducer
  <2>3. CASE Lookup
    BY Zenon, <2>3 DEF Lookup, Gc, EntryInv, OneProducer, Shape, flags
  <2> QED BY Zenon, <2>1, <2>2, <2>3
<1> QED BY Zenon, <1>4, <1>5, <1>6, <1>7

LEMMA AppendInv ==
    ASSUME Inv, NEW s \in Sessions, NEW n \in 1..MaxFrame, AppendFrame(s, n)
    PROVE  Inv'
<1> USE DEF Inv
<1>1. PICK d \in Nat, t \in Nat :
          /\ d = dropped[s] /\ t = total[s] /\ d <= t /\ t <= d + MaxBytes
          /\ bytes[s] = Bytes(d, t) /\ Len(bytes[s]) = t - d
    BY BytesSeq DEF Shape, RingInv
<1>2. PICK m \in Nat : /\ n \in Nat /\ m = t + n /\ t <= m /\ m - t = n
                       /\ Frame(s, n) = Bytes(t, m) /\ Len(Frame(s, n)) = n
  <2>1. PICK m \in Nat : n \in Nat /\ m = t + n /\ t <= m /\ m - t = n
    OBVIOUS
  <2>2. Frame(s, n) = Bytes(t, m)
    BY Zenon, <1>1, <2>1 DEF Frame, Bytes
  <2>3. Len(Bytes(t, m)) = m - t
    BY Zenon, <2>1, BytesSeq
  <2> QED BY Zenon, <2>1, <2>2, <2>3
<1>a. d <= t /\ t <= d + MaxBytes
    BY Zenon, <1>1
<1>b. n \in Nat /\ m = t + n /\ t <= m /\ m - t = n
    BY Zenon, <1>2
<1>3. PICK x \in Nat : /\ x <= m /\ m <= x + MaxBytes
                       /\ dropped' = [dropped EXCEPT ![s] = x]
                       /\ bytes' = [bytes EXCEPT ![s] = Bytes(x, m)]
  <2>1. CASE n >= MaxBytes
    <3>1. PICK x \in Nat : /\ x = t + n - MaxBytes /\ t <= x /\ x <= m /\ m <= x + MaxBytes
                           /\ x - t + 1 = n - MaxBytes + 1
        BY <1>b, <2>1
    <3>2. SubSeq(Bytes(t, m), x - t + 1, m - t) = Bytes(x, m)
        BY ZenonT(60), <3>1, BytesCut
    <3>3. Last(Frame(s, n), MaxBytes) = Bytes(x, m)
        BY Zenon, <1>2, <3>1, <3>2 DEF Last
    <3>4. /\ dropped' = [dropped EXCEPT ![s] = x]
          /\ bytes' = [bytes EXCEPT ![s] = Bytes(x, m)]
        BY Zenon, <1>1, <2>1, <3>1, <3>3 DEF AppendFrame, PushFrame
    <3> QED BY Zenon, <3>1, <3>4
  <2>2. CASE n < MaxBytes
    <3>1. PICK e \in Nat : e = Excess(s, n) /\ e <= t - d /\ t + n <= d + e + MaxBytes
      <4>1. Excess(s, n) = IF (t - d) + n > MaxBytes THEN (t - d) + n - MaxBytes ELSE 0
        BY Zenon, <1>1 DEF Excess
      <4>2. CASE (t - d) + n > MaxBytes
        <5>1. (t - d) + n - MaxBytes \in Nat /\ (t - d) + n - MaxBytes <= t - d
            BY <1>a, <1>b, <2>2, <4>2
        <5>2. t + n <= d + ((t - d) + n - MaxBytes) + MaxBytes
            BY <1>b
        <5> QED BY Zenon, <4>1, <4>2, <5>1, <5>2
      <4>3. CASE ~((t - d) + n > MaxBytes)
        <5>1. 0 <= t - d /\ t + n <= d + 0 + MaxBytes
            BY <1>a, <1>b, <4>3
        <5> QED BY Zenon, <4>1, <4>3, <5>1
      <4> QED BY Zenon, <4>2, <4>3
    <3>a. e <= t - d /\ t + n <= d + e + MaxBytes
        BY Zenon, <3>1
    <3>2. PICK x \in Nat : /\ x = d + e /\ x - d = e /\ d <= x /\ x <= t /\ x <= m
                           /\ m <= x + MaxBytes
        BY <1>a, <1>b, <3>a
    <3>3. SubSeq(Bytes(d, t), x - d + 1, t - d) = Bytes(x, t)
        BY ZenonT(60), <3>2, BytesCut
    <3>4. Bytes(x, t) \o Bytes(t, m) = Bytes(x, m)
      <4>1. x <= t /\ t <= m
        BY Zenon, <1>b, <3>2
      <4> QED BY Zenon, <4>1, BytesJoin
    <3>5. ~(n >= MaxBytes)
        BY <1>b, <2>2
    <3>6. /\ dropped' = [dropped EXCEPT ![s] = x]
          /\ bytes' = [bytes EXCEPT ![s] = SubSeq(Bytes(d, t), e + 1, t - d) \o Frame(s, n)]
        BY Zenon, <1>1, <3>1, <3>2, <3>5 DEF AppendFrame, PushFrame
    <3>7. SubSeq(Bytes(d, t), e + 1, t - d) = Bytes(x, t)
        BY Zenon, <3>2, <3>3
    <3> QED BY Zenon, <1>2, <3>2, <3>4, <3>6, <3>7
  <2> QED BY <1>2, <2>1, <2>2
<1>4. total' = [total EXCEPT ![s] = m] /\ m \in 0..MaxTotal /\ t <= m
    BY <1>1, <1>2 DEF AppendFrame, Shape
<1>5. /\ ~done[s] /\ notify' \subseteq Sessions
      /\ UNCHANGED <<current, created, flags, writing, reader, readers>>
    BY Zenon DEF AppendFrame, Shape
<1>6. Shape'
    BY Zenon, <1>3, <1>4, <1>5 DEF Shape, flags, readers
<1>7. RingInv'
    BY SMTT(30), <1>1, <1>3, <1>4 DEF RingInv, Shape
<1>8. ReaderInv'
    BY <1>4, <1>5 DEF ReaderInv, Shape, flags, readers
<1>9. EntryInv'
    BY Zenon, <1>5 DEF EntryInv, OneProducer, flags
<1> QED BY Zenon, <1>6, <1>7, <1>8, <1>9

LEMMA EndInv ==
    ASSUME Inv, NEW s \in Sessions, Finish(s) \/ NotifyWaiters(s)
    PROVE  Inv'
<1> USE DEF Inv
<1>1. CASE Finish(s)
  <2>1. done' \in [Sessions -> BOOLEAN] /\ \A u \in Sessions : done[u] => done'[u]
    BY Zenon, <1>1, Zenon DEF Finish, Shape
  <2>2. Shape'
    BY Zenon, <1>1, <2>1 DEF Finish, Shape, ring, readers
  <2>3. RingInv' /\ ReaderInv'
    BY Zenon, <1>1, <2>1 DEF Finish, Shape, RingInv, ReaderInv, ring, readers
  <2>4. EntryInv'
    <3>1. 1..created \subseteq Sessions
        BY DEF Shape, Sessions
    <3> QED BY Zenon, <1>1, <2>1, <3>1 DEF Finish, EntryInv, OneProducer
  <2> QED BY Zenon, <2>2, <2>3, <2>4
<1>2. CASE NotifyWaiters(s)
  <2>1. Shape'
    BY Zenon, <1>2 DEF NotifyWaiters, Shape, ring, flags, readers
  <2>2. RingInv' /\ EntryInv'
    BY Zenon, <1>2 DEF NotifyWaiters, RingInv, EntryInv, OneProducer, ring, flags
  <2>3. ReaderInv'
    BY Zenon, <1>2 DEF NotifyWaiters, Shape, ReaderInv, ring, flags, readers
  <2> QED BY Zenon, <2>1, <2>2, <2>3
<1> QED BY Zenon, <1>1, <1>2

LEMMA GetInv ==
    ASSUME Inv, NEW r \in Readers, NEW o \in 0..MaxTotal, Get(r, o)
    PROVE  Inv'
<1> USE DEF Inv
<1>1. PICK c \in Sessions : /\ c = current /\ current' = c
                            /\ reads' = [reads EXCEPT ![r] = c]
    BY Zenon DEF Get, Gc
<1>2. /\ reader[r] = "idle"
      /\ from' = [from EXCEPT ![r] = o] /\ offset' = [offset EXCEPT ![r] = o]
      /\ reader' = [reader EXCEPT ![r] = "read"]
      /\ UNCHANGED <<created, ring, flags, writing, notify, got>>
    BY Zenon DEF Get
<1>3. Shape'
    BY Zenon, <1>1, <1>2 DEF Shape, ring, flags
<1>4. RingInv' /\ EntryInv'
    BY Zenon, <1>1, <1>2 DEF RingInv, EntryInv, OneProducer, ring, flags
<1>5. got[r] = Bytes(o, o)
  <2>1. got[r] = Bytes(from[r], from[r]) /\ from[r] \in Nat
    BY <1>2 DEF ReaderInv, Shape
  <2> QED BY <2>1 DEF Bytes
<1>6. ReaderInv'
    BY <1>1, <1>2, <1>5 DEF ReaderInv, Shape, ring, flags
<1> QED BY Zenon, <1>3, <1>4, <1>6

LEMMA ReadInv ==
    ASSUME Inv, NEW r \in Readers, Read(r) \/ Changed(r)
    PROVE  Inv'
<1> USE DEF Inv
<1>1. /\ reader[r] \in {"read", "pending"}
      /\ UNCHANGED <<current, created, ring, flags, writing, notify, reads, from>>
    BY Zenon DEF Read, Changed, readers
<1>2. PICK s \in Sessions : s = reads[r]
    BY Zenon, <1>1 DEF ReaderInv
<1>3. PICK d \in Nat, t \in Nat, f \in Nat, o \in Nat :
          /\ d = dropped[s] /\ t = total[s] /\ f = from[r] /\ o = offset[r]
          /\ bytes[s] = Bytes(d, t) /\ got[r] = Bytes(f, o) /\ Len(bytes[s]) = t - d
  <2>1. /\ dropped[s] \in Nat /\ total[s] \in Nat /\ from[r] \in Nat /\ offset[r] \in Nat
        /\ dropped[s] <= total[s] /\ bytes[s] = Bytes(dropped[s], total[s])
    BY DEF Shape, RingInv
  <2>2. got[r] = Bytes(from[r], offset[r])
    BY Zenon, <1>1 DEF ReaderInv
  <2>3. Len(bytes[s]) = total[s] - dropped[s]
    BY Zenon, <2>1, BytesSeq
  <2> QED BY Zenon, <2>1, <2>2, <2>3
<1>4. d <= t /\ f <= o /\ o <= MaxTotal /\ t <= MaxTotal
    BY <1>3 DEF Shape, RingInv, ReaderInv
<1>5. End(s) = t
  <2>1. d + (t - d) = t
    BY <1>4
  <2> QED BY Zenon, <1>3, <2>1 DEF End
<1>6. RingInv' /\ EntryInv'
    BY Zenon, <1>1 DEF RingInv, EntryInv, OneProducer, ring, flags
<1>7. CASE UNCHANGED <<offset, got>> /\ \E l \in {"lost", "pending", "waiting"} :
                reader' = [reader EXCEPT ![r] = l]
  <2>1. Shape'
    BY Zenon, <1>1, <1>7 DEF Shape, ring, flags, Ended
  <2>2. ReaderInv'
    BY <1>1, <1>7 DEF Shape, ReaderInv, ring, flags
  <2> QED BY Zenon, <1>6, <2>1, <2>2
<1>8. CASE UNCHANGED <<offset, got>> /\ o >= t /\ done[s] /\ reader' = [reader EXCEPT ![r] = "complete"]
  <2>1. Shape'
    BY Zenon, <1>1, <1>8 DEF Shape, ring, flags, Ended
  <2>2. ReaderInv'
    BY Zenon, <1>1, <1>2, <1>3, <1>8 DEF Shape, ReaderInv, ring, flags
  <2> QED BY Zenon, <1>6, <2>1, <2>2
<1>9. CASE /\ d <= o /\ o < t
           /\ offset' = [offset EXCEPT ![r] = o + Len(Data(s, o))]
           /\ \/ got' = [got EXCEPT ![r] = Bytes(f, o) \o Data(s, o)] /\ UNCHANGED reader
              \/ reader' = [reader EXCEPT ![r] = "left"] /\ UNCHANGED got
  <2>0. d <= o /\ o <= t /\ o + (t - o) = t
    BY <1>9
  <2>1. SubSeq(Bytes(d, t), o - d + 1, t - d) = Bytes(o, t)
    BY Zenon, <2>0, BytesCut
  <2>2. Data(s, o) = Bytes(o, t)
    BY Zenon, <1>3, <1>5, <1>9, <2>1 DEF Data
  <2>3. Len(Bytes(o, t)) = t - o
    BY Zenon, <2>0, BytesSeq
  <2>4. Bytes(f, o) \o Bytes(o, t) = Bytes(f, t)
    BY Zenon, <1>4, <2>0, BytesJoin
  <2>5. offset' = [offset EXCEPT ![r] = t]
    BY Zenon, <1>9, <2>0, <2>2, <2>3
  <2>6. \/ got' = [got EXCEPT ![r] = Bytes(f, t)] /\ UNCHANGED reader
        \/ reader' = [reader EXCEPT ![r] = "left"] /\ UNCHANGED got
    BY Zenon, <1>9, <2>2, <2>4
  <2>7. Shape'
    BY <1>1, <1>4, <2>5, <2>6 DEF Shape, ring, flags, Ended
  <2>8. f <= t
    BY <1>4, <2>0
  <2>9. ReaderInv'
    BY SMTT(30), <1>1, <1>2, <1>3, <2>5, <2>6, <2>8 DEF Shape, ReaderInv, ring, flags
  <2> QED BY Zenon, <1>6, <2>7, <2>9
<1>10. CASE Changed(r)
    BY Zenon, <1>7, <1>10 DEF Changed, readers
<1>11. CASE Read(r)
  <2>1. CASE Lost(s, o)
    BY Zenon, <1>2, <1>3, <1>5, <1>7, <1>11, <2>1 DEF Read, Lost
  <2>2. CASE ~Lost(s, o) /\ o < End(s)
    BY SMTT(60), <1>2, <1>3, <1>5, <1>9, <1>11, <2>2 DEF Read, Lost
  <2>3. CASE ~Lost(s, o) /\ o >= End(s)
    BY SMTT(60), <1>2, <1>3, <1>5, <1>7, <1>8, <1>11, <2>3 DEF Read, Lost
  <2> QED BY <1>5, <2>1, <2>2, <2>3
<1> QED BY Zenon, <1>10, <1>11

LEMMA Invariance == StreamSpec => []Inv
<1>1. ASSUME Inv, StreamNext PROVE Inv'
    BY Zenon, <1>1, ManagerInv, AppendInv, EndInv, GetInv, ReadInv DEF StreamNext
<1>2. ASSUME Inv, UNCHANGED streamVars PROVE Inv'
    BY <1>2 DEF Inv, Shape, RingInv, ReaderInv, EntryInv, OneProducer,
                streamVars, ring, flags, readers
<1> QED BY InitInv, <1>1, <1>2, PTL DEF StreamSpec

(* resumable_stream_get for any ring size and any sizes of frames: the     *)
(* client is sent its stream from the offset it asked for without a gap or *)
(* a repetition, and all of it when the response ends as complete.         *)
THEOREM ExactStreams == StreamSpec => []StreamExact
<1>1. Inv => StreamExact
  <2> SUFFICES ASSUME Inv PROVE Replay /\ CompleteAtEnd
    BY Zenon DEF StreamExact
  <2> QED BY Zenon DEF Inv, ReaderInv, Replay, CompleteAtEnd, Bytes
<1> QED BY <1>1, Invariance, PTL

(* The manager's create_or_replace, evict_and_cancel and gc leave at most  *)
(* one stream of an id that still takes bytes: the registered one.         *)
THEOREM SingleProducer == StreamSpec => []OneProducer
<1>1. Inv => OneProducer
    BY Zenon DEF Inv, EntryInv
<1> QED BY <1>1, Invariance, PTL
=============================================================================
