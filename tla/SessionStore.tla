---------------------------- MODULE SessionStore ----------------------------
(***************************************************************************)
(* One logical session of SessionStore: its record in memory, its bundle   *)
(* on disk, the stateful generations that mutate it under a revision       *)
(* check, a busy flag and an Idempotency-Key, and the save, restore and    *)
(* delete calls that run beside them.                                      *)
(*                                                                         *)
(* The content of a bundle is a version: every commit makes a new one, and *)
(* 0 is a session without committed state.  Calls that are refused change  *)
(* nothing.  A call that does file work between two critical sections is   *)
(* two or three steps.                                                     *)
(***************************************************************************)
EXTENDS Naturals, FiniteSets

CONSTANTS Workers,    \* threads running stateful generations
          Savers,     \* threads in save
          Restorers,  \* threads in restore
          Keys,       \* idempotency keys
          Bodies,     \* request_sha256 values
          IdemLimit,  \* remembered keys: 64 in the source
          MaxVersion, \* bound: commits explored
          MaxLives,   \* bound: records explored
          None

VARIABLES rec,     \* the Record, or None
          disk,    \* the saved bundle, or None
          work,    \* a worker's mutation, or None
          saving,  \* a saver's clone of the bundle, and whether it is written
          loading, \* a restorer's decrypted bundle
          version, \* the last version made
          life,    \* history: records put into the registry under this id
          commits  \* history: every commit that was accepted

vars == <<rec, disk, work, saving, loading, version, life, commits>>

Versions == 0..MaxVersion
Bundles == [rev : Versions, version : Versions]
Requests == [key : Keys, rev : Versions, body : Bodies]
Answers == [key : Keys, rev : Versions, body : Bodies, version : Versions]
Records == [rev : Versions, version : Versions, busy : BOOLEAN, saved : BOOLEAN,
            idem : SUBSET Answers]

Commits == [answer : Answers, parent : Versions, on : Versions, rev : Versions,
            born : Nat, life : Nat]

ASSUME StoreAssumption ==
    /\ IdemLimit \in Nat \ {0}
    /\ MaxVersion \in Nat
    /\ MaxLives \in Nat
    /\ None \notin Records

TypeOK ==
    /\ rec \in Records \cup {None}
    /\ disk \in Bundles \cup {None}
    /\ work \in [Workers -> [req : Requests, base : Versions, life : Nat] \cup {None}]
    /\ saving \in [Savers -> [bundle : Bundles, written : BOOLEAN] \cup {None}]
    /\ loading \in [Restorers -> Bundles \cup {None}]
    /\ version \in Versions
    /\ life \in Nat
    /\ commits \subseteq Commits

Init ==
    /\ rec = None
    /\ disk = None
    /\ work = [w \in Workers |-> None]
    /\ saving = [s \in Savers |-> None]
    /\ loading = [r \in Restorers |-> None]
    /\ version = 0
    /\ life = 0
    /\ commits = {}

Bundle == [rev |-> rec.rev, version |-> rec.version]

Create ==
    /\ rec = None
    /\ life < MaxLives
    /\ rec' = [rev |-> 0, version |-> 0, busy |-> FALSE, saved |-> FALSE, idem |-> {}]
    /\ life' = life + 1
    /\ UNCHANGED <<disk, work, saving, loading, version, commits>>

(* The saved bundle is left on disk.                                       *)
Delete ==
    /\ rec # None
    /\ ~rec.busy
    /\ rec' = None
    /\ UNCHANGED <<disk, work, saving, loading, version, life, commits>>

(* begin: Started.  A remembered key is replayed or refused instead.       *)
Begin(w, q) ==
    /\ work[w] = None
    /\ rec # None
    /\ \A a \in rec.idem : a.key # q.key
    /\ ~rec.busy
    /\ rec.rev = q.rev
    /\ rec' = [rec EXCEPT !.busy = TRUE]
    /\ work' = [work EXCEPT ![w] = [req |-> q, base |-> rec.version, life |-> life]]
    /\ UNCHANGED <<disk, saving, loading, version, life, commits>>

(* The generation fails: MutationGuard's drop calls abort(id), which       *)
(* clears whatever flag it finds.                                          *)
Abort(w) ==
    /\ work[w] # None
    /\ rec' = IF rec = None THEN None ELSE [rec EXCEPT !.busy = FALSE]
    /\ work' = [work EXCEPT ![w] = None]
    /\ UNCHANGED <<disk, saving, loading, version, life, commits>>

(* mutant: the flag alone is taken for the lease                           *)
HasFlag(w) == rec # None /\ rec.busy

HasLease(w) == rec # None /\ rec.busy /\ rec.rev = work[w].req.rev

Remembered == IF Cardinality(rec.idem) >= IdemLimit THEN {} ELSE rec.idem

(* mutant: the revision of the session does not move                       *)
CommitInPlace(w) ==
    /\ work[w] # None
    /\ HasLease(w)
    /\ version < MaxVersion
    /\ version' = version + 1
    /\ LET q == work[w].req
           a == [key |-> q.key, rev |-> q.rev, body |-> q.body, version |-> version']
       IN  /\ rec' = [rev |-> q.rev, version |-> version', busy |-> FALSE,
                      saved |-> FALSE, idem |-> Remembered \cup {a}]
           /\ commits' = commits \cup {[answer |-> a, parent |-> work[w].base,
                                        on |-> rec.version, rev |-> q.rev,
                                        born |-> work[w].life, life |-> life]}
    /\ work' = [work EXCEPT ![w] = None]
    /\ UNCHANGED <<disk, saving, loading, life>>

(* commit accepted: the guard is disarmed.                                 *)
Commit(w) ==
    /\ work[w] # None
    /\ HasLease(w)
    /\ version < MaxVersion
    /\ version' = version + 1
    /\ LET q == work[w].req
           a == [key |-> q.key, rev |-> q.rev, body |-> q.body, version |-> version']
       IN  /\ rec' = [rev |-> q.rev + 1, version |-> version', busy |-> FALSE,
                      saved |-> FALSE, idem |-> Remembered \cup {a}]
           /\ commits' = commits \cup {[answer |-> a, parent |-> work[w].base,
                                        on |-> rec.version, rev |-> q.rev + 1,
                                        born |-> work[w].life, life |-> life]}
    /\ work' = [work EXCEPT ![w] = None]
    /\ UNCHANGED <<disk, saving, loading, life>>

(* "session mutation lost its revision lease", and the guard aborts.       *)
CommitLost(w) ==
    /\ work[w] # None
    /\ ~HasLease(w)
    /\ rec' = IF rec = None THEN None ELSE [rec EXCEPT !.busy = FALSE]
    /\ work' = [work EXCEPT ![w] = None]
    /\ UNCHANGED <<disk, saving, loading, version, life, commits>>

SaveClone(s) ==
    /\ saving[s] = None
    /\ rec # None
    /\ ~rec.busy
    /\ rec.version # 0
    /\ saving' = [saving EXCEPT ![s] = [bundle |-> Bundle, written |-> FALSE]]
    /\ UNCHANGED <<rec, disk, work, loading, version, life, commits>>

SaveWrite(s) ==
    /\ saving[s] # None /\ ~saving[s].written
    /\ disk' = saving[s].bundle
    /\ saving' = [saving EXCEPT ![s].written = TRUE]
    /\ UNCHANGED <<rec, work, loading, version, life, commits>>

SaveMark(s) ==
    /\ saving[s] # None /\ saving[s].written
    /\ rec' = IF rec = None THEN None ELSE [rec EXCEPT !.saved = TRUE]
    /\ saving' = [saving EXCEPT ![s] = None]
    /\ UNCHANGED <<disk, work, loading, version, life, commits>>

RestoreRead(r) ==
    /\ loading[r] = None
    /\ disk # None
    /\ loading' = [loading EXCEPT ![r] = disk]
    /\ UNCHANGED <<rec, disk, work, saving, version, life, commits>>

(* restore replaces the record, a busy one too.                            *)
RestoreInstall(r) ==
    /\ loading[r] # None
    /\ life < MaxLives
    /\ rec' = [rev |-> loading[r].rev, version |-> loading[r].version, busy |-> FALSE,
               saved |-> TRUE, idem |-> {}]
    /\ loading' = [loading EXCEPT ![r] = None]
    /\ life' = life + 1
    /\ UNCHANGED <<disk, work, saving, version, commits>>

(* The process restarts: the registry is memory only.                      *)
Restart ==
    /\ rec' = None
    /\ work' = [w \in Workers |-> None]
    /\ saving' = [s \in Savers |-> None]
    /\ loading' = [r \in Restorers |-> None]
    /\ UNCHANGED <<disk, version, life, commits>>

Next ==
    \/ Create \/ Delete \/ Restart
    \/ \E w \in Workers : \/ \E q \in Requests : Begin(w, q)
                          \/ Abort(w) \/ Commit(w) \/ CommitLost(w)
    \/ \E s \in Savers : SaveClone(s) \/ SaveWrite(s) \/ SaveMark(s)
    \/ \E r \in Restorers : RestoreRead(r) \/ RestoreInstall(r)

Spec == Init /\ [][Next]_vars

-----------------------------------------------------------------------------
(* begin and commit, "revision conflicts or a busy session return 409": a  *)
(* commit is accepted only on top of the very state its generation began   *)
(* from, so no accepted generation is lost or built on, unless restore     *)
(* replaced the record in between (it does not look at the busy flag).     *)
LinearHistory == \A c \in commits : c.born = c.life => c.parent = c.on

(* Idempotency-Key: a request retried under its key is not generated       *)
(* twice on one record, even after the table of remembered keys was        *)
(* cleared for being full, because its expected revision is gone.          *)
IdempotentOnce ==
    \A c, d \in commits :
        /\ c.life = d.life
        /\ [c.answer EXCEPT !.version = 0] = [d.answer EXCEPT !.version = 0]
        => c = d

(* Saves, restores, crashes and lost leases notwithstanding, revisions     *)
(* count commits: a bundle at revision r + 1 was generated from one at r,  *)
(* and what memory, disk or a call in progress calls revision r is one.    *)
RevisionOf(v, r) == (v = 0 /\ r = 0) \/ \E c \in commits : c.answer.version = v /\ c.rev = r

RevisionChain ==
    /\ \A c \in commits : RevisionOf(c.parent, c.rev - 1)
    /\ rec # None => RevisionOf(rec.version, rec.rev)
    /\ disk # None => RevisionOf(disk.version, disk.rev)
=============================================================================
