-------------------------- MODULE StatePublication --------------------------
(***************************************************************************)
(* The cross-owner publication gate of neocortex/persistence/              *)
(* state_publication.py: an append-only journal, an atomically replaced    *)
(* epoch pointer and immutable content manifests, written under one flock  *)
(* and read without any lock.  A producer prepares a publication, changes  *)
(* its owners (independent SQLite files) and commits; a process may crash  *)
(* or meet an I/O error at every step in between, and a later process      *)
(* resumes, aborts or checkpoints what it left behind.                     *)
(***************************************************************************)
EXTENDS Integers, Sequences, FiniteSets

CONSTANTS
    Procs,         \* processes that read the gate and call the API
    Keys,          \* idempotency digests callers use (operation, owners, key)
    OpOf,          \* the operation of each key
    OwnersOf,      \* the owners of each key
    Owners,        \* owner databases
    Semantic,      \* the Semantic owner, the only one a restart may cover
    Digests,       \* input manifest digests (manifest_sha256)
    None,          \* the absent value
    Serialised,    \* TRUE: every caller holds FrameworkRunLock, as src/ does
    AppendFaults,  \* how an append may fail: see AppendFails
    MaxEvents,     \* bound: no new prepare once this many ids are allocated
    MaxIds,        \* bound: ids allocated in one behaviour, resolutions included
    MaxRevision,   \* bound: last revision an owner is written to
    MaxFaults,     \* bound: I/O errors in one behaviour
    MaxCrashes     \* bound: process crashes in one behaviour

ASSUME ConstantsAssumption ==
    /\ OwnersOf \in [Keys -> SUBSET Owners]
    /\ Semantic \in Owners
    /\ Serialised \in BOOLEAN
    /\ None \notin Procs
    /\ \A k \in Keys : k[1] = "call"
    /\ AppendFaults \subseteq {"lost", "unsynced", "torn", "unterminated"}
    /\ MaxEvents \in Nat /\ MaxIds \in Nat /\ MaxRevision \in Nat
    /\ MaxFaults \in Nat /\ MaxCrashes \in Nat

VARIABLES
    journal,    \* readable records of state-publication-journal.jsonl
    tail,       \* its last line: "closed", "open" (no newline) or "broken"
    pointer,    \* the epoch pointer file: a complete record, or None
    manifests,  \* content manifest files, by the record they attest
    owner,      \* the real head revision of every owner database
    drifted,    \* owners a direct (unpublished) index moved since publication
    lock,       \* holder of the publication flock
    runLock,    \* holder of FrameworkRunLock
    pc,         \* the step a process is at
    obs,        \* what a lock-free observation has read so far
    seen,       \* the last view a process obtained
    saw,        \* the owner heads a process captured
    tx,         \* StatePublicationTransaction: the prepared record held
    pub,        \* records a writer under the flock is about to expose
    clock,      \* event ids allocated so far (time_ns)
    faults,     \* I/O errors so far
    crashes     \* crashes so far

files == <<journal, tail, pointer, manifests>>
world == <<owner, drifted>>
locks == <<lock, runLock>>
local == <<pc, obs, seen, saw, tx, pub>>
count == <<clock, faults, crashes>>
vars  == <<files, world, locks, local, count>>

-----------------------------------------------------------------------------
(* Records and what the readers compute from them. *)

AllSemantic == "framework-all-semantic"
CacheSync   == "document-cache-sync"

Revision == 0 .. MaxRevision
NoHeads  == [o \in {} |-> 0]
Heads    == UNION {[S -> Revision] : S \in SUBSET Owners}
Digest   == Digests \cup {None}

HeadsOf(h, S) == [o \in S |-> h[o]]

\* _idempotency_digest: a caller's digest, or the one a restart derives.
RestartKey(event, epoch, heads) == <<"restart", event, epoch, heads>>
RestartKeys == {"restart"} \X Nat \X Nat \X Heads
AllKeys     == Keys \cup RestartKeys
Op(k)       == IF k[1] = "call" THEN OpOf[k] ELSE "framework-all-restart-checkpoint"
Scope(k)    == IF k[1] = "call" THEN OwnersOf[k] ELSE {Semantic}

Record ==
    [id : Nat, epoch : Nat, key : AllKeys,
     status : {"complete", "partial", "failed"}, heads : Heads, digest : Digest]

\* The absent value is no event id and no record.
ASSUME NoneAssumption == None \notin Nat /\ None \notin Record

Completes(j) == {i \in DOMAIN j : j[i].status = "complete"}

\* max(complete, key=(epoch, created_ns)): the epoch the journal proves.
NotAfter(r, s) == r.epoch < s.epoch \/ (r.epoch = s.epoch /\ r.id <= s.id)

Newest(j) ==
    CHOOSE i \in Completes(j) : \A n \in Completes(j) : NotAfter(j[n], j[i])

EpochOf(j) == IF Completes(j) = {} THEN 0 ELSE j[Newest(j)].epoch

\* Keys whose latest record is partial (latest_by_key, then the filter).
Pending(j) ==
    {i \in DOMAIN j : /\ j[i].status = "partial"
                      /\ \A n \in DOMAIN j : n > i => j[n].key # j[i].key}

\* The latest record of a key: one, or none.
LatestOf(j, k) ==
    {j[i] : i \in {n \in DOMAIN j : /\ j[n].key = k
                                    /\ \A m \in DOMAIN j : m > n => j[m].key # k}}

\* _state_epoch_from_observation accepts a pointer that is behind the
\* journal or equal to its newest complete record, and no other.
PointerFits(ptr, j) ==
    ptr # None =>
        /\ Completes(j) # {}
        /\ ptr.epoch < j[Newest(j)].epoch \/ ptr = j[Newest(j)]

\* _read_content_manifest_for_publication
Authentic(r) == r.heads = NoHeads \/ r \in manifests

\* The whole-file checks every operation makes before it decides.
Readable == tail # "broken" /\ PointerFits(pointer, journal)

\* read_state_publication_state on what an observation has read.
ViewOf(ptr, j, broken) ==
    IF broken \/ ~PointerFits(ptr, j)
    THEN [status |-> "error", epoch |-> 0, event |-> 0, pending |-> {}]
    ELSE [status  |-> IF Pending(j) # {} THEN "blocked"
                      ELSE IF Completes(j) = {} THEN "absent"
                      ELSE IF Authentic(j[Newest(j)]) THEN "complete"
                      ELSE "inconsistent",
          epoch   |-> EpochOf(j),
          event   |-> IF Completes(j) = {} THEN 0 ELSE j[Newest(j)].id,
          pending |-> {j[i].id : i \in Pending(j)}]

View == ViewOf(pointer, journal, tail = "broken")

-----------------------------------------------------------------------------
Init ==
    /\ journal = <<>> /\ tail = "closed" /\ pointer = None /\ manifests = {}
    /\ owner = [o \in Owners |-> 0] /\ drifted = {}
    /\ lock = None /\ runLock = None
    /\ pc = [p \in Procs |-> "idle"]
    /\ obs = [p \in Procs |-> None]
    /\ seen = [p \in Procs |-> None]
    /\ saw = [p \in Procs |-> None]
    /\ tx = [p \in Procs |-> None]
    /\ pub = [p \in Procs |-> <<>>]
    /\ clock = 0 /\ faults = 0 /\ crashes = 0

-----------------------------------------------------------------------------
(* Sessions: FrameworkRunLock is taken without waiting and dropped at exit; *)
(* whoever takes it reads the gate again before acting on it.               *)

InSession(p) == ~Serialised \/ runLock = p

StartSession(p) ==
    /\ Serialised /\ runLock = None /\ pc[p] = "idle"
    /\ runLock' = p
    /\ seen' = [seen EXCEPT ![p] = None]
    /\ UNCHANGED <<files, world, lock, pc, obs, saw, tx, pub, count>>

\* The caller returns; an unresolved prepare stays in the journal.
EndSession(p) ==
    /\ runLock = p /\ pc[p] = "idle"
    /\ runLock' = None
    /\ seen' = [seen EXCEPT ![p] = None]
    /\ saw' = [saw EXCEPT ![p] = None]
    /\ tx' = [tx EXCEPT ![p] = None]
    /\ UNCHANGED <<files, world, lock, pc, obs, pub, count>>

\* A killed process loses its memory and both flocks, never a file.
Crash(p) ==
    /\ crashes < MaxCrashes
    /\ crashes' = crashes + 1
    /\ lock' = IF lock = p THEN None ELSE lock
    /\ runLock' = IF runLock = p THEN None ELSE runLock
    /\ pc' = [pc EXCEPT ![p] = "idle"]
    /\ obs' = [obs EXCEPT ![p] = None]
    /\ seen' = [seen EXCEPT ![p] = None]
    /\ saw' = [saw EXCEPT ![p] = None]
    /\ tx' = [tx EXCEPT ![p] = None]
    /\ pub' = [pub EXCEPT ![p] = <<>>]
    /\ UNCHANGED <<files, world, clock, faults>>

-----------------------------------------------------------------------------
(* The lock-free observation: fences, pointer, journal, fences again. *)

\* _publication_file_fence of both files: the pointer is replaced by a new
\* inode for every epoch, the journal grows with every write to it.
Fence == <<pointer, Len(journal), tail>>

ObserveFences(p) ==
    /\ pc[p] = "idle" /\ InSession(p)
    /\ pc' = [pc EXCEPT ![p] = "fenced"]
    /\ obs' = [obs EXCEPT ![p] = [fence |-> Fence, ptr |-> None, len |-> 0, broken |-> FALSE]]
    /\ seen' = [seen EXCEPT ![p] = None]
    /\ UNCHANGED <<files, world, locks, saw, tx, pub, count>>

ObservePointer(p) ==
    /\ pc[p] = "fenced"
    /\ pc' = [pc EXCEPT ![p] = "pointed"]
    /\ obs' = [obs EXCEPT ![p].ptr = pointer]
    /\ UNCHANGED <<files, world, locks, seen, saw, tx, pub, count>>

ObserveJournal(p) ==
    /\ pc[p] = "pointed"
    /\ pc' = [pc EXCEPT ![p] = "read"]
    /\ obs' = [obs EXCEPT ![p].len = Len(journal), ![p].broken = (tail = "broken")]
    /\ UNCHANGED <<files, world, locks, seen, saw, tx, pub, count>>

\* Mutant of SameFence: only the pointer file is fenced.
PointerFenceOnly(p) == obs[p].fence[1] = pointer

\* A changed fence is a StatePublicationConflictError: no view at all.
SameFence(p) == obs[p].fence = Fence

ObserveEnd(p) ==
    /\ pc[p] = "read"
    /\ pc' = [pc EXCEPT ![p] = "idle"]
    /\ seen' = [seen EXCEPT ![p] =
                   IF SameFence(p)
                   THEN ViewOf(obs[p].ptr, SubSeq(journal, 1, obs[p].len), obs[p].broken)
                   ELSE None]
    /\ obs' = [obs EXCEPT ![p] = None]
    /\ UNCHANGED <<files, world, locks, saw, tx, pub, count>>

-----------------------------------------------------------------------------
(* The owners.  A caller captures heads before it takes the flock and after *)
(* its own owner writes; what others do in between is up to the locks.      *)

CaptureHeads(p) ==
    /\ pc[p] = "idle" /\ InSession(p)
    /\ saw' = [saw EXCEPT ![p] = owner]
    /\ UNCHANGED <<files, world, locks, pc, obs, seen, tx, pub, count>>

\* The owner-local work between begin and commit.
OwnerWrite(p, o) ==
    /\ pc[p] = "idle" /\ InSession(p) /\ tx[p] # None
    /\ o \in Scope(tx[p].key) /\ owner[o] < MaxRevision
    /\ owner' = [owner EXCEPT ![o] = @ + 1]
    /\ saw' = [saw EXCEPT ![p] = None]
    /\ UNCHANGED <<files, drifted, locks, pc, obs, seen, tx, pub, count>>

\* database-restore puts the old files back before it aborts.
OwnerRevert(p) ==
    /\ pc[p] = "idle" /\ InSession(p) /\ tx[p] # None
    /\ Op(tx[p].key) # CacheSync
    /\ owner' = [o \in Owners |-> IF o \in DOMAIN tx[p].heads THEN tx[p].heads[o]
                                  ELSE owner[o]]
    /\ saw' = [saw EXCEPT ![p] = None]
    /\ UNCHANGED <<files, drifted, locks, pc, obs, seen, tx, pub, count>>

\* A direct semantic index: it moves the owner outside any publication, and
\* _validate_integrated_publication_token lets it run only past an open gate.
DirectIndex(p) ==
    /\ Serialised /\ runLock = p /\ pc[p] = "idle" /\ tx[p] = None
    /\ seen[p] # None /\ seen[p].status \in {"absent", "complete"}
    /\ owner[Semantic] < MaxRevision
    /\ owner' = [owner EXCEPT ![Semantic] = @ + 1]
    /\ drifted' = drifted \cup {Semantic}
    /\ saw' = [saw EXCEPT ![p] = None]
    /\ UNCHANGED <<files, locks, pc, obs, seen, tx, pub, count>>

-----------------------------------------------------------------------------
(* Operations under the publication flock.  Each one takes the flock, reads *)
(* journal and pointer and decides in one step: nobody else writes them     *)
(* meanwhile.  A refused call raises and changes nothing: it has no step.   *)

\* Mutant of Enter: the flock is not awaited.
EnterWithoutFlock(p) == pc[p] = "idle" /\ InSession(p) /\ Readable

Enter(p) == pc[p] = "idle" /\ InSession(p) /\ lock = None /\ Readable

\* Mutant of NewRecord: the epoch comes from the pointer file alone.
EpochFromPointer(k, status, heads, digest) ==
    [id |-> clock + 1,
     epoch |-> (IF pointer = None THEN 0 ELSE pointer.epoch)
               + (IF status = "complete" THEN 1 ELSE 0),
     key |-> k, status |-> status, heads |-> heads, digest |-> digest]

NewRecord(k, status, heads, digest) ==
    [id |-> clock + 1,
     epoch |-> EpochOf(journal) + (IF status = "complete" THEN 1 ELSE 0),
     key |-> k, status |-> status, heads |-> heads, digest |-> digest]

\* Mutant of Admissible: another key's open prepare is no conflict.
AdmitBesideOthers(k, status, heads, digest) ==
    \A prior \in LatestOf(journal, k) :
        prior.digest = digest /\ (prior.status = "complete" => prior.heads = heads)

\* The conflicts of record_state_publication that its arguments decide.
Admissible(k, status, heads, digest) ==
    /\ \A i \in Pending(journal) : journal[i].key = k
    /\ \A i \in Completes(journal) :
          (\A n \in Completes(journal) : n <= i) => Authentic(journal[i])
    /\ \A prior \in LatestOf(journal, k) :
          /\ prior.digest = digest
          /\ prior.status = "partial" =>
                /\ status # "failed"
                /\ status = "partial" => prior.heads = heads
                /\ status = "complete" => prior.heads = NoHeads \/ heads # NoHeads
          /\ prior.status = "complete" => prior.heads = heads

\* Mutant of Replayed: only a call with the same status is a retry.
ReplaySameStatus(k, status, heads) ==
    {prior \in LatestOf(journal, k) : prior.status = status /\ prior.heads = heads}

\* The record a call returns instead of appending another.
Replayed(k, status, heads) ==
    {prior \in LatestOf(journal, k) :
        prior.status = "complete" \/ (prior.status = status /\ prior.heads = heads)}

\* Hand the records to the write steps; ids come from the clock.
Expose(p, records, step) ==
    /\ lock' = p
    /\ pub' = [pub EXCEPT ![p] = records]
    /\ pc' = [pc EXCEPT ![p] = step]
    /\ clock' = clock + Len(records) /\ clock' <= MaxIds

Forget(p) == saw' = [saw EXCEPT ![p] = None] /\ seen' = [seen EXCEPT ![p] = None]

\* record_state_publication: either a replay or a new record.
RecordPublication(p, k, status, heads, digest) ==
    /\ Admissible(k, status, heads, digest)
    /\ \/ /\ \E prior \in Replayed(k, status, heads) :
                tx' = [tx EXCEPT ![p] = IF prior.status = "partial" THEN prior ELSE None]
          /\ UNCHANGED <<lock, pub, pc, clock>>
       \/ /\ Replayed(k, status, heads) = {}
          /\ Expose(p, <<NewRecord(k, status, heads, digest)>>,
                    IF status = "complete" /\ heads # NoHeads THEN "manifest" ELSE "append")
          /\ UNCHANGED tx
    /\ Forget(p)
    /\ UNCHANGED <<files, world, runLock, obs, faults, crashes>>

\* begin_state_publication, with the epoch the caller saw as the CAS token.
\* Cache synchronisation binds no heads; an old integrated run did not either.
Prepare(p, k, bound, digest) ==
    /\ Enter(p) /\ tx[p] = None /\ clock < MaxEvents
    /\ seen[p] # None /\ seen[p].epoch = EpochOf(journal)
    /\ bound => Op(k) # CacheSync /\ saw[p] # None
    /\ RecordPublication(p, k, "partial",
                         IF bound THEN HeadsOf(saw[p], Scope(k)) ELSE NoHeads, digest)

\* transaction.commit: the caller's final heads, the prepared event as guard.
\* The check of the heads is optional there; its only caller asks for it.
CommitBound(p) ==
    /\ Enter(p) /\ tx[p] # None /\ saw[p] # None /\ Op(tx[p].key) # CacheSync
    /\ tx[p].epoch = EpochOf(journal)
    /\ \E active \in LatestOf(journal, tx[p].key) :
          active.id = tx[p].id /\ active.status = "partial"
    /\ HeadsOf(saw[p], Scope(tx[p].key)) = HeadsOf(owner, Scope(tx[p].key))
    /\ RecordPublication(p, tx[p].key, "complete",
                         HeadsOf(saw[p], Scope(tx[p].key)), tx[p].digest)

\* Cache synchronisation completes its key without heads or event guard.
CommitUnbound(p) ==
    /\ Enter(p) /\ tx[p] # None /\ Op(tx[p].key) = CacheSync
    /\ tx[p].epoch = EpochOf(journal)
    /\ RecordPublication(p, tx[p].key, "complete", NoHeads, tx[p].digest)

\* A failed event recorded as evidence, never over an open prepare.
RecordFailed(p, k, digest) ==
    /\ Enter(p) /\ tx[p] = None /\ clock < MaxEvents
    /\ seen[p] # None /\ seen[p].epoch = EpochOf(journal)
    /\ RecordPublication(p, k, "failed", NoHeads, digest)

\* The pending record the caller saw, if it is still the latest of its key.
SeenPending(p) ==
    {i \in Pending(journal) : seen[p] # None /\ journal[i].id \in seen[p].pending}

Resolve(p, i, heads) ==
    /\ Expose(p, <<NewRecord(journal[i].key, "failed", heads, journal[i].digest)>>, "append")
    /\ Forget(p)
    /\ UNCHANGED <<files, world, runLock, obs, tx, faults, crashes>>

\* abort_state_publication: the heads the caller captured prove the rollback.
Abort(p) ==
    /\ Enter(p) /\ saw[p] # None
    /\ \E i \in SeenPending(p) :
          /\ seen[p].epoch = EpochOf(journal)
          /\ journal[i].heads # NoHeads
          /\ HeadsOf(saw[p], Scope(journal[i].key)) = journal[i].heads
          /\ Resolve(p, i, journal[i].heads)

\* Mutant of AbortUnbound: it also accepts a prepare that has a baseline.
AbortUnboundAny(p) ==
    /\ Enter(p) /\ Completes(journal) = {}
    /\ \E i \in SeenPending(p) : Resolve(p, i, NoHeads)

\* abort_unbound_state_publication: only before the first complete epoch.
AbortUnbound(p) ==
    /\ Enter(p)
    /\ \E i \in SeenPending(p) :
          /\ seen[p].epoch = EpochOf(journal)
          /\ EpochOf(journal) = 0 /\ Completes(journal) = {}
          /\ journal[i].heads = NoHeads
          /\ Resolve(p, i, NoHeads)

\* Mutant of ReconcileUnbound: the owners are not observed again.
ReconcileUnobserved(p) ==
    /\ Enter(p) /\ Completes(journal) # {} /\ Cardinality(Pending(journal)) = 1
    /\ LET current == journal[Newest(journal)]
       IN  \E i \in SeenPending(p) :
              /\ seen[p].epoch = current.epoch /\ current.heads # NoHeads
              /\ Op(journal[i].key) = AllSemantic /\ journal[i].heads = NoHeads
              /\ Scope(journal[i].key) = Scope(current.key)
              /\ Resolve(p, i, NoHeads)

\* reconcile_unbound_state_publication: fresh heads equal the published ones.
ReconcileUnbound(p) ==
    /\ Enter(p) /\ Completes(journal) # {}
    /\ LET current == journal[Newest(journal)]
       IN  /\ seen[p] # None
           /\ seen[p].epoch = current.epoch /\ seen[p].event = current.id
           /\ Authentic(current)
           /\ current.heads # NoHeads
           /\ Cardinality(Pending(journal)) = 1
           /\ \E i \in SeenPending(p) :
                 /\ Op(journal[i].key) = AllSemantic
                 /\ journal[i].heads = NoHeads
                 /\ journal[i].epoch = current.epoch
                 /\ journal[i].digest # None
                 /\ Scope(journal[i].key) = Scope(current.key)
                 /\ HeadsOf(owner, DOMAIN current.heads) = current.heads
                 /\ Resolve(p, i, NoHeads)

\* resume_state_publication: the exact prepared event becomes the handle.
Resume(p, k, digest) ==
    /\ Enter(p) /\ tx[p] = None
    /\ seen[p] # None /\ seen[p].epoch = EpochOf(journal)
    /\ Cardinality(Pending(journal)) = 1
    /\ \E i \in SeenPending(p) :
          /\ journal[i].key = k /\ Op(k) = AllSemantic
          /\ journal[i].digest = digest
          /\ journal[i].epoch = seen[p].epoch
          /\ tx' = [tx EXCEPT ![p] = journal[i]]
    /\ Completes(journal) # {} => Authentic(journal[Newest(journal)])
    /\ Forget(p)
    /\ UNCHANGED <<files, world, locks, pc, obs, pub, count>>

\* restart_state_publication_checkpoint up to the prepared replacement file:
\* the abandoned prepare and the checkpoint of the published Semantic head.
Restart(p) ==
    /\ Enter(p) /\ saw[p] # None
    /\ Cardinality(Pending(journal)) = 1
    /\ \E i \in SeenPending(p) :
          LET heads == HeadsOf(saw[p], {Semantic})
              epoch == EpochOf(journal)
          IN  /\ seen[p].epoch = epoch /\ journal[i].epoch = epoch
              /\ Op(journal[i].key) = AllSemantic
              /\ Scope(journal[i].key) \subseteq {Semantic}
              /\ Completes(journal) # {} =>
                    /\ Authentic(journal[Newest(journal)])
                    /\ Scope(journal[Newest(journal)].key) \subseteq {Semantic}
              /\ HeadsOf(owner, {Semantic}) = heads
              /\ Expose(p,
                    <<NewRecord(journal[i].key, "failed",
                                HeadsOf(saw[p], Scope(journal[i].key)), journal[i].digest),
                      [NewRecord(RestartKey(journal[i].id, epoch, heads),
                                 "complete", heads, None) EXCEPT !.id = clock + 2]>>,
                    "manifest")
    /\ Forget(p)
    /\ tx' = [tx EXCEPT ![p] = None]
    /\ UNCHANGED <<files, world, runLock, obs, faults, crashes>>

-----------------------------------------------------------------------------
(* The write steps, in the order the code takes them. *)

Last(s) == s[Len(s)]
Fault   == faults < MaxFaults /\ faults' = faults + 1

\* Mutant of Unlock: the flock outlives the call.
LeakLock(p) ==
    /\ pc' = [pc EXCEPT ![p] = "idle"]
    /\ pub' = [pub EXCEPT ![p] = <<>>]
    /\ UNCHANGED lock

Unlock(p) ==
    /\ lock' = None
    /\ pc' = [pc EXCEPT ![p] = "idle"]
    /\ pub' = [pub EXCEPT ![p] = <<>>]

\* Mutant of WriteManifest: a restart attests the failed record of its pair.
ManifestOfFirst(p) ==
    /\ pc[p] = "manifest"
    /\ manifests' = manifests \cup {pub[p][1]}
    /\ pc' = [pc EXCEPT ![p] = IF Len(pub[p]) = 1 THEN "append" ELSE "replace"]
    /\ UNCHANGED <<journal, tail, pointer, world, locks, obs, seen, saw, tx, pub, count>>

\* _write_content_manifest, durable before the journal names it.
WriteManifest(p) ==
    /\ pc[p] = "manifest"
    /\ manifests' = manifests \cup {Last(pub[p])}
    /\ pc' = [pc EXCEPT ![p] = IF Len(pub[p]) = 1 THEN "append" ELSE "replace"]
    /\ UNCHANGED <<journal, tail, pointer, world, locks, obs, seen, saw, tx, pub, count>>

\* A failure before the journal is touched: the caller keeps its handle.
ManifestFails(p) ==
    /\ pc[p] \in {"manifest", "replace"}
    /\ Fault /\ Unlock(p)
    /\ UNCHANGED <<files, world, runLock, obs, seen, saw, tx, clock, crashes>>

Published(r) ==
    drifted' = IF r.status = "complete" THEN drifted \ DOMAIN r.heads ELSE drifted

\* What the transaction object holds once record r is exposed.
Held(p, r) == tx' = [tx EXCEPT ![p] = IF r.status = "partial" THEN r ELSE None]

\* _append_journal.  It opens for append without looking at the last byte: a
\* record after an unterminated line shares that line with its predecessor.
AppendJournal(p) ==
    /\ pc[p] = "append"
    /\ LET r == Last(pub[p])
       IN  /\ \/ /\ tail = "closed"
                 /\ journal' = Append(journal, r)
                 /\ Published(r)
                 /\ UNCHANGED tail
              \/ /\ tail = "open"
                 /\ tail' = "broken"
                 /\ UNCHANGED <<journal, drifted>>
           /\ Held(p, r)
           /\ IF r.status = "complete"
              THEN pc' = [pc EXCEPT ![p] = "pointer"] /\ UNCHANGED <<lock, pub>>
              ELSE Unlock(p)
    /\ UNCHANGED <<pointer, manifests, owner, runLock, obs, seen, saw, count>>

\* Mutant of AppendFails: the caller keeps a handle it knows nothing about.
KeepHandle(p) ==
    /\ pc[p] = "append"
    /\ Fault /\ Unlock(p)
    /\ \/ UNCHANGED <<journal, drifted>>
       \/ /\ tail = "closed"
          /\ journal' = Append(journal, Last(pub[p])) /\ Published(Last(pub[p]))
    /\ UNCHANGED <<tail, pointer, manifests, owner, runLock, obs, seen, saw, tx, clock, crashes>>

\* Mutant of AppendFails: the pointer is written although the line is lost.
PointerAnyway(p) ==
    /\ pc[p] = "append" /\ Last(pub[p]).status = "complete"
    /\ Fault
    /\ pc' = [pc EXCEPT ![p] = "pointer"]
    /\ UNCHANGED <<files, world, locks, obs, seen, saw, tx, pub, clock, crashes>>

\* StatePublicationCommitError(durable=False): nothing, all or a part of the
\* line may be on disk; the caller must read the gate again.
AppendFails(p) ==
    /\ pc[p] = "append"
    /\ Fault /\ Unlock(p)
    /\ tx' = [tx EXCEPT ![p] = None]
    /\ \E fault \in AppendFaults :
          /\ IF tail = "closed" /\ fault \in {"unsynced", "unterminated"}
             THEN journal' = Append(journal, Last(pub[p])) /\ Published(Last(pub[p]))
             ELSE UNCHANGED <<journal, drifted>>
          /\ tail' = CASE fault = "lost" -> tail
                       [] fault = "torn" \/ tail = "open" -> "broken"
                       [] fault = "unterminated" -> "open"
                       [] OTHER -> "closed"
    /\ UNCHANGED <<pointer, manifests, owner, runLock, obs, seen, saw, clock, crashes>>

\* The restart swaps in the whole journal with both records, newline mended,
\* after it verified the heads a second time.
ReplaceJournal(p) ==
    /\ pc[p] = "replace"
    /\ Last(pub[p]).heads = HeadsOf(owner, {Semantic})
    /\ journal' = journal \o pub[p]
    /\ tail' = "closed"
    /\ Published(Last(pub[p]))
    /\ pc' = [pc EXCEPT ![p] = "pointer"]
    /\ UNCHANGED <<pointer, manifests, owner, locks, obs, seen, saw, tx, pub, count>>

\* The owner moved between the two verifications: conflict, nothing exposed.
ReplaceRefused(p) ==
    /\ pc[p] = "replace"
    /\ Last(pub[p]).heads # HeadsOf(owner, {Semantic})
    /\ Unlock(p)
    /\ UNCHANGED <<files, world, runLock, obs, seen, saw, tx, count>>

WritePointer(p) ==
    /\ pc[p] = "pointer"
    /\ pointer' = Last(pub[p])
    /\ Unlock(p)
    /\ UNCHANGED <<journal, tail, manifests, world, runLock, obs, seen, saw, tx, count>>

\* StatePublicationCommitError(durable=True): the journal stays authoritative.
PointerFails(p) ==
    /\ pc[p] = "pointer"
    /\ Fault /\ Unlock(p)
    /\ UNCHANGED <<files, world, runLock, obs, seen, saw, tx, clock, crashes>>

-----------------------------------------------------------------------------
Observe(p) ==
    ObserveFences(p) \/ ObservePointer(p) \/ ObserveJournal(p) \/ ObserveEnd(p)

Call(p) ==
    \/ \E k \in Keys, bound \in BOOLEAN, digest \in Digests : Prepare(p, k, bound, digest)
    \/ CommitBound(p) \/ CommitUnbound(p)
    \/ \E k \in Keys, digest \in Digests : RecordFailed(p, k, digest)
    \/ Abort(p) \/ AbortUnbound(p) \/ ReconcileUnbound(p) \/ Restart(p)
    \/ \E k \in Keys, digest \in Digests : Resume(p, k, digest)

Write(p) ==
    \/ WriteManifest(p) \/ AppendJournal(p) \/ WritePointer(p)
    \/ ReplaceJournal(p) \/ ReplaceRefused(p)

Fail(p) == ManifestFails(p) \/ AppendFails(p) \/ PointerFails(p) \/ Crash(p)

Next ==
    \E p \in Procs :
        \/ StartSession(p) \/ EndSession(p)
        \/ Observe(p)
        \/ CaptureHeads(p) \/ \E o \in Owners : OwnerWrite(p, o)
        \/ OwnerRevert(p) \/ DirectIndex(p)
        \/ Call(p) \/ Write(p) \/ Fail(p)

Spec == Init /\ [][Next]_vars

-----------------------------------------------------------------------------
(* Properties. *)

\* Every variable keeps its shape; only a process inside a write step holds
\* the publication flock, and it holds records to write.
TypeOK ==
    /\ journal \in Seq(Record)
    /\ tail \in {"closed", "open", "broken"}
    /\ pointer \in Record \cup {None}
    /\ manifests \subseteq Record
    /\ owner \in [Owners -> Revision] /\ drifted \subseteq Owners
    /\ lock \in Procs \cup {None} /\ runLock \in Procs \cup {None}
    /\ pc \in [Procs -> {"idle", "fenced", "pointed", "read",
                         "manifest", "append", "replace", "pointer"}]
    /\ saw \in [Procs -> [Owners -> Revision] \cup {None}]
    /\ tx \in [Procs -> Record \cup {None}]
    /\ pub \in [Procs -> Seq(Record)]
    /\ \A p \in Procs : pc[p] \in {"manifest", "append", "replace", "pointer"} <=> lock = p
    /\ clock \in Nat /\ faults \in 0 .. MaxFaults /\ crashes \in 0 .. MaxCrashes

\* An open prepare is the last record of the journal: no other publication,
\* abort or evidence event gets between a prepare and its resolution, so the
\* gate has at most one fence and the epoch it was opened at stays current.
FenceIsTail == Pending(journal) \subseteq {Len(journal)}

\* Epochs never repeat, skip or go back: the n-th complete record carries
\* epoch n and every other record the epoch that was current when it was
\* written, whatever crashed or failed in between.
EpochsConsecutive ==
    \A i \in DOMAIN journal :
        journal[i].epoch = Cardinality({n \in Completes(journal) : n <= i})

\* The pointer never runs ahead of the journal and never disagrees with it,
\* so no interruption makes _state_epoch_from_observation refuse a journal
\* that can be parsed.
PointerBacked ==
    tail # "broken" =>
        /\ PointerFits(pointer, journal)
        /\ pointer # None => \E i \in Completes(journal) : journal[i] = pointer

\* A complete record that binds heads finds its content manifest on disk, at
\* every step of every writer and after every crash: the view is never
\* "inconsistent".
ManifestBacked == \A i \in Completes(journal) : Authentic(journal[i])

\* Completion is idempotent by key: retries after uncertain outcomes, resumes
\* and restarts never publish the same key twice.
OncePerKey ==
    \A i, n \in Completes(journal) : journal[i].key = journal[n].key => i = n

\* While a caller may still change owners under its transaction, the fence
\* that blocks readers is up (tx is the open prepare of the journal).
HandleIsFenced ==
    \A p \in Procs : tx[p] # None /\ tail # "broken" =>
        \E i \in Pending(journal) : journal[i] = tx[p]

\* When the gate reports a complete epoch that binds owner heads, these are
\* the heads the owners really have, unless a direct index moved them since:
\* no interrupted, aborted or abandoned transaction shines through the gate.
GateCoherent ==
    View.status = "complete" =>
        LET heads == journal[Newest(journal)].heads
        IN  \A o \in DOMAIN heads \ drifted : owner[o] = heads[o]

\* A lock-free reader that gets a view gets the state of the gate at its
\* closing fence, although pointer and journal are read one after the other
\* while writers run.
FreshView ==
    [][\A p \in Procs :
          pc[p] = "read" /\ seen'[p] # None => seen'[p] = View]_vars

\* A prepare with a baseline leaves the journal's pending set only through a
\* complete record or with every one of its owners back at that baseline.
RollbackProven ==
    [][\A i \in Pending(journal) :
          /\ journal[i].heads # NoHeads
          /\ journal' # journal
          /\ Completes(journal') = Completes(journal)
          => HeadsOf(owner, DOMAIN journal[i].heads) = journal[i].heads]_vars

\* A publication call that returned success leaves a journal its readers can
\* parse: success is never reported for a record nobody will ever read.
AcknowledgedReadable ==
    [][\A p \in Procs : pc[p] = "append" /\ faults' = faults /\ crashes' = crashes
          /\ pc'[p] # "append" => tail' # "broken"]_vars

-----------------------------------------------------------------------------
(* The gate as its readers know it. *)

Gate == INSTANCE PublicationGate WITH
            NoFence <- None,
            epoch <- EpochOf(journal),
            heads <- IF Completes(journal) = {} THEN NoHeads
                     ELSE journal[Newest(journal)].heads,
            fence <- IF Pending(journal) = {} THEN None
                     ELSE journal[CHOOSE i \in Pending(journal) : TRUE].id

\* Journal, pointer, manifests, retries and crashes implement the gate: one
\* fence at a time, a new epoch only through a fence that was up, and nothing
\* else ever moves the epoch or its heads.
ImplementsGate == Gate!Spec
=============================================================================
