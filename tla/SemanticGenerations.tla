------------------------ MODULE SemanticGenerations ------------------------
(***************************************************************************)
(* The generation control plane of neocortex/semantic/: a generation is a  *)
(* candidate snapshot of embedding members built from durable jobs that    *)
(* workers lease, embed and complete, and published by moving the head of  *)
(* its model.  Each repository call is one BEGIN IMMEDIATE transaction and *)
(* one action here.  The callers are indexing pipelines, workers and the   *)
(* staging of sources, in any interleaving; a worker may crash or lose its *)
(* leases at any step, and the sources change under all of them.           *)
(*                                                                         *)
(* One embedding model and the image modality are modelled: models share   *)
(* no rows, and a text chunk adds the publication of its chunk set.        *)
(***************************************************************************)
EXTENDS Integers, FiniteSets

CONSTANTS
    Entities,     \* semantic items, one embedding job each per generation
    Revs,         \* item revisions (path, provenance and content)
    ContentOf,    \* the content fingerprint of each revision
    Workers,      \* worker ids (process and generation)
    Signatures,   \* processing signatures
    Provenances,  \* generation provenances (their source heads)
    Covered,      \* the provenances whose source coverage is complete
    None,         \* the absent value
    MaxAttempts,  \* max_attempts of a job
    LeaseTicks,   \* length of a lease
    RetryTicks,   \* delay before a recoverable failure is retried
    Batch,        \* leases per claim
    MaxGens,      \* bound: generations in one behaviour
    MaxChanges,   \* bound: source changes in one behaviour
    MaxFaults     \* bound: failures, deadlines and crashes in one behaviour

ASSUME GenerationConstants ==
    /\ None \notin Revs /\ None \notin Workers /\ None \notin Entities
    /\ None \notin {ContentOf[r] : r \in Revs} /\ None \notin Nat
    /\ IsFiniteSet(Entities)
    /\ Covered \subseteq Provenances
    /\ MaxAttempts \in Nat \ {0} /\ LeaseTicks \in Nat \ {0} /\ Batch \in Nat \ {0}
    /\ RetryTicks \in Nat /\ MaxGens \in Nat /\ MaxChanges \in Nat /\ MaxFaults \in Nat

Gens     == 1 .. MaxGens
Contents == {ContentOf[r] : r \in Revs}

VARIABLES
    source,    \* the current revision of every active item, or None
    gens,      \* embedding_generations, by id
    jobs,      \* embedding_jobs, by generation and entity
    members,   \* embedding_generation_members: the revision a member binds
    payloads,  \* vector_payloads: the content a content's vector was made of
    head,      \* published_embedding_heads of the model
    work,      \* what each worker holds in memory
    changes,   \* source changes so far
    faults     \* failures so far

vars == <<source, gens, jobs, members, payloads, head, work, changes, faults>>

-----------------------------------------------------------------------------
(* Rows. *)

Status == {"absent", "building", "ready", "ready_partial", "failed", "elided"}

\* cloned is base_clone_complete, scanned the base members its clone cursor
\* has passed, enumerated the cursor's enumeration_complete; cloning says a
\* process is inside _clone_published_members.
Generation ==
    [status : Status, sig : Signatures \cup {None}, prov : Provenances \cup {None},
     base : Gens \cup {None}, cloned : BOOLEAN, cloning : BOOLEAN,
     scanned : SUBSET Entities, enumerated : BOOLEAN]

NoGeneration ==
    [status |-> "absent", sig |-> None, prov |-> None, base |-> None, cloned |-> FALSE,
     cloning |-> FALSE, scanned |-> {}, enumerated |-> FALSE]

\* ttl counts down to lease_until_ns and wait to available_ns; dirty is the
\* source_dirty hint.
Job ==
    [status : {"pending", "leased", "done", "error", "stale"}, attempts : 0 .. MaxAttempts,
     content : Contents, owner : Workers \cup {None}, ttl : 0 .. LeaseTicks,
     wait : 0 .. RetryTicks, dirty : BOOLEAN]

Lease == [entity : Entities, content : Contents]

\* mode "embed": inference runs and the heartbeat thread keeps the leases;
\* "record": its outcomes are being recorded; "release" and "deadline": the
\* leases are being given back; drop is a mismatched lease whose source is
\* still to be deactivated.
Memory ==
    [mode : {"idle", "embed", "record", "release", "deadline"}, gen : Gens \cup {None},
     todo : SUBSET Lease, drop : Lease \cup {None}]

Idle == [mode |-> "idle", gen |-> None, todo |-> {}, drop |-> None]

Building(g) == gens[g].status = "building"
Unfinished(j) == j # None /\ j.status \in {"pending", "leased"}

\* _current_job_matches_source and _job_is_current
Current(e, j) == source[e] # None /\ ContentOf[source[e]] = j.content

\* A terminal status; embedding_jobs_control_update clears the hint.
Closed(j, status) ==
    [j EXCEPT !.status = status, !.owner = None, !.ttl = 0, !.wait = 0, !.dirty = FALSE]

\* Back to pending from a lease: the status changed, so the hint is set.
Pending(j, attempts, wait) ==
    [j EXCEPT !.status = "pending", !.attempts = attempts, !.owner = None, !.ttl = 0,
              !.wait = wait, !.dirty = TRUE]

\* _mark_stale_jobs: only hinted jobs unless full (reconcile=True).
MarkStale(J, full) ==
    [e \in Entities |->
        IF ~Unfinished(J[e]) THEN J[e]
        ELSE IF Current(e, J[e]) THEN [J[e] EXCEPT !.dirty = FALSE]
        ELSE IF full \/ J[e].dirty THEN Closed(J[e], "stale")
        ELSE J[e]]

\* Mutant of Held: any live lease of the job will do.
HeldByAnyone(w, g, l) ==
    LET j == jobs[g][l.entity]
    IN  j # None /\ j.status = "leased" /\ j.ttl > 0

\* The row of a lease is still leased to w, and its lease has not expired.
Held(w, g, l) ==
    LET j == jobs[g][l.entity]
    IN  j # None /\ j.status = "leased" /\ j.owner = w /\ j.ttl > 0

-----------------------------------------------------------------------------
(* Sources. *)

\* Mutant of Dirtied: the trigger compares the content and not the activity.
ContentDirtied(e, r) ==
    [g \in Gens |->
        IF \/ source[e] = None \/ r = None \/ ~Unfinished(jobs[g][e])
           \/ ContentOf[source[e]] = ContentOf[r]
        THEN jobs[g] ELSE [jobs[g] EXCEPT ![e].dirty = TRUE]]

\* The semantic_items triggers: a change of content or activity sets the
\* hint of every unfinished job of the item, in every generation.
Dirtied(e, r) ==
    LET same == \/ source[e] = r
                \/ /\ source[e] # None /\ r # None
                   /\ ContentOf[source[e]] = ContentOf[r]
    IN  [g \in Gens |->
            IF same \/ ~Unfinished(jobs[g][e]) THEN jobs[g]
            ELSE [jobs[g] EXCEPT ![e].dirty = TRUE]]

\* stage_semantic_items (r a revision) and the deactivation of an item that
\* a refresh no longer saw (r = None).
StageItem(e, r) ==
    /\ changes < MaxChanges /\ r # source[e]
    /\ source' = [source EXCEPT ![e] = r]
    /\ jobs' = Dirtied(e, r)
    /\ changes' = changes + 1
    /\ UNCHANGED <<gens, members, payloads, head, work, faults>>

-----------------------------------------------------------------------------
(* A generation is started, filled and prepared. *)

\* _record_generation_failure and _mark_generation_head_conflict; a process
\* that was cloning finds the status changed at its next page and stops.
Failed(rec) == [rec EXCEPT !.status = "failed", !.cloning = FALSE]

\* _fail_empty_superseded_generations
Superseded(sig) ==
    {g \in Gens : /\ Building(g) /\ gens[g].sig # sig /\ ~gens[g].cloned
                  /\ \A e \in Entities : members[g][e] = None /\ jobs[g][e] = None}

\* The building generation a caller can go on with.
Resumable(sig, prov) ==
    {g \in Gens : /\ Building(g) /\ gens[g].sig = sig
                  /\ gens[g].base = head /\ gens[g].prov = prov}

\* Mutant of Displaced: an incompatible candidate is left building.
DisplaceEmpty(sig, prov) == Superseded(sig)

\* The generations a start closes: empty ones of other signatures, and its
\* own when the head moved or the provenance changed.
Displaced(sig, prov) ==
    Superseded(sig)
        \cup ({g \in Gens : Building(g) /\ gens[g].sig = sig} \ Resumable(sig, prov))

\* start_embedding_generation with materialize_base=False: resume the
\* building generation of the signature, or close it and insert a new one.
Start(sig, prov) ==
    LET new   == [NoGeneration EXCEPT !.status = "building", !.sig = sig, !.prov = prov,
                                      !.base = head, !.cloned = (head = None)]
        after == [g \in Gens |->
                     IF g \in Displaced(sig, prov) THEN Failed(gens[g]) ELSE gens[g]]
    IN  /\ \/ /\ Resumable(sig, prov) # {}
              /\ gens' = after
           \/ /\ Resumable(sig, prov) = {}
              /\ \E g \in Gens :
                    /\ gens[g].status = "absent"
                    /\ \A h \in 1 .. g - 1 : gens[h].status # "absent"
                    /\ gens' = [after EXCEPT ![g] = new]
        /\ UNCHANGED <<source, jobs, members, payloads, head, work, changes, faults>>

\* update_embedding_generation_cursor: the pipelines clear the flag when
\* they (re)start enumerating and set it when every source was enumerated.
SetCursor(g, complete) ==
    /\ Building(g) /\ ~gens[g].cloning /\ gens[g].enumerated # complete
    /\ gens' = [gens EXCEPT ![g].enumerated = complete]
    /\ UNCHANGED <<source, jobs, members, payloads, head, work, changes, faults>>

\* _queue_generation_members: the candidate's own, or the base's until cloned.
QueueMember(g, e) ==
    IF members[g][e] = None /\ ~gens[g].cloned /\ gens[g].base # None
    THEN members[gens[g].base][e] ELSE members[g][e]

\* The job row after the upsert and _reset_queue_jobs_pending; its hint is
\* set by the triggers unless the row was pending for this content already.
Queued(prior, c) ==
    [status |-> "pending", attempts |-> 0, content |-> c, owner |-> None, ttl |-> 0,
     wait |-> 0,
     dirty |-> \/ prior = None \/ prior.status # "pending" \/ prior.content # c
               \/ prior.dirty]

\* Mutant of Rebound: the member is updated where it was found.
ReboundInPlace(g, e, r) ==
    IF members[g][e] = None THEN [members EXCEPT ![gens[g].base][e] = r]
    ELSE [members EXCEPT ![g][e] = r]

\* _rebind_generation_member: the candidate binds its content to revision r.
Rebound(g, e, r) == [members EXCEPT ![g][e] = r]

\* enqueue_image_item_jobs_bounded for one item: reuse or rebind a member
\* of the same content, or queue a job.
Enqueue(g, e) ==
    LET r     == source[e]
        m     == QueueMember(g, e)
        prior == jobs[g][e]
        reuse == m # None /\ ContentOf[m] = ContentOf[r]
    IN  /\ Building(g) /\ ~gens[g].enumerated /\ ~gens[g].cloning
        /\ r # None
        /\ jobs' = [jobs EXCEPT ![g][e] =
              IF ~reuse THEN Queued(prior, ContentOf[r])
              ELSE IF prior = None THEN None ELSE Closed(prior, "done")]
        /\ members' = IF reuse /\ m # r THEN Rebound(g, e, r) ELSE members
        /\ UNCHANGED <<source, gens, payloads, head, work, changes, faults>>

\* Mutant of Obsolete: only members of inactive sources.
Orphaned(M) == {e \in Entities : M[e] # None /\ source[e] = None}

\* _count_obsolete_generation_members / _remove_obsolete_candidate_members:
\* members that no longer match an active source.
Obsolete(M) ==
    {e \in Entities : /\ M[e] # None
                      /\ source[e] = None \/ ContentOf[source[e]] # ContentOf[M[e]]}

\* prepare_embedding_generation up to its decision.
Prepare(g) ==
    LET base   == gens[g].base
        noJobs == \A e \in Entities : jobs[g][e] = None
        exact  == /\ gens[base].sig = gens[g].sig /\ gens[base].prov = gens[g].prov
                  /\ noJobs /\ \A e \in Entities : members[g][e] = None
                  /\ Obsolete(members[base]) = {}
    IN  /\ Building(g) /\ ~gens[g].cloning
        /\ \/ /\ base # head
              /\ gens' = [gens EXCEPT ![g] = Failed(@)]
           \/ /\ base = head /\ ~gens[g].cloned /\ gens[g].enumerated /\ exact
              /\ gens' = [gens EXCEPT ![g].status = "elided"]
           \/ /\ base = head /\ ~gens[g].cloned
              /\ IF gens[g].enumerated THEN ~exact ELSE ~noJobs
              /\ gens' = [gens EXCEPT ![g].cloning = TRUE]
        /\ UNCHANGED <<source, jobs, members, payloads, head, work, changes, faults>>

\* One page of _clone_published_members (of one row): a base member is
\* copied unless the candidate has a job or a member for its entity.
ClonePage(g, e) ==
    /\ gens[g].cloning
    /\ members[gens[g].base][e] # None /\ e \notin gens[g].scanned
    /\ members' = IF jobs[g][e] = None /\ members[g][e] = None
                  THEN [members EXCEPT ![g][e] = members[gens[g].base][e]]
                  ELSE members
    /\ gens' = [gens EXCEPT ![g].scanned = @ \cup {e}]
    /\ UNCHANGED <<source, jobs, payloads, head, work, changes, faults>>

\* _finish_base_clone
CloneFinish(g) ==
    /\ gens[g].cloning
    /\ \A e \in Entities : members[gens[g].base][e] # None => e \in gens[g].scanned
    /\ gens' = [gens EXCEPT ![g].cloned = TRUE, ![g].cloning = FALSE]
    /\ UNCHANGED <<source, jobs, members, payloads, head, work, changes, faults>>

\* The deadline or a crash stops the clone between two pages.
CloneStops(g) ==
    /\ gens[g].cloning /\ faults < MaxFaults
    /\ gens' = [gens EXCEPT ![g].cloning = FALSE]
    /\ faults' = faults + 1
    /\ UNCHANGED <<source, jobs, members, payloads, head, work, changes>>

\* invalidate_embedding_generations_for_source_change
Invalidate(g) ==
    /\ Building(g) /\ changes < MaxChanges
    /\ gens' = [gens EXCEPT ![g] = Failed(@)]
    /\ changes' = changes + 1
    /\ UNCHANGED <<source, jobs, members, payloads, head, work, faults>>

-----------------------------------------------------------------------------
(* Workers. *)

\* Mutant of CacheHits: the cache hint is not matched with a payload.
HitsWithoutPayload(J) ==
    {e \in Entities : J[e] # None /\ J[e].status = "pending" /\ Current(e, J[e])}

\* The current pending jobs whose content has a payload already.
CacheHits(J) ==
    {e \in Entities : /\ J[e] # None /\ J[e].status = "pending"
                      /\ payloads[J[e].content] # None /\ Current(e, J[e])}

\* reuse_cached_jobs: attach existing payloads.
ReuseCached(g) ==
    LET J    == MarkStale(jobs[g], FALSE)
        hits == CacheHits(J)
    IN  /\ Building(g) /\ gens[g].cloned
        /\ jobs' = [jobs EXCEPT ![g] =
              [e \in Entities |-> IF e \in hits THEN Closed(J[e], "done") ELSE J[e]]]
        /\ members' = [members EXCEPT ![g] =
              [e \in Entities |-> IF e \in hits THEN source[e] ELSE members[g][e]]]
        /\ UNCHANGED <<source, gens, payloads, head, work, changes, faults>>

\* Mutant of Reconciled: an expired lease is always retried.
AlwaysRetried(J) ==
    [e \in Entities |->
        IF J[e] = None \/ J[e].status # "leased" \/ J[e].ttl > 0 THEN J[e]
        ELSE Pending(J[e], J[e].attempts, 0)]

\* Mutant of Reconciled: expired leases are left to their owners.
LeftLeased(J) == J

\* _reconcile_expired_embedding_leases
Reconciled(J) ==
    [e \in Entities |->
        IF J[e] = None \/ J[e].status # "leased" \/ J[e].ttl > 0 THEN J[e]
        ELSE IF J[e].attempts < MaxAttempts THEN Pending(J[e], J[e].attempts, 0)
        ELSE Closed(J[e], "error")]

\* Mutant of Claimable: a content that is leased already may be claimed.
ClaimableTwice(J) ==
    {e \in Entities :
        /\ J[e] # None /\ J[e].status = "pending" /\ J[e].attempts < MaxAttempts
        /\ J[e].wait = 0 /\ Current(e, J[e])}

\* _lease_rows: pending, due and current jobs whose content nobody embeds.
Claimable(J) ==
    {e \in Entities :
        /\ J[e] # None /\ J[e].status = "pending" /\ J[e].attempts < MaxAttempts
        /\ J[e].wait = 0 /\ Current(e, J[e])
        /\ \A f \in Entities :
              J[f] # None /\ J[f].status = "leased" => J[f].content # J[e].content}

\* Up to Batch claimable jobs, one per content; job_id order is abstracted.
Claims(J) ==
    {S \in SUBSET Claimable(J) :
        /\ Cardinality(S) <= Batch
        /\ \A e, f \in S : e # f => J[e].content # J[f].content
        /\ \/ Cardinality(S) = Batch
           \/ \A e \in Claimable(J) : \E f \in S : J[f].content = J[e].content}

\* claim_embedding_jobs; run_generation calls it once the base is cloned.
\* The reconciliation is committed even when nothing is leased.
Claim(w, g) ==
    LET J == MarkStale(Reconciled(jobs[g]), FALSE)
    IN  /\ work[w].mode = "idle" /\ Building(g) /\ gens[g].cloned
        /\ \E S \in Claims(J) :
              /\ jobs' = [jobs EXCEPT ![g] = [e \in Entities |->
                    IF e \in S
                    THEN [J[e] EXCEPT !.status = "leased", !.attempts = @ + 1, !.owner = w,
                                      !.ttl = LeaseTicks, !.dirty = TRUE]
                    ELSE J[e]]]
              /\ work' = [work EXCEPT ![w] =
                    IF S = {} THEN Idle
                    ELSE [mode |-> "embed", gen |-> g, drop |-> None,
                          todo |-> {[entity |-> e, content |-> J[e].content] : e \in S}]]
        /\ UNCHANGED <<source, gens, members, payloads, head, changes, faults>>

\* Mutant of Extended: the lease grows by a whole lease at each beat.
Accumulated(j) == [j EXCEPT !.ttl = @ + LeaseTicks]

\* The lease of a held job runs from now again.
Extended(j) == [j EXCEPT !.ttl = LeaseTicks]

\* heartbeat_embedding_jobs: all leases or none; a failure surfaces after
\* inference and gives the batch back.
Heartbeat(w) ==
    LET g == work[w].gen
        mine == {l.entity : l \in work[w].todo}
    IN  /\ work[w].mode = "embed"
        /\ \/ /\ \A l \in work[w].todo : Held(w, g, l)
              /\ jobs' = [jobs EXCEPT ![g] = [e \in Entities |->
                    IF e \in mine THEN Extended(jobs[g][e]) ELSE jobs[g][e]]]
              /\ UNCHANGED work
           \/ /\ \E l \in work[w].todo : ~Held(w, g, l)
              /\ work' = [work EXCEPT ![w].mode = "release"]
              /\ UNCHANGED jobs
        /\ UNCHANGED <<source, gens, members, payloads, head, changes, faults>>

\* embed_requests_isolated returns.
Embedded(w) ==
    /\ work[w].mode = "embed"
    /\ work' = [work EXCEPT ![w].mode = "record"]
    /\ UNCHANGED <<source, gens, jobs, members, payloads, head, changes, faults>>

\* Inference is interrupted (release) or meets the work deadline.
Interrupted(w) ==
    /\ work[w].mode = "embed" /\ faults < MaxFaults
    /\ \E mode \in {"release", "deadline"} : work' = [work EXCEPT ![w].mode = mode]
    /\ faults' = faults + 1
    /\ UNCHANGED <<source, gens, jobs, members, payloads, head, changes>>

\* fail_embedding_job on a lease that is held.
FailedJob(j, retryable, delay) ==
    IF retryable /\ j.attempts < MaxAttempts
    THEN Pending(j, j.attempts, delay) ELSE Closed(j, "error")

\* _record_embedding_failures for one lease: an I/O error is retried later,
\* any other is terminal, and a source mismatch also drops the source.  A
\* lost lease raises, and the batch is given back.
RecordFailure(w, l, kind) ==
    LET g == work[w].gen
    IN  /\ work[w].mode = "record" /\ work[w].drop = None /\ l \in work[w].todo
        /\ faults < MaxFaults
        /\ \/ /\ Held(w, g, l)
              /\ jobs' = [jobs EXCEPT ![g][l.entity] =
                             FailedJob(@, kind = "io", RetryTicks)]
              /\ work' = [work EXCEPT ![w].todo = @ \ {l},
                                      ![w].drop = IF kind = "mismatch" THEN l ELSE None]
           \/ /\ ~Held(w, g, l)
              /\ work' = [work EXCEPT ![w].mode = "release"]
              /\ UNCHANGED jobs
        /\ faults' = faults + 1
        /\ UNCHANGED <<source, gens, members, payloads, head, changes>>

\* deactivate_semantic_item_if_fingerprint, a transaction of its own.
Deactivate(w) ==
    LET l     == work[w].drop
        match == source[l.entity] # None /\ ContentOf[source[l.entity]] = l.content
    IN  /\ l # None
        /\ source' = IF match THEN [source EXCEPT ![l.entity] = None] ELSE source
        /\ jobs' = IF match THEN Dirtied(l.entity, None) ELSE jobs
        /\ work' = [work EXCEPT ![w].drop = None]
        /\ UNCHANGED <<gens, members, payloads, head, changes, faults>>

\* complete_embedding_jobs_batch: one transaction.  A stale source, a bad
\* vector or a generation that no longer accepts members closes its own
\* job; one lost lease rolls the whole batch back.
Complete(w, bad) ==
    LET g      == work[w].gen
        todo   == work[w].todo
        opens  == Building(g) /\ gens[g].cloned
        stale  == {l \in todo : ~Current(l.entity, jobs[g][l.entity])}
        wrong  == IF opens THEN bad \ stale ELSE todo \ stale
        done   == todo \ (stale \cup wrong)
        outcome(l) == IF l \in stale THEN "stale" ELSE IF l \in wrong THEN "error" ELSE "done"
    IN  /\ work[w].mode = "record" /\ work[w].drop = None
        /\ \A l \in todo : Held(w, g, l)
        /\ faults + Cardinality(bad) <= MaxFaults
        /\ jobs' = [jobs EXCEPT ![g] = [e \in Entities |->
              IF \E l \in todo : l.entity = e
              THEN Closed(jobs[g][e], outcome(CHOOSE l \in todo : l.entity = e))
              ELSE jobs[g][e]]]
        /\ payloads' = [c \in Contents |->
              IF payloads[c] = None /\ \E l \in done : jobs[g][l.entity].content = c
              THEN (CHOOSE l \in done : jobs[g][l.entity].content = c).content
              ELSE payloads[c]]
        /\ members' = [members EXCEPT ![g] = [e \in Entities |->
              IF \E l \in done : l.entity = e THEN source[e] ELSE members[g][e]]]
        /\ work' = [work EXCEPT ![w] = Idle]
        /\ faults' = faults + Cardinality(bad)
        /\ UNCHANGED <<source, gens, head, changes>>

\* The rolled back completion: the worker gives the batch back.
CompleteLost(w) ==
    /\ work[w].mode = "record" /\ work[w].drop = None
    /\ \E l \in work[w].todo : ~Held(w, work[w].gen, l)
    /\ work' = [work EXCEPT ![w].mode = "release"]
    /\ UNCHANGED <<source, gens, jobs, members, payloads, head, changes, faults>>

\* What a worker holds once lease l is given back.
Without(m, l) == IF m.todo = {l} THEN Idle ELSE [m EXCEPT !.todo = @ \ {l}]

\* _release_interrupted_leases, one lease (a lost one is only noted).
Release(w, l) ==
    LET g == work[w].gen
    IN  /\ work[w].mode = "release" /\ l \in work[w].todo
        /\ jobs' = IF Held(w, g, l)
                   THEN [jobs EXCEPT ![g][l.entity] = FailedJob(@, TRUE, 0)] ELSE jobs
        /\ work' = [work EXCEPT ![w] = Without(@, l)]
        /\ UNCHANGED <<source, gens, members, payloads, head, changes, faults>>

\* release_embedding_job_lease_for_deadline, one lease: the attempt is not
\* charged, and expiry is not looked at.
ReleaseForDeadline(w, l) ==
    LET g == work[w].gen
        j == jobs[g][l.entity]
    IN  /\ work[w].mode = "deadline" /\ l \in work[w].todo
        /\ jobs' = IF j # None /\ j.status = "leased" /\ j.owner = w
                   THEN [jobs EXCEPT ![g][l.entity] = Pending(@, @.attempts - 1, 0)]
                   ELSE jobs
        /\ work' = [work EXCEPT ![w] = Without(@, l)]
        /\ UNCHANGED <<source, gens, members, payloads, head, changes, faults>>

\* The process dies: the rows keep its leases until they expire.
Crash(w) ==
    /\ work[w].mode # "idle" /\ faults < MaxFaults
    /\ work' = [work EXCEPT ![w] = Idle]
    /\ faults' = faults + 1
    /\ UNCHANGED <<source, gens, jobs, members, payloads, head, changes>>

\* Time passes for leases and for delayed retries.
Tick ==
    LET tick(j) ==
            IF j = None THEN None
            ELSE [j EXCEPT !.ttl = IF @ > 0 THEN @ - 1 ELSE 0,
                           !.wait = IF @ > 0 THEN @ - 1 ELSE 0]
    IN  /\ jobs' = [g \in Gens |-> [e \in Entities |-> tick(jobs[g][e])]]
        /\ UNCHANGED <<source, gens, members, payloads, head, work, changes, faults>>

-----------------------------------------------------------------------------
(* Publication. *)

\* Mutant of HeadUnmoved: the head is overwritten.
HeadIgnored(g) == TRUE

\* The compare of the head's compare-and-swap.
HeadUnmoved(g) == gens[g].base = head

\* finalize_embedding_generation(allow_partial=True).  A refusal rolls back,
\* so it is no step; a lost head race is committed as a failure.
Finalize(g) ==
    LET swept   == MarkStale(jobs[g], TRUE)
        J       == [e \in Entities |->
                       IF swept[e] # None /\ swept[e].status = "done" /\ ~Current(e, swept[e])
                       THEN None ELSE swept[e]]
        M       == [e \in Entities |->
                       IF e \in Obsolete(members[g]) THEN None ELSE members[g][e]]
        partial == \/ gens[g].prov \notin Covered
                   \/ \E e \in Entities : J[e] # None /\ J[e].status \in {"error", "stale"}
        missing == \E e \in Entities : /\ J[e] # None /\ J[e].status = "done"
                                       /\ M[e] = None
    IN  /\ Building(g) /\ gens[g].cloned /\ gens[g].enumerated
        /\ \A e \in Entities : ~Unfinished(J[e])
        /\ jobs' = [jobs EXCEPT ![g] = J]
        /\ \/ /\ partial
              /\ gens' = [gens EXCEPT ![g].status = "ready_partial"]
              /\ UNCHANGED <<members, head>>
           \/ /\ ~partial /\ ~missing
              /\ members' = [members EXCEPT ![g] = M]
              /\ IF HeadUnmoved(g)
                 THEN gens' = [gens EXCEPT ![g].status = "ready"] /\ head' = g
                 ELSE gens' = [gens EXCEPT ![g] = Failed(@)] /\ head' = head
        /\ UNCHANGED <<source, payloads, work, changes, faults>>

-----------------------------------------------------------------------------

Init ==
    /\ source \in [Entities -> Revs \cup {None}]
    /\ gens = [g \in Gens |-> NoGeneration]
    /\ jobs = [g \in Gens |-> [e \in Entities |-> None]]
    /\ members = [g \in Gens |-> [e \in Entities |-> None]]
    /\ payloads = [c \in Contents |-> None]
    /\ head = None
    /\ work = [w \in Workers |-> Idle]
    /\ changes = 0 /\ faults = 0

WorkerStep(w) ==
    \/ Heartbeat(w) \/ Embedded(w) \/ Interrupted(w) \/ Deactivate(w) \/ CompleteLost(w)
    \/ Crash(w)
    \/ \E l \in work[w].todo :
          \/ \E kind \in {"io", "fatal", "mismatch"} : RecordFailure(w, l, kind)
          \/ Release(w, l) \/ ReleaseForDeadline(w, l)
    \/ \E bad \in SUBSET work[w].todo : Complete(w, bad)

Next ==
    \/ \E e \in Entities, r \in Revs \cup {None} : StageItem(e, r)
    \/ \E sig \in Signatures, prov \in Provenances : Start(sig, prov)
    \/ \E g \in Gens :
          \/ \E complete \in BOOLEAN : SetCursor(g, complete)
          \/ \E e \in Entities : Enqueue(g, e) \/ ClonePage(g, e)
          \/ Prepare(g) \/ CloneFinish(g) \/ CloneStops(g) \/ Invalidate(g)
          \/ ReuseCached(g) \/ Finalize(g)
          \/ \E w \in Workers : Claim(w, g)
    \/ \E w \in Workers : WorkerStep(w)
    \/ Tick

Spec == Init /\ [][Next]_vars
-----------------------------------------------------------------------------
(* Properties. *)

TypeOK ==
    /\ source \in [Entities -> Revs \cup {None}]
    /\ gens \in [Gens -> Generation]
    /\ jobs \in [Gens -> [Entities -> Job \cup {None}]]
    /\ members \in [Gens -> [Entities -> Revs \cup {None}]]
    /\ payloads \in [Contents -> Contents \cup {None}]
    /\ head \in Gens \cup {None}
    /\ work \in [Workers -> Memory]
    /\ changes \in 0 .. MaxChanges /\ faults \in 0 .. MaxFaults

\* The incremental scans of claim and reuse look only at hinted jobs: every
\* unfinished job whose source no longer matches must carry the hint.
HintSound ==
    \A g \in Gens, e \in Entities :
        LET j == jobs[g][e]
        IN  Unfinished(j) /\ ~Current(e, j) => j.dirty

\* _lease_rows never selects a pending job that has spent its attempts, so
\* such a job would keep its generation unfinished for ever.
NoStranded ==
    \A g \in Gens, e \in Entities :
        LET j == jobs[g][e]
        IN  j # None /\ j.status = "pending" => j.attempts < MaxAttempts

\* Within a generation a content is leased for one job at a time, through
\* requeued, expired and taken over leases.
SingleFlight ==
    \A g \in Gens : \A e, f \in Entities :
        /\ jobs[g][e] # None /\ jobs[g][e].status = "leased"
        /\ jobs[g][f] # None /\ jobs[g][f].status = "leased"
        /\ e # f
        => jobs[g][e].content # jobs[g][f].content

\* vector_payloads is keyed by content and never rewritten: the vector of a
\* content is one that was computed from that content, whatever leases
\* expired, were taken over or were requeued while it was computed.
VectorOfContent == \A c \in Contents : payloads[c] \in {None, c}

\* The head is a ready generation whose every member has a stored vector.
HeadBacked ==
    head # None =>
        /\ gens[head].status = "ready"
        /\ \A e \in Entities :
              members[head][e] # None => payloads[ContentOf[members[head][e]]] # None

\* A signature has at most one building generation, and a head's sources
\* were covered completely: Start resumes or closes what it finds, and a
\* generation of partial sources is kept without being published.
OneCandidate ==
    /\ \A g, h \in Gens :
          Building(g) /\ Building(h) /\ gens[g].sig = gens[h].sig => g = h
    /\ head # None => gens[head].prov \in Covered

\* A publication replaces exactly the head its candidate was built on.
HeadCAS == [][head' # head => head' # None /\ gens[head'].base = head]_vars

\* At the moment of publication every member matches an active source, and
\* every job of the generation is done and has its member.
PublishedCurrent ==
    [][head' # head =>
          \A e \in Entities :
              /\ members'[head'][e] # None =>
                    /\ source[e] # None
                    /\ ContentOf[source[e]] = ContentOf[members'[head'][e]]
              /\ jobs'[head'][e] # None =>
                    jobs'[head'][e].status = "done" /\ members'[head'][e] # None]_vars

\* A snapshot that was ever ready keeps its members: later candidates are
\* cloned from it page by page, and searches read it, without a lock.
FrozenSnapshot ==
    [][\A g \in Gens :
          gens[g].status = "ready" => members'[g] = members[g] /\ gens'[g] = gens[g]]_vars

\* An indexing run that keeps being repeated claims and finishes its
\* batches, and time passes.
Fairness ==
    /\ WF_vars(Tick)
    /\ \A w \in Workers :
          /\ WF_vars(Embedded(w)) /\ WF_vars(Deactivate(w))
          /\ WF_vars(Complete(w, {})) /\ WF_vars(CompleteLost(w))
          /\ WF_vars(\E l \in work[w].todo : Release(w, l) \/ ReleaseForDeadline(w, l))
          /\ \A g \in Gens : WF_vars(Claim(w, g))

FairSpec == Spec /\ Fairness

\* Once a generation is enumerated and cloned, its jobs reach an end, through
\* expired leases, crashes, retries and changed sources.
Drained ==
    \A g \in Gens :
        (Building(g) /\ gens[g].enumerated /\ gens[g].cloned)
            ~> \/ ~Building(g) \/ ~gens[g].enumerated
               \/ \A e \in Entities : ~Unfinished(jobs[g][e])
=============================================================================
