# NeoCortex: TLA+ models, model checking and proofs

NeoCortex is a local, Linux-first framework that inventories personal files,
identifies, deduplicates and extracts them, builds search indexes and keeps
everything it learns in a dozen independent SQLite databases ("owners").
There is no server and no transaction that spans two owners: what makes the
whole consistent are file locks, append-only journals, leases and
compare-and-swap protocols. This directory models those protocols, checks them
with TLC on small instances, and proves the most important invariants with
TLAPS for every instance.

## 1. Inventory of the system

Paths are relative to `src/neocortex/`.

| Component | State it keeps | Operations | What is hard | What makes it correct |
|---|---|---|---|---|
| Publication gate, `persistence/state_publication.py` | append-only journal, epoch pointer, content manifests, one flock | observe, begin, commit, abort, abort unbound, reconcile, resume, restart | crash or I/O error between any two writes, lock-free readers, retries of uncertain outcomes | one open prepare, consecutive epochs, no half-done transaction visible, idempotent keys |
| Run lock, `runtime/control/locking.py` | one flock file and its owner text | enter, exit, shared writer lock against reset | holder dies, reset races a writer | at most one run, no writer during a reset |
| Framework runs, `persistence/framework_state_*.py`, `runtime/orchestration/` | runs, stages, manifests, budgets, cancellation requests, checkpoints | start, stage, charge, cancel, complete, resume | cancellation racing completion, orphaned running rows | terminal states final, budgets never exceeded, resume only of resumable runs |
| Semantic generations, `semantic/semantic_generation_repository.py`, `semantic_generation_worker.py` | generations, embedding jobs with leases, publication heads | start generation, claim, heartbeat, complete, fail, reclaim expired, publish | a lease expires while its worker still writes; two generations race to publish | a job completes once, by its lease holder; only a complete generation becomes head |
| Resource coordinator, `runtime/control/global_resources.py`, `resource_*.py` | queue of waiting requests, grants, usage per axis | request, grant, release, cancel, time out, observe pressure | waiters against barging, timeout against a late grant, release in any order | no axis over its limit, every grant released once, no starvation |
| Elastic workers, `runtime/control/elastic_workers.py` | ordered input window, running futures, target concurrency | submit, complete, resize, fail, cancel | failure while others run, order of results | bounded window, results in order, no lost item |
| Subprocesses, `runtime/control/bounded_subprocess.py` | child group, pipes, deadline | start, read, time out, kill | deadline races exit | every child reaped |
| Watcher, `runtime/control/watcher.py`, `watcher_life_lease.py` | lease file, inotify batches | acquire, renew, hand over | stale leases after a crash | one watcher alive |
| File actions, `workflow/actions/`, `workflow/file_action_*.py`, `workflow/mutations.py` | action ledger (planned, started, applied, ...), the file tree | plan, start, apply, record, reconcile | crash between the effect and its record | no effect twice, none unrecorded |
| KIO trash, `safety/kio_trash.py` | trash journal, desktop service | move to trash, verify, restore | the service answers late or not at all | an item is in exactly one place |
| Scratch, `runtime/scratch*.py` | scratch leases and directories | allocate, seal, release, collect | a collector races an owner | live scratch never collected |
| Inventory and planning, `deduplication/` | scans, generations, entries, plans | scan, resume, publish generation | interrupted scans, changed files | only complete generations are current |
| Curation, `curation/` | checkpoints, decisions | preview, verify, apply, recover | stale previews | applied decisions match what was shown |
| Backup, restore, purge, reset, `persistence/database_purge.py`, `factory_reset.py`, `sqlite_backup.py` | staging, rollback directory, manifests | backup, restore, purge, reset | failure after some owners moved | rollback or recovery required, never a mix reported as success |
| Document cache, `documents/` | catalog and per-format caches | synchronise after a move | several databases, one of them failing | cache paths follow the file |
| Knowledge, API, formats, platform, interface | derived data and adapters | mostly pure or read-only | | |

Interaction: every mutating command takes `FrameworkRunLock`. An `--all` run
records its stages in `framework.sqlite3`, and around its Semantic stage opens
a publication (`begin_state_publication`), lets the Semantic owner work, and
commits the new owner heads. Search, knowledge and API readers call
`require_complete_state_epoch` or `read_state_publication_state` without any
lock and refuse to answer across owners while a prepare is open. Cache
synchronisation after a file move and database restore are the other two
producers of publications.

## 2. Plan

The order follows what the rest of the system relies on.

1. `PublicationGate` (abstract) and `StatePublication` (the detailed gate), with
   `StatePublicationProofs` and `PublicationGateProofs`. **Modelled, checked,
   proved.**
2. `SemanticGenerations`: job leases, expiry, late completion, the clone of a
   base and the head compare-and-swap, with `SemanticGenerationsProofs`.
   **Modelled, checked, proved.**
3. `ResourceCoordinator`: admission, queues, renewal, time-outs, pressure, with
   `ResourceCoordinatorProofs`. **Modelled, checked, proved.**
4. `ElasticMap`, composed with `ResourceCoordinator`: owners and supervisors of
   concurrent maps over one ledger, with `ElasticMapProofs`. **Modelled, checked,
   proved.**
5. `FileActions`: Trash batches, renames, restorations, KIO, the action ledger
   and its reconciler, with `FileActionsProofs`. **Modelled, checked, proved.**
6. Framework runs: lifecycle, budgets, cancellation (with the hazard at
   `persistence/framework_state_runs.py:1140`).
7. The indexing pipelines on top of the generations (with the hazard at
   `semantic_generation_repository.py:1140`) and the composition with the gate:
   the owner write of `StatePublication` becomes a generation publication.
8. Scratch leases, watcher lease, locks, factory reset and database restore as
   a protocol over several files; inventory resume, curation checkpoints.

What is proved and what is left to TLC is said in the sections below; section 9
collects it. The next theorems worth proving come with the components still to be
modelled: terminal run states first.

## 3. The publication gate

### 3.1 What is modelled

`StatePublication` models `persistence/state_publication.py` and, as the
environment that calls it, `FrameworkRunLock` and the three producers.

| TLA+ | Code |
|---|---|
| `journal`, `tail` | records of `state-publication-journal.jsonl`; whether its last line is newline-terminated, unterminated or unparsable |
| `pointer` | the epoch pointer file, replaced atomically |
| `manifests` | content-publication manifests, one per attested record |
| `owner`, `drifted` | real head revisions of the owners; owners a direct index moved since their last publication (bookkeeping of the model) |
| `lock`, `runLock` | holders of the publication flock and of `FrameworkRunLock` |
| `pc`, `obs`, `pub` | where a process is inside an observation or a write, and what it holds |
| `seen`, `saw`, `tx` | the last view, the captured heads, the `StatePublicationTransaction` |

| Action | Code |
|---|---|
| `ObserveFences` ... `ObserveEnd` | `_read_publication_observation`, four steps without a lock |
| `Prepare` | `begin_state_publication` |
| `CommitBound`, `CommitUnbound` | `StatePublicationTransaction.commit`; the completion of a cache synchronisation |
| `RecordFailed` | `record_state_publication(status="failed")` |
| `Abort`, `AbortUnbound`, `ReconcileUnbound`, `Resume`, `Restart` | the functions of the same name |
| `WriteManifest`, `AppendJournal`, `ReplaceJournal`, `WritePointer` | the durable writes, one step each |
| `ManifestFails`, `AppendFails`, `ReplaceRefused`, `PointerFails`, `Crash` | their failures, and the death of a process at any point |
| `OwnerWrite`, `OwnerRevert`, `DirectIndex`, `CaptureHeads` | what the callers do to the owners |

Abstractions. A record carries what decisions depend on: id, epoch, key,
status, heads, input digest. Keys stand for idempotency digests; the key a
restart derives from the pending event, the epoch and the heads is a tuple of
exactly these. Event ids come from a counter where the code uses `time_ns`.
A call takes the flock, reads and decides in one step, because nobody else
writes the files while it holds the flock; its writes are separate steps.
A refused call changes nothing and has no step. `CommitBound` checks the owner
heads, which `commit` does when it is given `verify_owner_heads`; its only caller
(`semantic/semantic_application.py:2757`) always gives it.

`AppendFails` covers what the comment in `_append_journal` warns of ("an I/O
error does not prove its absence"): nothing written (`lost`), everything
written (`unsynced`), a torn line (`torn`), everything but the newline
(`unterminated`).

Not modelled: loss of unsynced data at power failure, hand-edited files, size
bounds of journal and records, symlink checks, text validation.

`PublicationGate` is the promise to readers: an epoch, its heads and at most
one fence; only through a fence that is up can the epoch advance.

### 3.2 Runs

| Run | Instance | Shows |
|---|---|---|
| `publication_serial` | 2 processes in `FrameworkRunLock` sessions, 2 owners, 3 keys, all 4 append faults, 1 fault, 1 crash, 3 prepares, 6 ids | `TypeOK`, `EpochsConsecutive`, `PointerBacked`, `OncePerKey`, `ManifestBacked`, `HandleIsFenced`, `GateCoherent`, `RollbackProven`, and that `StatePublication` implements `PublicationGate` |
| `publication_library` | 2 processes without the session lock, concurrent lock-free readers | `FenceIsTail`, `FreshView` |
| `publication_newline` | only the `unterminated` fault | violates `AcknowledgedReadable`: see 3.4 |

Bounds. `MaxEvents` stops new prepares, `MaxIds` all new records. With three
prepares a first epoch is published, a second transaction interrupted, and
its recovery followed by another epoch, so every recovery call meets a journal
with and without a complete epoch. One fault and one crash suffice for the
combinations "uncertain append, then crash in the retry"; two owner revisions
(0 and 1) tell "moved" from "not moved". Keys: one integrated run, the next
one, one cache synchronisation. Processes are symmetric.

`CHECK_DEADLOCK FALSE`: the budgets end every behaviour, and a system whose
callers are done stops.

Fairness: none is assumed; all properties are safety properties. Readers
outside a session only matter for `FreshView`; `publication_library` lets every
process observe at any time.

`RollbackProven`, `HandleIsFenced` and `GateCoherent` are stated for serialised
callers. Without `FrameworkRunLock` an abort may rest on heads captured before
another process moved the owner: the heads compared with the baseline are an
argument of `abort_state_publication`, not observed under the flock.

### 3.3 Proofs

`StatePublicationProofs` proves, for any sets of processes, keys, owners and
any bounds, and for serialised and unserialised callers: `TypeOK`,
`FenceIsTail`, `ManifestBacked`, `PointerBacked`, `OncePerKey`. Assumptions:
`ConstantsAssumption` (callers' keys are distinguishable from the keys a
restart derives; constants have their types) and `NoneAssumption` (None is
neither a number nor a record).

None of the invariants is inductive alone. `IInv` adds

- `Ordered`: epochs never decrease along the journal and a complete record
  raises them, hence "newest by (epoch, created_ns)" is "last";
- `Sealed`: nothing follows a complete record under its key;
- `KeyOK`: every key is a caller's, except that a checkpoint's key names the
  epoch it left, which is why it cannot have been used before;
- `WriterOK`: what the holder of the flock knows at each step about the records
  it will expose (`Fits`, `FitsPair`), that the manifest is there before the
  append, and that the journal ends with the record the pointer will name.

The argument: calls that take the flock establish `WriterOK` (`ExposeStep`),
write steps consume it (`AppendGood`, `PairGood`), and everything else leaves
files and writers alone (`FrameStep`).

`PublicationGateProofs` builds on it.

- `EpochsInOrder` (`EpochsConsecutive`): the inductive form `Counted` says that
  the record at every position carries the number of complete records up to it.
- `ReadersCoherent` (`FreshView`), without any serialisation: `OInv` says of an
  observation under way that what it read never lies ahead of the files
  (`Trails`) and that the pointer is replaced only by a newer epoch; equal fences
  at both ends then pin everything read between them.
- `WritesAreFenced`, `GateIsCoherent`, `RollbacksProven` under `Serialised`, the
  discipline all three producers follow by taking `FrameworkRunLock`. `SInv`
  says that only the holder of that lock has anything in progress, that captured
  heads are the present ones, that an open prepare has its baseline in the
  journal (`Settled`), and that a record about to be written tells the truth
  about the owners (`Ready`). Without the discipline the three are false (an
  abort may rest on heads captured before another process moved the owner), so
  they are stated `Serialised => ...`; both values of the constant satisfy
  `ConstantsAssumption`, and the run checks the serialised one.
- `GateRefined` (`ImplementsGate`): every step of the detailed gate is a step
  of `PublicationGate` or leaves epoch, heads and fence alone. A journal append
  is the only step that is not a stutter (`AppendGate`); the replacement of a
  restart is two appends, shown to be one publishing step because its fence is
  up (`FenceUp`).

All properties of the runs of this component are proved.

### 3.4 Finding

`_append_journal` does not look at the last byte of the journal, `_read_journal`
accepts a last line without newline. If an append fails after the last byte of
JSON and before its newline, the record counts as present; the next append
shares its line, reports success, and from then on every read fails with
"malformed JSON". `docs/ARCHITECTURE.md:18` promises that an interruption leaves
a resumable state or `recovery_required`, never success.
`restart_state_publication_checkpoint` handles the same case and inserts a
separator. The run `publication_newline` shows the shortest such behaviour.

## 4. Semantic generations

### 4.1 What is modelled

`SemanticGenerations` models the control plane of `semantic/`: the repository
functions that change generations, jobs, members, payloads and the published
head, the worker loop that calls them, and the SQL triggers that maintain the
`source_dirty` hint. Each repository function is one `BEGIN IMMEDIATE`
transaction, hence one action; what a worker holds between two transactions is
its `work`.

| TLA+ | Code |
|---|---|
| `source` | active rows of `semantic_items`, the revision of each |
| `gens` | `embedding_generations`: status, signature, provenance, base, clone cursor, `enumeration_complete` |
| `jobs` | `embedding_jobs`; `ttl` and `wait` are the time left to `lease_until_ns` and `available_ns` |
| `members` | `embedding_generation_members`: the revision each member binds |
| `payloads` | `vector_payloads`: which content the vector stored for a content was computed from |
| `head` | `published_embedding_heads` of the model |
| `work` | leases in the memory of each worker and the phase of `_run_generation_batch` |

| Action | Code |
|---|---|
| `StageItem` | `stage_semantic_items`, `finalize_semantic_item_refresh`, with the `semantic_items` triggers |
| `Start` | `start_embedding_generation(materialize_base=False)` |
| `SetCursor`, `Enqueue` | `update_embedding_generation_cursor`, `enqueue_image_item_jobs_bounded` |
| `Prepare`, `ClonePage`, `CloneFinish`, `CloneStops` | `prepare_embedding_generation` and the page loop of `_clone_published_members` |
| `Invalidate` | `invalidate_embedding_generations_for_source_change` |
| `ReuseCached`, `Claim`, `Heartbeat` | `reuse_cached_jobs`, `claim_embedding_jobs`, `heartbeat_embedding_jobs` |
| `Embedded`, `Interrupted`, `RecordFailure`, `Deactivate`, `Complete`, `CompleteLost`, `Release` | `_run_generation_batch` and what it calls, failures one transaction each, completions one transaction per batch |
| `ReleaseForDeadline` | `release_embedding_job_lease_for_deadline` |
| `Finalize` | `finalize_embedding_generation(allow_partial=True)` |
| `Crash`, `Tick` | environment: a worker dies, time passes |

Abstractions. One embedding model, since models share no rows, and the image
modality; text adds the publication of its chunk sets. A revision stands for
everything `semantic_item_revisions` records; revisions with one content differ
in path or provenance, never in source identity. One enqueue handles one item
and one clone page one row, in any order, where the code takes bounded batches
by id: fewer rows per transaction allow more interleavings. The limits
`MAX_WRITE_BATCH` of the sweeps are not reached. Every transaction reads the
clock inside it, where some functions read it just before. The single retry of
recoverable inference errors inside a batch is part of `Embedded`: `Heartbeat`
keeps either all leases of the batch or none, where the retry keeps only its
own. Counters, receipts, lineage and progress are left out.

Guards that come from the callers: a pipeline enqueues before it reports the
enumeration complete and not while it clones; `run_generation` claims and
reuses only after `prepare_embedding_generation` returned, hence when cloned;
it finalizes with `allow_partial=True`.

### 4.2 Runs

| Run | Instance | Shows |
|---|---|---|
| `generations_leases` | 2 items, 2 contents, 2 workers, batches of 2, 2 attempts, 1 generation, 1 source change, 1 fault | `TypeOK`, `HintSound`, `NoStranded`, `SingleFlight`, `VectorOfContent` |
| `generations_clone` | 2 items, 3 revisions of 2 contents, 1 worker, 2 generations, 1 change, 1 fault | `PublishedCurrent`, `FrozenSnapshot` |
| `generations_publication` | 1 item, 3 revisions, 2 signatures, 2 provenances of which one is partial, 3 generations | `HeadBacked`, `OneCandidate`, `HeadCAS` |
| `generations_drain` | 2 items, 1 content, 2 workers, 2 attempts, 1 generation, 1 change, 1 fault | `Drained` |

Bounds. A lease of one tick expires at any tick and is renewed at any beat; two
workers and two attempts give the take-over of an expired lease, the late
completion and the last attempt; `MaxFaults` counts inference errors, bad
vectors, deadlines, interruptions and crashes, while expiry and lost leases are
free. Two generations of one signature give a base and its clone; two
signatures on one head give the publication race, and a third generation a
base that is itself a clone; a changed source is left to the other runs there.
Two contents and a rename (`r1`, `r2`) tell rebinding
from embedding again.

`CHECK_DEADLOCK FALSE`: a control plane whose work is done and whose budgets
are spent may stop.

Fairness (`FairSpec`, only for `Drained`): time passes; a worker that holds a
batch goes on with it (`run_generation` has no wait of its own besides
inference, which returns); and somebody keeps claiming, that is, the index is
run again while jobs are left, as its `no_progress` and `time_budget` results
ask the operator to. Nothing is assumed of heartbeats, faults, sources or
pipelines. `Drained` then says that no interleaving of expiry, crash, retry and
change leaves a job for ever pending or leased.

### 4.3 Proofs

`SemanticGenerationsProofs` proves all safety properties of the runs, for any
number of items, revisions, contents, workers, generations, signatures, faults
and source changes: `TypeOK`, `HintSound`, `NoStranded`, `SingleFlight`,
`VectorOfContent`, `HeadBacked`, `OneCandidate`, and the action properties
`HeadCAS`, `PublishedCurrent`, `FrozenSnapshot`. Assumption:
`GenerationConstants` (finitely many items, None is not one of the values it
stands beside, positive attempts, leases and batches).

The inductive invariant has four parts, each over its own variables, so that an
action disturbs few of them:

- `LeaseInv` (sources, jobs, workers' memory): `JobOK` of every row (a pending
  row has an attempt left; an unfinished row matches its source or carries the
  hint), `SingleFlight`, and `WorkOK`: a worker's memory holds at most one lease
  per item, and while the row is leased to that worker its content is the one the
  worker embeds. The last one is what makes a late completion harmless: it is
  keyed by the worker's lease, so the vector it stores is that of the content;
- `VectorInv` (members, payloads): `VectorOfContent`, and every member of every
  generation has a vector, of which `HeadBacked` is the case of the head;
- `CandidateInv` (generations, head): `GenOK`, a head is ready, `OneCandidate`;
- `CountInv`: the bounds of the counters.

Every action changes rows of `embedding_jobs` only in ways `Step` allows (a lease
in the new row was already one, of the same worker and content) except `Claim`,
whose selection is what `SingleFlight` is about. `PublishedCurrent` and
`FrozenSnapshot` are proved action by action from the guards and the invariant.

Left to TLC: `Drained` (liveness).

## 5. Global resources

### 5.1 What is modelled

`ResourceCoordinator` models `GlobalResourceCoordinator` and the modules it is
split into (`runtime/control/global_resources.py`, `resource_admission.py`,
`resource_scheduling.py`, `resource_observation.py`, `resource_grants.py`).
Every critical section of the condition variable is one action; a waiter polls
at any time, as the poll interval and `notify_all` allow.

| TLA+ | Code |
|---|---|
| `req` | the `_Request` of a job's lease and of its turn (the second request a checkpoint or a drain makes) |
| `queue`, `last` | `_queues` and `_last_granted_index` |
| `ledger` | the counters of the coordinator (entry 0) and of every route |
| `view` | latched memory, CPU and I/O pressure, last effective capacity |
| `sample` | what the probes would report now (environment) |
| `step` | a checkpoint between `release_cpu` and its renewal |
| `cancelled`, `timed` | cancelled tokens; whether `wait_timeout_seconds` is set |

| Action | Code |
|---|---|
| `Admit`, `Grant`, `Wait`, `TimeOut`, `Abandon` | `admission_scope`: ceilings, enqueueing, one poll, the stalled wait, cancellation and orphaned renewals |
| `ReleaseCpu`, `Yield`, `Renew`, `Exit` | `release_cpu`, `checkpoint` (ordinary or draining), the end of the scope |
| `Shrink`, `ResizeTemp` | reductions of a lease, changes of its temporary space |
| `Monitor`, `Environment`, `Cancel` | the observer, the system, the run |

Selection is that of the code: `fits`, the round robin over routes, the drain
exception, widths adapted to the live capacity, shared residence charged once
per key at its largest claim.

Abstractions. Ceilings are explicit (the automatic ones are arithmetic on the
machine), cores are integers, there is one I/O device, and the GPU axis is left
out (it counts like temporary space). The native ceiling is therefore
`CpuSlots`; when it is automatic the code uses the live capacity instead. CPU
capacity is what an observation reports: the band of the CPU latch and the path
with an explicit load probe only decide which of the capacities in `Samples` is
seen, and the samples change at any time. The probe of free disk space is part
of `TempBudget`. One job is one thread with at most one lease.
`drain_admission` is a `Yield` in drain mode. Peaks and waiting metrics are left
out.

### 5.2 Runs

| Run | Instance | Shows |
|---|---|---|
| `resources_ledger` | 3 jobs, two of them sharing a residence, the third a native batch with temporary space; memory that gets short | `TypeOK`, `LedgerExact`, `WithinLimits` |
| `resources_progress` | 3 jobs that ask for ever for one unit of everything, two of them in one route, calm or under pressure on every axis, with and without a time-out | `Served`, `DrainServed`, `WaitsEnd` |

Bounds. `MaxChanges` counts changes of the system and cancellations; one
suffices for pressure that comes, stays or goes, because every sample is also
an initial one. Budgets of two or three units let two requests fit together
and exclude each other. Two jobs of one route give a queue of two requests, in
which a renewal or a drain goes in before a lease (`appendleft`), and a third
job in the other route competes with both. In `resources_progress` nobody
cancels (`ProgressSpec`); cancellation is part of `resources_ledger` and
`elastic_maps`. `CHECK_DEADLOCK FALSE`: when the jobs are done, or wait under a
pressure that never ends, nothing moves.

Fairness: waiters poll, a thread that began a checkpoint goes on, and a job
ends its scope however often it renews (strong fairness: it is not inside a
checkpoint infinitely often). Nobody has to ask. `Served` is claimed for unit
demands only: a request that needs several slots may starve behind small ones
of other routes, as the code grants whatever fits.

`DrainServed` has an exception the code's words do not have. A drain is exempt
from pressure, but only the head of a queue is considered
(`resource_scheduling.py:114`, `:132`), and a renewal of another job of the route
that is queued later goes in before it (`resource_admission.py:256`). A renewal
is not exempt. Under lasting pressure, without a wait time-out, the drain waits
behind that renewal as long as the pressure lasts; the result it would store
keeps its memory. The comment at `resource_scheduling.py:46` ("One bounded
finalizer may make progress to persist/discard already admitted results") and
`docs/ARCHITECTURE.md:1079` promise the turn under pressure without that
exception: the formula `DrainWaits(j) ~> ~DrainWaits(j)` fails in the instance of
`resources_progress`. `DrainServed` states what does hold: this is the only way
in which a drain waits for ever. With a time-out no drain does (`WaitsEnd`).

### 5.3 Proofs

`ResourceCoordinatorProofs` proves `TypeOK`, `LedgerExact` and `WithinLimits` for
any finite set of jobs, any demands, routes, budgets, slots and samples.
Assumption: `CoordinatorConstants`, the types of the constants and a route
budget of at most the whole budget. The constructor only checks that a route
budget is positive (`global_resources.py:152`); nothing is lost, because both
budgets are tested and the smaller one binds.

`LedgerExact` says that every counter equals what the admitted requests hold. A
sum over a set would need induction over data, so the property counts units:
`UnitsOf(x, a)` has one pair `<<r, n>>` for every unit `n` that request `r` holds
on axis `a` of route `x`, `ResidentUnits(x)` one pair per unit and *holder*,
where a shared residence is one holder whose size is its largest claim; the
counter is the cardinality. Adding, dropping or resizing one request then adds or
removes an interval of units, which the theorems about finite sets handle.

The inductive invariant is `ReqInv /\ QueueInv /\ LedgerInv /\ RestInv`:

- `ReqInv`: types, and `Good`: only an admitted request executes, what does not
  execute holds neither CPU nor I/O, a lease is never a renewal, a turn holds
  no memory (else releasing it would give back what its lease still uses);
- `QueueInv`: the queue of a route is an injective sequence of exactly the
  waiting requests of that route, and a checkpoint between its halves has none;
- `LedgerInv`: `LedgerExact` and `WithinLimits`. The limits need exactness: a
  grant is tested against the counters (`Fits`), a release is subtracted from
  them, and the difference stays a natural number only because the units were
  there;
- `RestInv`: types of the rest.

There is one lemma per action (`GrantStep`, `RenewStep`, `EndLeaseStep`, ...).
Round robin chooses a least element, `LeastNat` and `Greatest` show that it and
the largest claim exist.

Left to TLC: `Served`, `DrainServed`, `WaitsEnd` (liveness under fairness).

## 6. Elastic maps

### 6.1 What is modelled

`ElasticMap` extends `ResourceCoordinator` with
`runtime/control/elastic_workers.py`: the thread of the caller, which owns a
map, one supervisor thread per submitted item, and the events between them.
Item `i` of map `m` is the job `<<m, i>>` of the coordinator, `<<m, 0>>` the
admission the source of a map in "admission" mode asks for while it is
advanced.

| Action | Code |
|---|---|
| `Pull`, `ProbeAsks`, `ProbeGranted`, `ProbeEnds`, `Handoff` | `_fill` in both producer modes, and the source it advances |
| `Prepare`, `Take`, `Idles` | the owner's loop: prepare what was admitted, take what is ready |
| `DrainAsks`, `Consumes`, `OwnerRefused`, `NextValue`, `Joined` | `_consumer_grant_scope` and the hand-over of a value |
| `Asks`, `Granted`, `AskFails`, `Begins`, `Returns`, `Leaves` | `_run`, `_execute` |
| `Observes`, `Break`, `Close`, `Closed` | errors, callers that leave, `close` |

Abstractions. The limit is recomputed before every item, as the code does for a
callable estimate (for a constant one it is computed once per filling; no
property depends on how much is in flight); in admission mode the window is in
effect one item. The process pool, immediate results and `on_admission_error`
are not modelled. How many items a source has (`size`) is not known to the map.

### 6.2 Runs

| Run | Instance | Shows |
|---|---|---|
| `elastic_maps` | a "pure" map in input order and an "admission" map in completion order, with 2 and 1 or 1 and 2 items, 2 workers, 2 slots, time-outs, 1 fault, 1 change or cancellation | `DeliversAll`, `ResultHeld`, `NothingLeft`, `Completes` |
| `elastic_pure` | 2 "pure" maps of 2 items, 2 slots, no fault | violates `Completes`: see 6.3 |

Bounds. Two items of one map give results out of order and a later item that
fails first; two maps compete for the slots. `CHECK_DEADLOCK FALSE`: closed
maps stop.

Fairness: threads that can go on do (supervisors together, since each has
finitely many steps; every owner for itself, since it may poll for ever),
functions and callers return, waiters of the coordinator are granted when they
can be. `Completes` asks only for behaviours in which the system recovers for
good.

### 6.3 Finding

A granted supervisor keeps its CPU and I/O slots while it waits for its owner
to prepare it (`elastic_workers.py:848`). The owner, once it has taken a ready
result, waits for a drain turn of one CPU and one I/O slot before it prepares
anything. Two "pure" maps on two CPU slots can stop for ever in this way, and
so can one such map whose device has one I/O slot; the wait time-out never
counts, because the coordinator sees active execution. A script that runs
maps of the unmodified code with a short thread switch interval stops in the
same states. The comment at `resource_scheduling.py:46` says that one bounded
finalizer may make progress to return the memory of finished results;
`docs/ARCHITECTURE.md:1079` says the same of drains under pressure.

### 6.4 Proofs

`ElasticMapProofs` proves `DeliversAll`, `ResultHeld` and `NothingLeft`, and that
`LedgerExact` and `WithinLimits` of the coordinator hold under the maps, for any
number of maps, items, workers, routes and faults, with any demands and samples.
Assumptions: `CoordinatorConstants` and `MapConstants` (finitely many maps and
sizes, so that the longest source exists; the jobs of the coordinator are the
items and the sources of the maps).

The steps of a map are not steps of the coordinator's own `Next`: one step of an
owner may give back CPU and cancel at once. The coordinator's invariant `IInv` is
therefore carried along, through the same lemmas per operation, as the first
part of `MInv`. The others are

- `PullInv`: what is pending, in hand, delivered, started or released was pulled
  before;
- `ThreadInv`: which requests a thread has. `WorkOK` reads the state of an item's
  lease from where its supervisor is, and the state of its turn and of its
  checkpoint from where its owner is, if that owner has the item in hand;
  `ProbeOK` says the same of the source;
- `HoldInv`: a map is cancelled as a whole; a pending item, or one in the
  caller's hands, has not been released; hence the supervisor of an item that is
  drained or consumed still has its result ready, with its turn admitted;
- `DeliverInv`: delivered items, the one in hand and the pending ones are
  together the pulled ones, each once. In input order the pending ones are the
  latest numbers, so the one taken first is the next to deliver.

Why they are needed: `ResultHeld` depends on no supervisor leaving while its
owner waits, which is a fact about `freed` and `cancelled` in every earlier
step; `NothingLeft` on a turn existing only for the item in hand; `DeliversAll`
on the pending items as well as on the delivered ones.

The argument has two halves. `Moves` shows that every step changes the lists of a
map in one of few ways, from which `PullStep` and `DeliverStep` follow without
looking at the coordinator. For threads and leases there are lemmas per group of
actions (`SupervisorSteps`, `NeutralSteps`, `TakeStep`, `TurnSteps`,
`SubmitSteps`, `EndSteps`, `CloseStep`, `SystemSteps`); `LocalStep` reduces each
to the map that moves.

Left to TLC: `Completes` (liveness under fairness).

## 7. File actions

### 7.1 What is modelled

`FileActions` models what happens between the decision to act on a file and the
last word on it: the ledger `file_actions` with its transitions, the Trash
batches of `workflow/actions/action_effects.py`, the extension renames, the
restoration of `curation/recovery.py`, the KIO adapter `safety/kio_trash.py`
with its private claims, the rows abandoned by an interrupted run, and the
reconciler that classifies uncertain rows and records what it saw.

| TLA+ | Code |
|---|---|
| `status`, `receipt` | `file_actions.status`, `effect_receipt_json` |
| `at`, `info` | which object is at the source, the corrected path, the private claim and the Trash; the path its `.trashinfo` names, "torn" when it was truncated and not written |
| `kio` | the KIO worker still holds the command, perhaps longer than its caller |
| `pc`, `batch`, `chunk`, `todo`, `claims`, `outcome` | where the owner process is, and what it holds in memory; `chunk` is the part of the batch in the current call of KIO |
| `events`, `seen`, `answer` | `file_action_reconciliation_events`, what a recorder observed, and what it was told |
| `took`, `putback`, `clean` | history: objects an effect took, the last one is back, nothing went wrong so far |

`BeginTrash` to `Confirm` are the steps of a batch: intents, checks, frontier
(or `Uninvoked` when the run is cancelled before it), the calls of KIO,
persistence of blocks, confirmation. `KioTrashService._move_batches` gives the
items to KIO in one call or in several (`NextChunk`); a call is last admission,
claims, the process, verification. A call whose command was too long puts its
claims back (`Unclaim`) and, if every item was claimed, restored and blocked for
that reason, is made again with fewer items (`Split`); what such an attempt took
is struck from `took`, but only for items that are back. `Verify` and `Rewrite`
are the two halves of the repair of a `.trashinfo`, which the code truncates in
place and then writes (`kio_trash.py:1424`): a crash or a failed write in
between leaves it torn.

`BeginRename` to `RenameSettle` are those of a rename, `RestoreBegin` to
`RestoreSettle` those of a restoration. `KioMove` and `KioFail` are KIO's,
`Observe` and `Record` a recorder's; a recorder may lose the answer of a record
and ask again, with other recorders in between. `Crash`, `User` and the ends of
every ledger transaction (`Ends`: committed, rolled back, committed although
the caller gets an exception) are the faults. `Abandoned` is
`mark_abandoned_actions`, which runs when a run failed and when the next one
starts.

Abstractions. Objects are the planned one, another one or none: a changed size,
time or birth time is another object to all checks. An intent's key holds its
run, so a row is begun once and a later run has its own rows. The owner holds
`FrameworkRunLock`, so there is one; a recorder takes no lock. The limit of 256
items and the length of a command are abstracted to any split of a batch. The
key of a restoration holds its actor (`curation/recovery.py:689`); the model
has one actor, so one row per restored file. The user makes any other object at
the corrected name, but never the planned one by hand. Empty directories, the
loop over single items without a batch and members of ZIP archives are not
modelled.

What the code does, and the properties respect:
- the receipt is written with the status `applied` only, so an uncertain Trash
  row is never classified as confirmed, and cannot be restored;
- a recorder may write `not_performed` for a row whose live owner performs the
  effect afterwards; `VerdictHolds` is about rows nobody has in hand. For those
  it holds even when KIO acts late, because KIO was given the private claim and
  not the source path;
- a restoration is classified by its destination alone, which a user can
  change: `VerdictHolds` covers Trash and renames;
- an object may lie in the Trash under a `.trashinfo` that names the private
  claim, or nothing, after a crash or a failed write; its row then says
  `applying` or `recovery_required`, which is what `TrashNamed` asks;
- several checks guard the same effect, so most single faults in one of them do
  not break `AppliedBacked` for Trash.

### 7.2 Run

`file_actions`: the plan of the run is a batch of two files, one file that may
be restored afterwards, or one rename; two user moves, two restorations asked
for, two recorders that may use an old event as the last one, two events per
row; 2.3 million states. It shows `TypeOK`, `DisplacedIsRecorded` (no row closes
over an object its effect displaced), `NothingLeftOpen`, `AppliedBacked`,
`TrashNamed`, `VerdictHolds`, `AnswersTrue`, `NothingDestroyed`.

Bounds. Two user moves replace an object and occupy its place; two restorations
give one that is interrupted and the next one; two files in a batch give blocks
and effects side by side, one call or two, and a call that is split. Crashes,
failed writes and KIO's answers are not bounded. Recorders look at the single
file and the rename only (`Watched`), both of them at the rename: two events
are enough for a lost answer, the event of the other recorder and the repeated
request. No fairness is assumed. `CHECK_DEADLOCK FALSE`: the run ends.

### 7.3 Proofs

`FileActionsProofs` proves every property of the run for any sets of actions,
plans, recorders and any number of restorations, user moves and events:
`DisplacedIsRecorded`, `AppliedBacked`, `TrashNamed`, `VerdictHolds`,
`AnswersTrue`, `NothingLeftOpen`, `TypeOK` and the action property
`NothingDestroyed`. Assumption: `ConstantsAssumption` (an action is a Trash or a
rename, never both; the key of a restoration differs from every action's).

What is displaced depends on how far the owner got, so the inductive invariant
relates several things:

- `FilesOK`, the files alone: an object passes from the source to the claim and
  to the Trash and is in one place at a time, and one that is not the planned
  object never gets past the claim;
- `StatusOK`, what the status of a row says about its effect: nothing was taken,
  everything taken is back (`Intact`), or the planned object was taken and can be
  restored (`Backed`);
- `HandOK`, what the owner knows at each `pc` about the rows in its hand, for
  instance that a row about to be persisted as blocked is `Intact`. Its part
  `CallOK` is about a row while KIO is called: one without an outcome and without
  a claim has no effect yet, which is what lets a call be made again;
- `OpenOK`, `VerdictsOK`: about rows nobody has in hand, and verdicts of recorders;
- `AnswersOK`: the events of a row form one chain (`Chained`), so no two of them
  are the same request; what a recorder asks for was true of its row once
  (`Known`), and a request that met a conflict can never be current again
  (`Answered`). `AnswersTrue` alone is not inductive: a conflict must stay one
  although rows move on and the chain grows.

Steps other than the recorders' keep `AnswersOK` because a row never loses its
record nor goes back over the frontier (`RecordsKept`). A crash empties the
hand, and the proof shows that it leaves a row either open or with a status
that `StatusOK` backs, whatever write was under way.

## 8. Not modelled

- Framework runs and orchestration: except for abandoned file actions. Their
  methods check in `SELECT`s before the implicit transaction of the first
  write, see the hazard at `framework_state_runs.py:1140`.
- Bounded subprocesses, watcher, scratch, purge, restore and reset, content
  admission, document catalog, deduplication, curation and retention planning:
  stateful and within reach; planned in the order of section 2.
- Semantic lineage and the text and image pipelines: planned on top of
  `SemanticGenerations`. Text adds the publication of chunk sets.
- Formats, intake of containers, knowledge queries, API and interface: mostly
  pure transformations and adapters of external tools; what they share with
  others (resources, publication, actions) is modelled where it is shared.
- SQLite itself: a transaction is one step, a failed one leaves no trace.

## 9. What is proved, and what is only model-checked

| Proof module | Rests on | Properties proved for every instance |
|---|---|---|
| `StatePublicationProofs` | `StatePublication` | `TypeOK`, `FenceIsTail`, `ManifestBacked`, `PointerBacked`, `OncePerKey` |
| `PublicationGateProofs` | `StatePublicationProofs` | `EpochsConsecutive`, `FreshView`; serialised: `HandleIsFenced`, `GateCoherent`, `RollbackProven`, `ImplementsGate` |
| `SemanticGenerationsProofs` | `SemanticGenerations` | `TypeOK`, `HintSound`, `NoStranded`, `SingleFlight`, `VectorOfContent`, `HeadBacked`, `OneCandidate`, `HeadCAS`, `PublishedCurrent`, `FrozenSnapshot` |
| `ResourceCoordinatorProofs` | `ResourceCoordinator` | `TypeOK`, `LedgerExact`, `WithinLimits` |
| `ElasticMapProofs` | `ElasticMap`, `ResourceCoordinatorProofs` | `DeliversAll`, `ResultHeld`, `NothingLeft`; `LedgerExact`, `WithinLimits` under the maps |
| `FileActionsProofs` | `FileActions` | `TypeOK`, `DisplacedIsRecorded`, `NothingLeftOpen`, `AppliedBacked`, `TrashNamed`, `VerdictHolds`, `AnswersTrue`, `NothingDestroyed` |

The bounds of the runs (`MaxEvents`, `MaxFaults`, `MaxChanges`, ...) are
arbitrary naturals in the proofs: no theorem depends on their values.

Only model-checked:
- liveness, which needs fairness and ENABLED: `Drained`, `Served`, `DrainServed`,
  `WaitsEnd`, `Completes`;
- what a recursive definition computes for every input.

## 10. Running

    tlc -workers 2 -config StatePublication_serial.cfg MCStatePublication
    tlc -workers 2 -config SemanticGenerations_leases.cfg MCSemanticGenerations
    tlc -workers 2 -config ResourceCoordinator_ledger.cfg MCResourceCoordinator
    tlc -workers 2 -config ElasticMap_maps.cfg MCElasticMap
    tlc -workers 2 -config FileActions_run.cfg MCFileActions
    tlapm StatePublicationProofs.tla
    tlapm PublicationGateProofs.tla
    tlapm SemanticGenerationsProofs.tla
    tlapm ResourceCoordinatorProofs.tla
    tlapm ElasticMapProofs.tla
    tlapm FileActionsProofs.tla

Every passing run takes between some seconds and three minutes, every
proof module less than ten.
