---------------------- MODULE SemanticGenerationsProofs ----------------------
(***************************************************************************)
(* Proofs about SemanticGenerations for every number of items, revisions,  *)
(* workers, generations, failures and source changes.                      *)
(***************************************************************************)
EXTENDS SemanticGenerations, FiniteSetTheorems, TLAPS

-----------------------------------------------------------------------------
(* The inductive invariant. *)

\* A row of embedding_jobs, judged against the sources src: a pending job has
\* an attempt left, a lease was charged, and an unfinished job matches its
\* source or carries the hint.
JobOK(src, e, j) ==
    j # None =>
        /\ j.status = "pending" => j.attempts < MaxAttempts
        /\ j.status = "leased" => j.attempts > 0
        /\ j.status \in {"pending", "leased"} =>
              \/ src[e] # None /\ ContentOf[src[e]] = j.content
              \/ j.dirty

Row  == Job \cup {None}
Rows == [Entities -> Row]

\* What a worker holds: leases of one generation, one per item, of the
\* content their rows still have as long as the rows are leased to it.
WorkOK(w) ==
    /\ IsFiniteSet(work[w].todo)
    /\ work[w].todo # {} \/ work[w].mode # "idle" => work[w].gen \in Gens
    /\ \A l, m \in work[w].todo : l.entity = m.entity => l = m
    /\ \A l \in work[w].todo :
          LET j == jobs[work[w].gen][l.entity]
          IN  j # None /\ j.status = "leased" /\ j.owner = w => j.content = l.content

\* Only a building generation that has a base still to copy is cloning.
GenOK(g) ==
    /\ gens[g].status # "absent" /\ gens[g].base = None => gens[g].cloned
    /\ gens[g].cloning => Building(g) /\ ~gens[g].cloned

\* Every member of every generation has a stored vector.
MembersBacked ==
    \A g \in Gens, e \in Entities :
        members[g][e] # None => payloads[ContentOf[members[g][e]]] # None

HeadReady == head # None => gens[head].status = "ready"

\* The parts of the invariant read disjoint variables: leases source, jobs
\* and work; vectors members and payloads; candidates gens and head.
LeaseInv ==
    /\ source \in [Entities -> Revs \cup {None}]
    /\ jobs \in [Gens -> Rows] /\ work \in [Workers -> Memory]
    /\ \A g \in Gens, e \in Entities : JobOK(source, e, jobs[g][e])
    /\ SingleFlight
    /\ \A w \in Workers : WorkOK(w)

VectorInv ==
    /\ members \in [Gens -> [Entities -> Revs \cup {None}]]
    /\ payloads \in [Contents -> Contents \cup {None}]
    /\ VectorOfContent /\ MembersBacked

CandidateInv ==
    /\ gens \in [Gens -> Generation] /\ head \in Gens \cup {None}
    /\ \A g \in Gens : GenOK(g)
    /\ HeadReady /\ OneCandidate

CountInv == changes \in 0 .. MaxChanges /\ faults \in 0 .. MaxFaults

IInv == LeaseInv /\ VectorInv /\ CandidateInv /\ CountInv

-----------------------------------------------------------------------------
(* Rows of embedding_jobs. *)

\* A lease in row k was one in row j, of the same worker and content.
Lessened(j, k) ==
    k # None /\ k.status = "leased" =>
        j # None /\ j.status = "leased" /\ k.owner = j.owner /\ k.content = j.content

\* Row j of entity e may become k under the sources src.
Step(src, e, j, k) == k \in Row /\ JobOK(src, e, k) /\ Lessened(j, k)

\* The shape of a row, apart from the types of its columns.
Shaped(k) ==
    k = [f \in {"status", "attempts", "content", "owner", "ttl", "wait", "dirty"} |-> k[f]]

\* The columns of a row.
LEMMA JobFields ==
    ASSUME NEW j \in Job
    PROVE  /\ j.status \in {"pending", "leased", "done", "error", "stale"}
           /\ j.attempts \in 0 .. MaxAttempts /\ j.content \in Contents
           /\ j.owner \in Workers \cup {None} /\ j.ttl \in 0 .. LeaseTicks
           /\ j.wait \in 0 .. RetryTicks /\ j.dirty \in BOOLEAN
           /\ DOMAIN j = {"status", "attempts", "content", "owner", "ttl", "wait", "dirty"}
  BY DEF Job

\* A row is what its columns make it.
LEMMA JobOfFields ==
    ASSUME NEW k, Shaped(k), k.status \in {"pending", "leased", "done", "error", "stale"},
           k.attempts \in 0 .. MaxAttempts, k.content \in Contents,
           k.owner \in Workers \cup {None}, k.ttl \in 0 .. LeaseTicks,
           k.wait \in 0 .. RetryTicks, k.dirty \in BOOLEAN
    PROVE  k \in Job
  BY DEF Job, Shaped

\* Zero is a time left.
LEMMA Zeros ==
    /\ 0 \in 0 .. LeaseTicks /\ 0 \in 0 .. RetryTicks /\ 0 \in 0 .. MaxAttempts
    /\ LeaseTicks \in 0 .. LeaseTicks /\ RetryTicks \in 0 .. RetryTicks
  BY GenerationConstants

\* A row that keeps its place may keep its value.
LEMMA KeptRow ==
    ASSUME NEW src, NEW e, NEW j \in Row, JobOK(src, e, j)
    PROVE  Step(src, e, j, j)
  BY DEF Step, Lessened

\* A row may be deleted.
LEMMA NoRow ==
    ASSUME NEW src, NEW e, NEW j
    PROVE  Step(src, e, j, None)
  BY DEF Step, Lessened, JobOK, Row

\* Two steps of a row are one.
LEMMA StepTwice ==
    ASSUME NEW src, NEW e, NEW i, NEW j, NEW k, Step(src, e, i, j), Step(src, e, j, k)
    PROVE  Step(src, e, i, k)
  BY DEF Step, Lessened

\* A closed row is terminal.
LEMMA ClosedRow ==
    ASSUME NEW src, NEW e, NEW j \in Job, NEW s \in {"done", "error", "stale"}
    PROVE  /\ Step(src, e, j, Closed(j, s)) /\ Closed(j, s) \in Job
           /\ Closed(j, s).status = s /\ Closed(j, s).content = j.content
  <1> DEFINE k == Closed(j, s)
  <1>1. /\ k.status = s /\ k.attempts = j.attempts /\ k.content = j.content
        /\ k.owner = None /\ k.ttl = 0 /\ k.wait = 0 /\ k.dirty = FALSE
    BY DEF Closed, Job
  <1>2. k = [f \in DOMAIN j |-> k[f]]
    BY DEF Closed
  <1> HIDE DEF k
  <1>3. k \in Job
    BY <1>1, <1>2, JobFields, JobOfFields, Zeros DEF Shaped
  <1>4. Step(src, e, j, k)
    BY <1>1, <1>3 DEF Step, Row, JobOK, Lessened
  <1> QED BY <1>1, <1>3, <1>4 DEF k

\* A row that goes back to pending carries the hint.
LEMMA PendingRow ==
    ASSUME NEW src, NEW e, NEW j \in Job, NEW a \in 0 .. MaxAttempts, a < MaxAttempts,
           NEW d \in 0 .. RetryTicks
    PROVE  Step(src, e, j, Pending(j, a, d)) /\ Pending(j, a, d) \in Job
  <1> DEFINE k == Pending(j, a, d)
  <1>1. /\ k.status = "pending" /\ k.attempts = a /\ k.content = j.content
        /\ k.owner = None /\ k.ttl = 0 /\ k.wait = d /\ k.dirty = TRUE
    BY DEF Pending, Job
  <1>2. k = [f \in DOMAIN j |-> k[f]]
    BY DEF Pending
  <1> HIDE DEF k
  <1>3. k \in Job
    BY <1>1, <1>2, JobFields, JobOfFields, Zeros DEF Shaped
  <1>4. Step(src, e, j, k)
    BY <1>1, <1>3 DEF Step, Row, JobOK, Lessened
  <1> QED BY <1>3, <1>4 DEF k

\* A row may be hinted, and the hint goes with a row that matches its source.
LEMMA HintedRow ==
    ASSUME NEW src, NEW old, NEW e, NEW j \in Job, j # None, JobOK(old, e, j),
           NEW h \in BOOLEAN, h \/ (src[e] # None /\ ContentOf[src[e]] = j.content)
    PROVE  /\ Step(src, e, j, [j EXCEPT !.dirty = h]) /\ [j EXCEPT !.dirty = h] \in Job
           /\ [j EXCEPT !.dirty = h].status = j.status
  <1> DEFINE k == [j EXCEPT !.dirty = h]
  <1>1. /\ k.status = j.status /\ k.attempts = j.attempts /\ k.content = j.content
        /\ k.owner = j.owner /\ k.dirty = h /\ k \in Job
    BY DEF Job
  <1> HIDE DEF k
  <1>2. Step(src, e, j, k)
    BY <1>1 DEF Step, Row, JobOK, Lessened
  <1> QED BY <1>1, <1>2 DEF k

\* A row with other times left.
Timed(j, t, d) == [j EXCEPT !.ttl = t, !.wait = d]

\* A lease may be extended, and the times left of a row may run down.
LEMMA TimedRow ==
    ASSUME NEW src, NEW e, NEW j \in Job, j # None, JobOK(src, e, j),
           NEW t \in 0 .. LeaseTicks, NEW d \in 0 .. RetryTicks
    PROVE  Step(src, e, j, Timed(j, t, d))
  <1> DEFINE k == Timed(j, t, d)
  <1>1. /\ k.status = j.status /\ k.attempts = j.attempts /\ k.content = j.content
        /\ k.owner = j.owner /\ k.dirty = j.dirty /\ k \in Job
    BY DEF Job, Timed
  <1> HIDE DEF k
  <1>2. Step(src, e, j, k)
    BY <1>1 DEF Step, Row, JobOK, Lessened
  <1> QED BY <1>1, <1>2 DEF k

\* A queued row is pending with every attempt left.
LEMMA QueuedRow ==
    ASSUME NEW e \in Entities, NEW j \in Row, source[e] # None, NEW i,
           ContentOf[source[e]] \in Contents
    PROVE  Step(source, e, i, Queued(j, ContentOf[source[e]]))
  <1> DEFINE k == Queued(j, ContentOf[source[e]])
  <1>1. /\ k.status = "pending" /\ k.attempts = 0 /\ k.content = ContentOf[source[e]]
        /\ k.owner = None /\ k.ttl = 0 /\ k.wait = 0 /\ k.dirty \in BOOLEAN /\ Shaped(k)
    BY JobFields DEF Queued, Shaped, Row
  <1> HIDE DEF k
  <1>2. k \in Job
    BY <1>1, JobOfFields, Zeros
  <1>3. Step(source, e, i, k)
    BY <1>1, <1>2, GenerationConstants DEF Step, Row, JobOK, Lessened
  <1> QED BY <1>3 DEF k

\* _mark_stale_jobs is a step of every row.
LEMMA StaleRows ==
    ASSUME NEW J \in Rows, NEW full \in BOOLEAN,
           \A e \in Entities : JobOK(source, e, J[e])
    PROVE  /\ MarkStale(J, full) \in Rows
           /\ \A e \in Entities : Step(source, e, J[e], MarkStale(J, full)[e])
  <1>1. ASSUME NEW e \in Entities
        PROVE  Step(source, e, J[e], MarkStale(J, full)[e])
    <2> DEFINE j == J[e]
               k == MarkStale(J, full)[e]
    <2>1. k = IF ~Unfinished(j) THEN j
              ELSE IF Current(e, j) THEN [j EXCEPT !.dirty = FALSE]
              ELSE IF full \/ j.dirty THEN Closed(j, "stale") ELSE j
      BY DEF MarkStale
    <2>2. j \in Row /\ JobOK(source, e, j)
      BY DEF Rows
    <2>3. Unfinished(j) => j # None /\ j \in Job
      BY <2>2 DEF Row, Unfinished
    <2> HIDE DEF j, k
    <2>4. CASE k = j
      BY <2>2, <2>4, KeptRow DEF j, k
    <2>5. CASE Unfinished(j) /\ Current(e, j)
      <3>1. Step(source, e, j, [j EXCEPT !.dirty = FALSE])
        BY <2>2, <2>3, <2>5, HintedRow DEF Current
      <3> QED BY <2>1, <2>5, <3>1 DEF j, k
    <2>6. CASE Unfinished(j) /\ k = Closed(j, "stale")
      BY <2>3, <2>6, ClosedRow DEF j, k
    <2> QED BY <2>1, <2>4, <2>5, <2>6
  <1>2. \A e \in Entities : MarkStale(J, full)[e] \in Row
    BY <1>1 DEF Step
  <1> QED BY <1>1, <1>2 DEF MarkStale, Rows

\* _reconcile_expired_embedding_leases is a step of every row.
LEMMA ReconciledRows ==
    ASSUME NEW J \in Rows, \A e \in Entities : JobOK(source, e, J[e])
    PROVE  /\ Reconciled(J) \in Rows
           /\ \A e \in Entities : Step(source, e, J[e], Reconciled(J)[e])
  <1>1. ASSUME NEW e \in Entities
        PROVE  Step(source, e, J[e], Reconciled(J)[e])
    <2> DEFINE j == J[e]
               k == Reconciled(J)[e]
    <2>1. k = IF j = None \/ j.status # "leased" \/ j.ttl > 0 THEN j
              ELSE IF j.attempts < MaxAttempts THEN Pending(j, j.attempts, 0)
              ELSE Closed(j, "error")
      BY DEF Reconciled
    <2>2. j \in Row /\ JobOK(source, e, j)
      BY DEF Rows
    <2>3. j # None => j \in Job
      BY <2>2 DEF Row
    <2> HIDE DEF j, k
    <2>4. CASE k = j
      BY <2>2, <2>4, KeptRow DEF j, k
    <2>5. CASE j # None /\ j.attempts < MaxAttempts /\ k = Pending(j, j.attempts, 0)
      BY <2>3, <2>5, PendingRow, JobFields, Zeros DEF j, k
    <2>6. CASE j # None /\ k = Closed(j, "error")
      BY <2>3, <2>6, ClosedRow DEF j, k
    <2> QED BY <2>1, <2>4, <2>5, <2>6
  <1>2. \A e \in Entities : Reconciled(J)[e] \in Row
    BY <1>1 DEF Step
  <1> QED BY <1>1, <1>2 DEF Reconciled, Rows

-----------------------------------------------------------------------------
(* Leases. *)

\* What a worker holds goes from m to n without a new lease.
Shrinks(m, n) ==
    \/ n.mode = "idle" /\ n.todo = {}
    \/ /\ n.gen = m.gen /\ n.todo \subseteq m.todo
       /\ n.mode # "idle" => m.mode # "idle"

\* A step of the rows that creates no lease keeps the leases sound.
LEMMA LeaseStep ==
    ASSUME LeaseInv, source' \in [Entities -> Revs \cup {None}],
           jobs' \in [Gens -> Rows], work' \in [Workers -> Memory],
           \A g \in Gens, e \in Entities : Step(source', e, jobs[g][e], jobs'[g][e]),
           \A w \in Workers : Shrinks(work[w], work'[w])
    PROVE  LeaseInv'
  <1>1. \A g \in Gens, e \in Entities : JobOK(source', e, jobs'[g][e])
    BY DEF Step
  <1>2. \A g \in Gens, e \in Entities : Lessened(jobs[g][e], jobs'[g][e])
    BY DEF Step
  <1>3. SingleFlight'
    BY <1>2 DEF SingleFlight, Lessened, LeaseInv
  <1>4. ASSUME NEW w \in Workers
        PROVE  WorkOK(w)'
    <2>1. WorkOK(w) /\ Shrinks(work[w], work'[w])
      BY DEF LeaseInv
    <2>2. CASE work'[w].mode = "idle" /\ work'[w].todo = {}
      BY <2>2, FS_EmptySet DEF WorkOK
    <2>3. CASE /\ work'[w].gen = work[w].gen /\ work'[w].todo \subseteq work[w].todo
               /\ work'[w].mode # "idle" => work[w].mode # "idle"
      <3>1. IsFiniteSet(work'[w].todo)
        BY <2>1, <2>3, FS_Subset DEF WorkOK
      <3>2. work'[w].todo # {} \/ work'[w].mode # "idle" => work'[w].gen \in Gens
        BY <2>1, <2>3 DEF WorkOK
      <3>3. \A l, m \in work'[w].todo : l.entity = m.entity => l = m
        BY <2>1, <2>3 DEF WorkOK
      <3>4. ASSUME NEW l \in work'[w].todo
            PROVE  LET j == jobs'[work'[w].gen][l.entity]
                   IN  j # None /\ j.status = "leased" /\ j.owner = w
                          => j.content = l.content
        <4>1. l \in work[w].todo /\ work[w].gen \in Gens
          BY <2>1, <2>3, <3>4 DEF WorkOK
        <4>2. l.entity \in Entities
          BY <4>1 DEF LeaseInv, Memory, Lease
        <4>3. Lessened(jobs[work[w].gen][l.entity], jobs'[work[w].gen][l.entity])
          BY <1>2, <4>1, <4>2
        <4> QED BY <2>1, <2>3, <4>1, <4>3 DEF WorkOK, Lessened
      <3> QED BY <3>1, <3>2, <3>3, <3>4 DEF WorkOK
    <2> QED BY <2>1, <2>2, <2>3 DEF Shrinks
  <1> QED BY <1>1, <1>3, <1>4 DEF LeaseInv

\* Workers that hold what they held.
LEMMA WorkKept ==
    ASSUME LeaseInv, work' = work
    PROVE  work' \in [Workers -> Memory] /\ \A w \in Workers : Shrinks(work[w], work'[w])
  BY DEF LeaseInv, Shrinks

\* The rows of one generation step together.
LEMMA GenerationStep ==
    ASSUME LeaseInv, source' = source, work' \in [Workers -> Memory],
           \A w \in Workers : Shrinks(work[w], work'[w]),
           NEW g \in Gens, NEW R \in Rows, jobs' = [jobs EXCEPT ![g] = R],
           \A e \in Entities : Step(source, e, jobs[g][e], R[e])
    PROVE  LeaseInv'
  <1>1. jobs' \in [Gens -> Rows]
    BY DEF LeaseInv
  <1>2. ASSUME NEW h \in Gens, NEW e \in Entities
        PROVE  Step(source', e, jobs[h][e], jobs'[h][e])
    <2>1. CASE h = g
      BY <2>1 DEF LeaseInv
    <2>2. CASE h # g
      <3>1. jobs'[h] = jobs[h]
        BY <2>2 DEF LeaseInv
      <3>2. jobs[h][e] \in Row /\ JobOK(source, e, jobs[h][e])
        BY DEF LeaseInv, Rows
      <3> QED BY <3>1, <3>2, KeptRow
    <2> QED BY <2>1, <2>2
  <1> QED BY <1>1, <1>2, LeaseStep DEF LeaseInv

\* One row steps.
LEMMA RowStep ==
    ASSUME LeaseInv, source' = source, work' \in [Workers -> Memory],
           \A w \in Workers : Shrinks(work[w], work'[w]),
           NEW g \in Gens, NEW e \in Entities, NEW k, jobs' = [jobs EXCEPT ![g][e] = k],
           Step(source, e, jobs[g][e], k)
    PROVE  LeaseInv'
  <1> DEFINE R == [jobs[g] EXCEPT ![e] = k]
  <1>1. jobs[g] \in Rows /\ k \in Row
    BY DEF LeaseInv, Step
  <1>2. R \in Rows
    BY <1>1 DEF Rows
  <1>3. jobs' = [jobs EXCEPT ![g] = R]
    BY DEF LeaseInv
  <1>4. ASSUME NEW f \in Entities
        PROVE  Step(source, f, jobs[g][f], R[f])
    <2>1. jobs[g][f] \in Row /\ JobOK(source, f, jobs[g][f])
      BY DEF LeaseInv, Rows
    <2>2. CASE f = e
      BY <1>1, <2>2 DEF Rows
    <2>3. CASE f # e
      BY <1>1, <2>1, <2>3, KeptRow DEF Rows
    <2> QED BY <2>2, <2>3
  <1> HIDE DEF R
  <1> QED BY <1>2, <1>3, <1>4, GenerationStep

\* The jobs are left alone.
LEMMA JobsKept ==
    ASSUME LeaseInv, source' = source, jobs' = jobs, work' \in [Workers -> Memory],
           \A w \in Workers : Shrinks(work[w], work'[w])
    PROVE  LeaseInv'
  <1>1. ASSUME NEW h \in Gens, NEW e \in Entities
        PROVE  Step(source', e, jobs[h][e], jobs'[h][e])
    BY KeptRow DEF LeaseInv, Rows
  <1> QED BY <1>1, LeaseStep DEF LeaseInv

\* One worker goes from what it held to n.
LEMMA WorkerStepKept ==
    ASSUME LeaseInv, NEW w \in Workers, NEW n \in Memory, work' = [work EXCEPT ![w] = n],
           Shrinks(work[w], n)
    PROVE  work' \in [Workers -> Memory] /\ \A v \in Workers : Shrinks(work[v], work'[v])
  BY DEF LeaseInv, Shrinks

\* The parts of the invariant that a step leaves alone.
LEMMA Unchanged ==
    /\ LeaseInv /\ UNCHANGED <<source, jobs, work>> => LeaseInv'
    /\ VectorInv /\ UNCHANGED <<members, payloads>> => VectorInv'
    /\ CandidateInv /\ UNCHANGED <<gens, head>> => CandidateInv'
    /\ CountInv /\ UNCHANGED <<changes, faults>> => CountInv'
  <1>1. LeaseInv /\ UNCHANGED <<source, jobs, work>> => LeaseInv'
    BY DEF LeaseInv, JobOK, SingleFlight, WorkOK
  <1>2. VectorInv /\ UNCHANGED <<members, payloads>> => VectorInv'
    BY DEF VectorInv, VectorOfContent, MembersBacked
  <1>3. CandidateInv /\ UNCHANGED <<gens, head>> => CandidateInv'
    BY DEF CandidateInv, GenOK, HeadReady, OneCandidate, Building
  <1>4. CountInv /\ UNCHANGED <<changes, faults>> => CountInv'
    BY DEF CountInv
  <1> QED BY <1>1, <1>2, <1>3, <1>4


-----------------------------------------------------------------------------
(* Sources. *)

\* The triggers hint every job that a changed source no longer matches.
LEMMA DirtiedRows ==
    ASSUME LeaseInv, NEW e \in Entities, NEW r \in Revs \cup {None},
           source' = [source EXCEPT ![e] = r]
    PROVE  /\ Dirtied(e, r) \in [Gens -> Rows]
           /\ \A g \in Gens, f \in Entities :
                 Step(source', f, jobs[g][f], Dirtied(e, r)[g][f])
  <1> DEFINE same == \/ source[e] = r
                     \/ /\ source[e] # None /\ r # None
                        /\ ContentOf[source[e]] = ContentOf[r]
             D == Dirtied(e, r)
  <1>1. ASSUME NEW g \in Gens, NEW f \in Entities
        PROVE  Step(source', f, jobs[g][f], D[g][f]) /\ D[g] \in Rows
    <2> DEFINE j == jobs[g][e]
               k == [j EXCEPT !.dirty = TRUE]
    <2>1. jobs[g] \in Rows /\ jobs[g][f] \in Row /\ JobOK(source, f, jobs[g][f])
      BY DEF LeaseInv, Rows
    <2>2. D[g] = IF same \/ ~Unfinished(j) THEN jobs[g] ELSE [jobs[g] EXCEPT ![e] = k]
      BY DEF Dirtied
    <2>3. source'[e] = r /\ (f # e => source'[f] = source[f])
      BY DEF LeaseInv
    <2>4. D[g] \in Rows
      <3>1. CASE same \/ ~Unfinished(j)
        BY <2>1, <2>2, <3>1
      <3>2. CASE Unfinished(j) /\ ~same
        <4>1. j \in Job /\ j # None /\ JobOK(source, e, j)
          BY <3>2 DEF Unfinished, Row, LeaseInv, Rows
        <4>2. k \in Row
          BY <4>1, HintedRow DEF Row
        <4> QED BY <2>1, <2>2, <3>2, <4>2 DEF Rows
      <3> QED BY <3>1, <3>2
    <2>5. CASE f # e
      <3>1. JobOK(source', f, jobs[g][f])
        BY <2>1, <2>3, <2>5 DEF JobOK
      <3>2. D[g][f] = jobs[g][f]
        BY <2>1, <2>2, <2>5 DEF Rows
      <3> QED BY <2>1, <2>4, <3>1, <3>2, KeptRow
    <2>6. CASE f = e /\ (same \/ ~Unfinished(j))
      <3>1. JobOK(source', f, jobs[g][f])
        BY <2>1, <2>3, <2>6 DEF JobOK, Unfinished
      <3> QED BY <2>1, <2>2, <2>6, <2>4, <3>1, KeptRow
    <2>7. CASE f = e /\ Unfinished(j) /\ ~same
      <3>1. j \in Job /\ j # None /\ JobOK(source, e, j)
        BY <2>1, <2>7 DEF Unfinished, Row
      <3>2. Step(source', e, j, k)
        BY <3>1, HintedRow
      <3>3. D[g][f] = k
        BY <2>1, <2>2, <2>7 DEF Rows
      <3> QED BY <2>7, <2>4, <3>2, <3>3
    <2> QED BY <2>5, <2>6, <2>7
  <1>2. \A g \in Gens : D[g] \in Rows
    BY <1>1
  <1> QED BY <1>1, <1>2 DEF Dirtied

\* A source changes.
LEMMA StageItemStep ==
    ASSUME IInv, NEW e \in Entities, NEW r \in Revs \cup {None}, StageItem(e, r)
    PROVE  IInv'
  <1>1. source' = [source EXCEPT ![e] = r] /\ jobs' = Dirtied(e, r) /\ LeaseInv
    BY DEF StageItem, IInv
  <1>2. source' \in [Entities -> Revs \cup {None}]
    BY <1>1 DEF LeaseInv
  <1>3. LeaseInv'
    BY <1>1, <1>2, DirtiedRows, WorkKept, LeaseStep DEF StageItem
  <1>4. CountInv'
    BY GenerationConstants DEF StageItem, IInv, CountInv
  <1> QED BY <1>3, <1>4, Unchanged DEF StageItem, IInv

\* A mismatched source is dropped, unless it changed meanwhile.
LEMMA DeactivateStep ==
    ASSUME IInv, NEW w \in Workers, Deactivate(w)
    PROVE  IInv'
  <1> DEFINE l == work[w].drop
             n == [work[w] EXCEPT !.drop = None]
             match == source[l.entity] # None /\ ContentOf[source[l.entity]] = l.content
  <1>1. LeaseInv /\ work[w] \in Memory /\ l # None /\ work' = [work EXCEPT ![w] = n]
    BY DEF Deactivate, IInv, LeaseInv
  <1>2. l.entity \in Entities
    BY <1>1 DEF Memory, Lease
  <1>3. n \in Memory /\ Shrinks(work[w], n)
    BY <1>1 DEF Memory, Shrinks
  <1> HIDE DEF n
  <1>4. work' \in [Workers -> Memory] /\ \A v \in Workers : Shrinks(work[v], work'[v])
    BY <1>1, <1>3, WorkerStepKept
  <1>5. LeaseInv'
    <2>1. CASE match
      <3>1. /\ source' = [source EXCEPT ![l.entity] = None]
            /\ jobs' = Dirtied(l.entity, None)
        BY <2>1 DEF Deactivate
      <3>2. source' \in [Entities -> Revs \cup {None}]
        BY <1>1, <1>2, <3>1 DEF LeaseInv
      <3> HIDE DEF l
      <3>3. /\ jobs' \in [Gens -> Rows]
            /\ \A g \in Gens, f \in Entities : Step(source', f, jobs[g][f], jobs'[g][f])
        BY <1>1, <1>2, <3>1, DirtiedRows
      <3> QED BY <1>1, <1>4, <3>2, <3>3, LeaseStep
    <2>2. CASE ~match
      <3>1. source' = source /\ jobs' = jobs
        BY <2>2 DEF Deactivate
      <3> QED BY <1>1, <1>4, <3>1, JobsKept
    <2> QED BY <2>1, <2>2
  <1> QED BY <1>5, Unchanged DEF Deactivate, IInv


-----------------------------------------------------------------------------
(* Candidates. *)

\* The columns of a generation row.
LEMMA GenFields ==
    ASSUME NEW r \in Generation
    PROVE  /\ r.status \in Status /\ r.sig \in Signatures \cup {None}
           /\ r.prov \in Provenances \cup {None} /\ r.base \in Gens \cup {None}
           /\ r.cloned \in BOOLEAN /\ r.cloning \in BOOLEAN
           /\ r.scanned \in SUBSET Entities /\ r.enumerated \in BOOLEAN
  BY DEF Generation

\* A failed generation keeps what it was built for.
LEMMA FailedRow ==
    ASSUME NEW r \in Generation
    PROVE  /\ Failed(r) \in Generation /\ Failed(r).status = "failed"
           /\ Failed(r).cloning = FALSE /\ Failed(r).cloned = r.cloned
           /\ Failed(r).sig = r.sig /\ Failed(r).prov = r.prov /\ Failed(r).base = r.base
  BY DEF Failed, Generation, Status

\* A building generation goes to r, of the same signature and base.
LEMMA CandidateStep ==
    ASSUME CandidateInv, NEW g \in Gens, Building(g), NEW r \in Generation,
           r.sig = gens[g].sig, r.base = gens[g].base, gens[g].cloned => r.cloned,
           r.cloning => r.status = "building" /\ ~r.cloned,
           gens' = [gens EXCEPT ![g] = r], head' = head
    PROVE  CandidateInv'
  <1>1. gens' \in [Gens -> Generation] /\ gens'[g] = r
    BY DEF CandidateInv
  <1>2. \A h \in Gens : h # g => gens'[h] = gens[h]
    BY DEF CandidateInv
  <1>3. head # None => head \in Gens /\ head # g
    BY DEF CandidateInv, HeadReady, Building
  <1>4. HeadReady'
    BY <1>2, <1>3 DEF CandidateInv, HeadReady
  <1>5. ASSUME NEW h \in Gens
        PROVE  GenOK(h)'
    <2>1. CASE h = g
      <3>1. GenOK(g)
        BY DEF CandidateInv
      <3> QED BY <1>1, <2>1, <3>1 DEF GenOK, Building
    <2>2. CASE h # g
      BY <1>2, <2>2 DEF CandidateInv, GenOK, Building
    <2> QED BY <2>1, <2>2
  <1>6. OneCandidate'
    <2>1. \A h \in Gens : Building(h)' => Building(h) /\ gens'[h].sig = gens[h].sig
      BY <1>1, <1>2 DEF Building
    <2> QED BY <1>2, <1>3, <2>1 DEF CandidateInv, OneCandidate
  <1> QED BY <1>1, <1>4, <1>5, <1>6 DEF CandidateInv

\* A start resumes or closes what is building of its signature.
LEMMA StartStep ==
    ASSUME IInv, NEW sig \in Signatures, NEW prov \in Provenances, Start(sig, prov)
    PROVE  IInv'
  <1> DEFINE new   == [NoGeneration EXCEPT !.status = "building", !.sig = sig,
                                           !.prov = prov, !.base = head,
                                           !.cloned = (head = None)]
             D     == Displaced(sig, prov)
             after == [g \in Gens |-> IF g \in D THEN Failed(gens[g]) ELSE gens[g]]
  <1>1. CandidateInv /\ head' = head /\ gens \in [Gens -> Generation]
    BY DEF IInv, CandidateInv, Start
  <1>2. \A g \in D : g \in Gens /\ Building(g)
    BY DEF Displaced, Superseded, Resumable
  <1>3. \A g \in Gens : after[g] = IF g \in D THEN Failed(gens[g]) ELSE gens[g]
    OBVIOUS
  <1>4. after \in [Gens -> Generation]
    BY <1>1, FailedRow
  <1>5. \A g \in Gens : after[g].status = "building" => g \notin D /\ Building(g)
    BY <1>1, <1>3, FailedRow DEF Building
  <1>6. \A g \in Gens : gens[g].status \in {"ready", "absent"} => after[g] = gens[g]
    BY <1>2, <1>3 DEF Building
  <1>7. \A g \in Gens : /\ after[g].status # "absent" /\ after[g].base = None
                              => after[g].cloned
                        /\ after[g].cloning =>
                              after[g].status = "building" /\ ~after[g].cloned
    <2> SUFFICES ASSUME NEW g \in Gens
                 PROVE  /\ after[g].status # "absent" /\ after[g].base = None
                              => after[g].cloned
                        /\ after[g].cloning =>
                              after[g].status = "building" /\ ~after[g].cloned
      OBVIOUS
    <2>1. GenOK(g) /\ gens[g] \in Generation
      BY <1>1 DEF CandidateInv
    <2>2. CASE g \in D
      BY <1>2, <1>3, <2>1, <2>2, FailedRow DEF GenOK, Building
    <2>3. CASE g \notin D
      BY <1>3, <2>1, <2>3 DEF GenOK, Building
    <2> QED BY <2>2, <2>3
  <1>8. \A g \in Gens : gens[g].status = "building" /\ gens[g].sig = sig
                           => g \in D \/ g \in Resumable(sig, prov)
    BY DEF Displaced, Building
  <1>9. head # None => head \in Gens /\ gens[head].status = "ready"
    BY <1>1 DEF CandidateInv, HeadReady
  <1>10. \A g \in Gens : after[g].status = "building" => after[g].sig = gens[g].sig
    BY <1>3, <1>5
  <1> HIDE DEF after, D
  <1>11. CASE gens' = after
    <2>1. HeadReady'
      BY <1>1, <1>6, <1>9, <1>11 DEF HeadReady
    <2>2. \A g \in Gens : GenOK(g)'
      BY <1>7, <1>11 DEF GenOK, Building
    <2>3. OneCandidate'
      BY <1>1, <1>5, <1>6, <1>9, <1>10, <1>11 DEF CandidateInv, OneCandidate, Building
    <2> QED BY <1>1, <1>4, <1>11, <2>1, <2>2, <2>3, Unchanged DEF Start, IInv, CandidateInv
  <1>12. ASSUME NEW g \in Gens, Resumable(sig, prov) = {}, gens[g].status = "absent",
                gens' = [after EXCEPT ![g] = new]
         PROVE  IInv'
    <2>1. /\ new \in Generation /\ new.status = "building" /\ new.sig = sig
          /\ new.base = head /\ new.cloned = (head = None) /\ new.cloning = FALSE
      BY <1>1 DEF NoGeneration, Generation, Status, CandidateInv
    <2> HIDE DEF new
    <2>2. gens' \in [Gens -> Generation] /\ gens'[g] = new
      BY <1>4, <1>12, <2>1
    <2>3. \A h \in Gens : h # g => gens'[h] = after[h]
      BY <1>4, <1>12
    <2>4. HeadReady'
      BY <1>1, <1>6, <1>9, <1>12, <2>3 DEF HeadReady
    <2>5. ASSUME NEW h \in Gens
          PROVE  GenOK(h)'
      <3>1. CASE h = g
        BY <2>1, <2>2, <3>1 DEF GenOK
      <3>2. CASE h # g
        BY <1>7, <2>3, <3>2 DEF GenOK, Building
      <3> QED BY <3>1, <3>2
    <2>6. \A h \in Gens : h # g /\ gens'[h].status = "building"
                             => Building(h) /\ gens'[h].sig = gens[h].sig
                                /\ gens'[h].sig # sig
      BY <1>5, <1>8, <1>10, <1>12, <2>3 DEF Building
    <2>7. OneCandidate'
      <3>1. \A h, i \in Gens : Building(h)' /\ Building(i)' /\ gens'[h].sig = gens'[i].sig
                                  => h = i
        BY <1>1, <2>1, <2>2, <2>6 DEF CandidateInv, OneCandidate, Building
      <3>2. head # None => gens'[head] = gens[head]
        BY <1>6, <1>9, <1>12, <2>3
      <3> QED BY <1>1, <3>1, <3>2 DEF CandidateInv, OneCandidate
    <2> QED BY <1>1, <2>2, <2>4, <2>5, <2>7, Unchanged DEF Start, IInv, CandidateInv
  <1> QED BY <1>11, <1>12 DEF Start, after, D


\* The enumeration cursor is cleared or completed.
LEMMA SetCursorStep ==
    ASSUME IInv, NEW g \in Gens, NEW complete \in BOOLEAN, SetCursor(g, complete)
    PROVE  IInv'
  <1> DEFINE r == [gens[g] EXCEPT !.enumerated = complete]
  <1>1. CandidateInv /\ Building(g) /\ gens[g] \in Generation /\ GenOK(g)
    BY DEF IInv, CandidateInv, SetCursor
  <1>2. gens' = [gens EXCEPT ![g] = r] /\ head' = head
    BY DEF SetCursor
  <1>3. /\ r \in Generation /\ r.status = gens[g].status /\ r.sig = gens[g].sig
        /\ r.base = gens[g].base /\ r.cloned = gens[g].cloned /\ r.cloning = gens[g].cloning
    BY <1>1 DEF Generation
  <1> HIDE DEF r
  <1>4. CandidateInv'
    BY <1>1, <1>2, <1>3, CandidateStep DEF GenOK, Building
  <1> QED BY <1>4, Unchanged DEF SetCursor, IInv

\* A building generation that is given up.
LEMMA FailedStep ==
    ASSUME CandidateInv, NEW g \in Gens, Building(g), head' = head,
           gens' = [gens EXCEPT ![g] = Failed(gens[g])]
    PROVE  CandidateInv'
  <1>1. gens[g] \in Generation
    BY DEF CandidateInv
  <1> QED BY <1>1, FailedRow, CandidateStep

\* A preparation gives up, elides or starts to clone.
LEMMA PrepareStep ==
    ASSUME IInv, NEW g \in Gens, Prepare(g)
    PROVE  IInv'
  <1>1. /\ CandidateInv /\ Building(g) /\ gens[g] \in Generation /\ GenOK(g)
        /\ ~gens[g].cloning /\ head' = head
    BY DEF IInv, CandidateInv, Prepare
  <1>2. CandidateInv'
    <2>1. CASE gens' = [gens EXCEPT ![g] = Failed(@)]
      BY <1>1, <2>1, FailedStep
    <2>2. CASE gens' = [gens EXCEPT ![g].status = "elided"]
      <3> DEFINE r == [gens[g] EXCEPT !.status = "elided"]
      <3>1. gens' = [gens EXCEPT ![g] = r]
        BY <2>2
      <3>2. /\ r \in Generation /\ r.sig = gens[g].sig /\ r.base = gens[g].base
            /\ r.cloned = gens[g].cloned /\ r.cloning = gens[g].cloning
        BY <1>1 DEF Generation, Status
      <3> HIDE DEF r
      <3> QED BY <1>1, <3>1, <3>2, CandidateStep
    <2>3. CASE ~gens[g].cloned /\ gens' = [gens EXCEPT ![g].cloning = TRUE]
      <3> DEFINE r == [gens[g] EXCEPT !.cloning = TRUE]
      <3>1. gens' = [gens EXCEPT ![g] = r]
        BY <2>3
      <3>2. /\ r \in Generation /\ r.sig = gens[g].sig /\ r.base = gens[g].base
            /\ r.cloned = gens[g].cloned /\ r.status = gens[g].status
        BY <1>1 DEF Generation
      <3> HIDE DEF r
      <3> QED BY <1>1, <2>3, <3>1, <3>2, CandidateStep DEF Building
    <2> QED BY <2>1, <2>2, <2>3 DEF Prepare
  <1> QED BY <1>2, Unchanged DEF Prepare, IInv

\* A cloning generation is building and has a base.
LEMMA CloningHasBase ==
    ASSUME CandidateInv, NEW g \in Gens, gens[g].cloning
    PROVE  Building(g) /\ ~gens[g].cloned /\ gens[g].base \in Gens
  <1>1. GenOK(g) /\ gens[g].base \in Gens \cup {None}
    BY GenFields DEF CandidateInv
  <1> QED BY <1>1 DEF GenOK, Building

\* The clone ends.
LEMMA CloneFinishStep ==
    ASSUME IInv, NEW g \in Gens, CloneFinish(g)
    PROVE  IInv'
  <1> DEFINE r == [gens[g] EXCEPT !.cloned = TRUE, !.cloning = FALSE]
  <1>1. CandidateInv /\ gens[g] \in Generation /\ Building(g)
    BY CloningHasBase DEF IInv, CandidateInv, CloneFinish
  <1>2. gens' = [gens EXCEPT ![g] = r] /\ head' = head
    BY <1>1 DEF CloneFinish, CandidateInv
  <1>3. /\ r \in Generation /\ r.sig = gens[g].sig /\ r.base = gens[g].base
        /\ r.cloned = TRUE /\ r.cloning = FALSE
    BY <1>1 DEF Generation
  <1> HIDE DEF r
  <1>4. CandidateInv'
    BY <1>1, <1>2, <1>3, CandidateStep
  <1> QED BY <1>4, Unchanged DEF CloneFinish, IInv

\* The clone stops between two pages.
LEMMA CloneStopsStep ==
    ASSUME IInv, NEW g \in Gens, CloneStops(g)
    PROVE  IInv'
  <1> DEFINE r == [gens[g] EXCEPT !.cloning = FALSE]
  <1>1. CandidateInv /\ gens[g] \in Generation /\ Building(g)
    BY CloningHasBase DEF IInv, CandidateInv, CloneStops
  <1>2. gens' = [gens EXCEPT ![g] = r] /\ head' = head
    BY <1>1 DEF CloneStops, CandidateInv
  <1>3. /\ r \in Generation /\ r.sig = gens[g].sig /\ r.base = gens[g].base
        /\ r.cloned = gens[g].cloned /\ r.cloning = FALSE
    BY <1>1 DEF Generation
  <1> HIDE DEF r
  <1>4. CandidateInv'
    BY <1>1, <1>2, <1>3, CandidateStep
  <1>5. CountInv'
    BY GenerationConstants DEF CloneStops, IInv, CountInv
  <1> QED BY <1>4, <1>5, Unchanged DEF CloneStops, IInv

\* A source change gives the candidate up.
LEMMA InvalidateStep ==
    ASSUME IInv, NEW g \in Gens, Invalidate(g)
    PROVE  IInv'
  <1>1. CandidateInv'
    BY FailedStep DEF IInv, Invalidate
  <1>2. CountInv'
    BY GenerationConstants DEF Invalidate, IInv, CountInv
  <1> QED BY <1>1, <1>2, Unchanged DEF Invalidate, IInv

-----------------------------------------------------------------------------
(* Members and vectors. *)

\* The members of one generation change to backed ones, and no vector goes.
LEMMA VectorStep ==
    ASSUME VectorInv, NEW g \in Gens, NEW M \in [Entities -> Revs \cup {None}],
           members' = [members EXCEPT ![g] = M],
           payloads' \in [Contents -> Contents \cup {None}], VectorOfContent',
           \A c \in Contents : payloads[c] # None => payloads'[c] # None,
           \A e \in Entities : M[e] # None => payloads'[ContentOf[M[e]]] # None
    PROVE  VectorInv'
  <1>1. members' \in [Gens -> [Entities -> Revs \cup {None}]] /\ members'[g] = M
    BY DEF VectorInv
  <1>2. \A h \in Gens : h # g => members'[h] = members[h]
    BY DEF VectorInv
  <1>3. ASSUME NEW h \in Gens, NEW e \in Entities, members'[h][e] # None
        PROVE  payloads'[ContentOf[members'[h][e]]] # None
    <2>1. CASE h = g
      BY <1>1, <1>3, <2>1
    <2>2. CASE h # g
      <3>1. members[h][e] # None /\ members[h][e] \in Revs
        BY <1>2, <1>3, <2>2 DEF VectorInv
      <3>2. ContentOf[members[h][e]] \in Contents
        BY <3>1 DEF Contents
      <3> QED BY <1>2, <2>2, <3>1, <3>2 DEF VectorInv, MembersBacked
    <2> QED BY <2>1, <2>2
  <1> QED BY <1>1, <1>3 DEF VectorInv, MembersBacked

\* One member changes to a backed one.
LEMMA MemberStep ==
    ASSUME VectorInv, NEW g \in Gens, NEW e \in Entities, NEW r \in Revs,
           members' = [members EXCEPT ![g][e] = r], payloads' = payloads,
           payloads[ContentOf[r]] # None
    PROVE  VectorInv'
  <1> DEFINE M == [members[g] EXCEPT ![e] = r]
  <1>1. members[g] \in [Entities -> Revs \cup {None}]
    BY DEF VectorInv
  <1>2. M \in [Entities -> Revs \cup {None}] /\ members' = [members EXCEPT ![g] = M]
    BY <1>1 DEF VectorInv
  <1>3. \A f \in Entities : M[f] # None => payloads'[ContentOf[M[f]]] # None
    BY <1>1 DEF VectorInv, MembersBacked
  <1>4. payloads' \in [Contents -> Contents \cup {None}] /\ VectorOfContent'
    BY DEF VectorInv, VectorOfContent
  <1> HIDE DEF M
  <1> QED BY <1>2, <1>3, <1>4, VectorStep

\* A page of the clone copies a backed member.
LEMMA ClonePageStep ==
    ASSUME IInv, NEW g \in Gens, NEW e \in Entities, ClonePage(g, e)
    PROVE  IInv'
  <1> DEFINE r == [gens[g] EXCEPT !.scanned = @ \cup {e}]
             m == members[gens[g].base][e]
  <1>1. /\ CandidateInv /\ gens[g] \in Generation /\ Building(g) /\ GenOK(g)
        /\ gens[g].base \in Gens
    BY CloningHasBase DEF IInv, CandidateInv, ClonePage
  <1>2. gens' = [gens EXCEPT ![g] = r] /\ head' = head
    BY <1>1 DEF ClonePage, CandidateInv
  <1>3. /\ r \in Generation /\ r.sig = gens[g].sig /\ r.base = gens[g].base
        /\ r.cloned = gens[g].cloned /\ r.cloning = gens[g].cloning
        /\ r.status = gens[g].status
    BY <1>1 DEF Generation
  <1> HIDE DEF r
  <1>4. CandidateInv'
    BY <1>1, <1>2, <1>3, CandidateStep DEF GenOK, Building
  <1>5. m \in Revs /\ payloads[ContentOf[m]] # None /\ VectorInv
    BY <1>1 DEF ClonePage, IInv, VectorInv, MembersBacked
  <1>6. VectorInv'
    <2>1. CASE members' = members
      BY <1>5, <2>1, Unchanged DEF ClonePage
    <2>2. CASE members' = [members EXCEPT ![g][e] = m]
      BY <1>5, <2>2, MemberStep DEF ClonePage
    <2> QED BY <2>1, <2>2 DEF ClonePage
  <1> QED BY <1>4, <1>6, Unchanged DEF ClonePage, IInv

\* The content of an active source.
LEMMA SourceContent ==
    ASSUME LeaseInv, NEW e \in Entities, source[e] # None
    PROVE  source[e] \in Revs /\ ContentOf[source[e]] \in Contents
  BY DEF LeaseInv, Contents

\* An item is enumerated: its member is reused or rebound, or a job queued.
LEMMA EnqueueStep ==
    ASSUME IInv, NEW g \in Gens, NEW e \in Entities, Enqueue(g, e)
    PROVE  IInv'
  <1> DEFINE r     == source[e]
             m     == QueueMember(g, e)
             prior == jobs[g][e]
             reuse == m # None /\ ContentOf[m] = ContentOf[r]
             k     == IF ~reuse THEN Queued(prior, ContentOf[r])
                      ELSE IF prior = None THEN None ELSE Closed(prior, "done")
  <1>1. /\ LeaseInv /\ VectorInv /\ CandidateInv /\ r # None /\ source' = source
        /\ jobs' = [jobs EXCEPT ![g][e] = k]
    BY DEF Enqueue, IInv
  <1>2. r \in Revs /\ ContentOf[r] \in Contents
    BY <1>1, SourceContent
  <1>3. prior \in Row /\ (prior # None => prior \in Job)
    BY <1>1 DEF LeaseInv, Rows, Row
  <1>4. Step(source, e, prior, k)
    <2>1. CASE ~reuse
      BY <1>1, <1>2, <1>3, <2>1, QueuedRow
    <2>2. CASE reuse /\ prior = None
      BY <2>2, NoRow
    <2>3. CASE reuse /\ prior # None
      BY <1>3, <2>3, ClosedRow
    <2> QED BY <2>1, <2>2, <2>3
  <1>5. LeaseInv'
    <2> HIDE DEF k
    <2> QED BY <1>1, <1>4, WorkKept, RowStep DEF Enqueue
  <1>6. ASSUME reuse
        PROVE  payloads[ContentOf[r]] # None
    <2>1. gens[g].base # None => gens[g].base \in Gens
      BY <1>1, GenFields DEF CandidateInv
    <2>2. \E h \in Gens : m = members[h][e]
      BY <2>1 DEF QueueMember
    <2> QED BY <1>1, <1>6, <2>2 DEF VectorInv, MembersBacked
  <1>7. VectorInv'
    <2>1. CASE members' = members
      BY <1>1, <2>1, Unchanged DEF Enqueue
    <2>2. CASE reuse /\ members' = [members EXCEPT ![g][e] = r]
      BY <1>1, <1>2, <1>6, <2>2, MemberStep DEF Enqueue
    <2> QED BY <2>1, <2>2 DEF Enqueue, Rebound
  <1> QED BY <1>5, <1>7, Unchanged DEF Enqueue, IInv


\* Cached vectors are attached to current jobs of their content.
LEMMA ReuseCachedStep ==
    ASSUME IInv, NEW g \in Gens, ReuseCached(g)
    PROVE  IInv'
  <1> DEFINE J    == MarkStale(jobs[g], FALSE)
             hits == CacheHits(J)
             R    == [e \in Entities |-> IF e \in hits THEN Closed(J[e], "done") ELSE J[e]]
             M    == [e \in Entities |-> IF e \in hits THEN source[e] ELSE members[g][e]]
  <1>1. /\ LeaseInv /\ VectorInv /\ jobs[g] \in Rows
        /\ \A e \in Entities : JobOK(source, e, jobs[g][e])
    BY DEF IInv, LeaseInv
  <1>2. J \in Rows /\ \A e \in Entities : Step(source, e, jobs[g][e], J[e])
    BY <1>1, StaleRows
  <1>3. /\ jobs' = [jobs EXCEPT ![g] = R] /\ members' = [members EXCEPT ![g] = M]
        /\ source' = source /\ work' = work /\ payloads' = payloads
    BY DEF ReuseCached
  <1>4. \A e \in hits : /\ J[e] # None /\ payloads[J[e].content] # None
                        /\ source[e] # None /\ ContentOf[source[e]] = J[e].content
    BY DEF CacheHits, Current
  <1>5. \A e \in Entities : R[e] = IF e \in hits THEN Closed(J[e], "done") ELSE J[e]
    OBVIOUS
  <1>6. \A e \in Entities : M[e] = IF e \in hits THEN source[e] ELSE members[g][e]
    OBVIOUS
  <1>7. R \in [Entities -> {R[e] : e \in Entities}]
    OBVIOUS
  <1>8. M \in [Entities -> Revs \cup {None}]
    BY <1>1 DEF LeaseInv, VectorInv
  <1> HIDE DEF R, M, hits, J
  <1>9. ASSUME NEW e \in Entities
        PROVE  Step(source, e, jobs[g][e], R[e])
    <2>1. CASE e \in hits
      <3>1. J[e] \in Job
        BY <1>2, <1>4, <2>1 DEF Rows, Row
      <3>2. Step(source, e, J[e], R[e])
        BY <1>5, <2>1, <3>1, ClosedRow
      <3> QED BY <1>2, <3>2, StepTwice
    <2>2. CASE e \notin hits
      BY <1>2, <1>5, <2>2
    <2> QED BY <2>1, <2>2
  <1>10. R \in Rows
    BY <1>7, <1>9 DEF Step, Rows
  <1>11. LeaseInv'
    BY <1>1, <1>3, <1>9, <1>10, WorkKept, GenerationStep
  <1>12. \A e \in Entities : M[e] # None => payloads'[ContentOf[M[e]]] # None
    BY <1>1, <1>3, <1>4, <1>6 DEF VectorInv, MembersBacked
  <1>13. VectorInv'
    <2>1. payloads' \in [Contents -> Contents \cup {None}] /\ VectorOfContent'
      BY <1>1, <1>3 DEF VectorInv, VectorOfContent
    <2> QED BY <1>1, <1>3, <1>8, <1>12, <2>1, VectorStep
  <1> QED BY <1>11, <1>13, Unchanged DEF ReuseCached, IInv

\* A generation ends: partial, published, or given up for a moved head.
LEMMA FinalizeStep ==
    ASSUME IInv, NEW g \in Gens, Finalize(g)
    PROVE  IInv'
  <1> DEFINE swept == MarkStale(jobs[g], TRUE)
             J == [e \in Entities |->
                     IF swept[e] # None /\ swept[e].status = "done" /\ ~Current(e, swept[e])
                     THEN None ELSE swept[e]]
             M == [e \in Entities |->
                     IF e \in Obsolete(members[g]) THEN None ELSE members[g][e]]
  <1>1. /\ LeaseInv /\ VectorInv /\ CandidateInv /\ jobs[g] \in Rows
        /\ \A e \in Entities : JobOK(source, e, jobs[g][e])
    BY DEF IInv, LeaseInv
  <1>2. swept \in Rows /\ \A e \in Entities : Step(source, e, jobs[g][e], swept[e])
    BY <1>1, StaleRows
  <1>3. /\ Building(g) /\ gens[g].cloned /\ jobs' = [jobs EXCEPT ![g] = J]
        /\ source' = source /\ work' = work /\ payloads' = payloads
    BY DEF Finalize
  <1>4. \/ gens' = [gens EXCEPT ![g].status = "ready_partial"] /\ members' = members
           /\ head' = head
        \/ /\ gens[g].prov \in Covered /\ members' = [members EXCEPT ![g] = M]
           /\ gens' = [gens EXCEPT ![g].status = "ready"] /\ head' = g
        \/ /\ members' = [members EXCEPT ![g] = M]
           /\ gens' = [gens EXCEPT ![g] = Failed(@)] /\ head' = head
    BY DEF Finalize
  <1>5. LeaseInv'
    <2>1. \A e \in Entities : J[e] = None \/ J[e] = swept[e]
      OBVIOUS
    <2>2. J \in Rows
      BY <1>2 DEF Rows, Row
    <2> HIDE DEF J, swept
    <2>3. \A e \in Entities : Step(source, e, jobs[g][e], J[e])
      BY <1>2, <2>1, NoRow
    <2> QED BY <1>1, <1>3, <2>2, <2>3, WorkKept, GenerationStep
  <1> HIDE DEF J, swept
  <1>6. VectorInv'
    <2>1. CASE members' = members
      BY <1>1, <1>3, <2>1, Unchanged
    <2>2. CASE members' = [members EXCEPT ![g] = M]
      <3>1. payloads' \in [Contents -> Contents \cup {None}] /\ VectorOfContent'
        BY <1>1, <1>3 DEF VectorInv, VectorOfContent
      <3>2. M \in [Entities -> Revs \cup {None}]
        BY <1>1 DEF VectorInv
      <3>3. \A e \in Entities : M[e] = None \/ M[e] = members[g][e]
        OBVIOUS
      <3> HIDE DEF M
      <3>4. \A e \in Entities : M[e] # None => payloads'[ContentOf[M[e]]] # None
        BY <1>1, <1>3, <3>3 DEF VectorInv, MembersBacked
      <3> QED BY <1>1, <1>3, <2>2, <3>1, <3>2, <3>4, VectorStep
    <2> QED BY <1>4, <2>1, <2>2
  <1> HIDE DEF M
  <1>7. gens[g] \in Generation /\ GenOK(g) /\ ~gens[g].cloning
    BY <1>1, <1>3 DEF CandidateInv, GenOK
  <1>8. CandidateInv'
    <2>1. CASE gens' = [gens EXCEPT ![g].status = "ready_partial"] /\ head' = head
      <3> DEFINE r == [gens[g] EXCEPT !.status = "ready_partial"]
      <3>1. gens' = [gens EXCEPT ![g] = r]
        BY <2>1
      <3>2. /\ r \in Generation /\ r.sig = gens[g].sig /\ r.base = gens[g].base
            /\ r.cloned = gens[g].cloned /\ r.cloning = gens[g].cloning
        BY <1>7 DEF Generation, Status
      <3> HIDE DEF r
      <3> QED BY <1>1, <1>3, <1>7, <2>1, <3>1, <3>2, CandidateStep
    <2>2. CASE gens' = [gens EXCEPT ![g] = Failed(@)] /\ head' = head
      BY <1>1, <1>3, <2>2, FailedStep
    <2>3. CASE /\ gens[g].prov \in Covered
               /\ gens' = [gens EXCEPT ![g].status = "ready"] /\ head' = g
      <3> DEFINE r == [gens[g] EXCEPT !.status = "ready"]
      <3>1. gens' = [gens EXCEPT ![g] = r]
        BY <2>3
      <3>2. /\ r \in Generation /\ r.status = "ready" /\ r.prov = gens[g].prov
            /\ r.cloned = gens[g].cloned /\ r.cloning = gens[g].cloning
        BY <1>7 DEF Generation, Status
      <3> HIDE DEF r
      <3>3. gens' \in [Gens -> Generation] /\ gens'[g] = r
        BY <1>1, <3>1, <3>2 DEF CandidateInv
      <3>4. \A h \in Gens : h # g => gens'[h] = gens[h]
        BY <1>1, <3>1 DEF CandidateInv
      <3>5. HeadReady'
        BY <2>3, <3>2, <3>3 DEF HeadReady
      <3>6. ASSUME NEW h \in Gens
            PROVE  GenOK(h)'
        <4>1. CASE h = g
          BY <1>3, <1>7, <3>2, <3>3, <4>1 DEF GenOK
        <4>2. CASE h # g
          BY <1>1, <3>4, <4>2 DEF CandidateInv, GenOK, Building
        <4> QED BY <4>1, <4>2
      <3>7. OneCandidate'
        <4>1. \A h \in Gens : Building(h)' => h # g /\ Building(h)
          BY <3>2, <3>3, <3>4 DEF Building
        <4> QED BY <1>1, <2>3, <3>2, <3>3, <3>4, <4>1 DEF CandidateInv, OneCandidate
      <3> QED BY <2>3, <3>3, <3>5, <3>6, <3>7 DEF CandidateInv
    <2> QED BY <1>4, <2>1, <2>2, <2>3
  <1> QED BY <1>5, <1>6, <1>8, Unchanged DEF Finalize, IInv


-----------------------------------------------------------------------------
(* Workers. *)

\* The fields of what a worker holds.
LEMMA MemoryFields ==
    ASSUME NEW m \in Memory
    PROVE  /\ m.mode \in {"idle", "embed", "record", "release", "deadline"}
           /\ m.gen \in Gens \cup {None} /\ m.todo \in SUBSET Lease
           /\ m.drop \in Lease \cup {None}
  BY DEF Memory

\* An idle worker holds nothing.
LEMMA IdleMemory ==
    Idle \in Memory /\ Idle.mode = "idle" /\ Idle.todo = {} /\ \A m : Shrinks(m, Idle)
  BY DEF Idle, Memory, Shrinks

\* A worker that is not idle has leases of one generation.
LEMMA Busy ==
    ASSUME LeaseInv, NEW w \in Workers, work[w].mode # "idle"
    PROVE  /\ work[w] \in Memory /\ work[w].gen \in Gens /\ WorkOK(w)
           /\ jobs[work[w].gen] \in Rows
           /\ \A l \in work[w].todo : l \in Lease /\ l.entity \in Entities
  BY MemoryFields DEF LeaseInv, WorkOK, Lease

\* The row of a held lease.
LEMMA HeldRow ==
    ASSUME LeaseInv, NEW w, NEW g \in Gens, NEW l \in Lease, Held(w, g, l)
    PROVE  /\ jobs[g][l.entity] \in Job /\ jobs[g][l.entity] # None
           /\ jobs[g][l.entity].status = "leased" /\ jobs[g][l.entity].owner = w
           /\ JobOK(source, l.entity, jobs[g][l.entity])
  <1>1. l.entity \in Entities
    BY DEF Lease
  <1> QED BY <1>1 DEF LeaseInv, Rows, Row, Held

\* A worker whose mode changes.
LEMMA ModeStep ==
    ASSUME LeaseInv, NEW w \in Workers, work[w].mode # "idle",
           NEW mode \in {"embed", "record", "release", "deadline"},
           work' = [work EXCEPT ![w].mode = mode]
    PROVE  work' \in [Workers -> Memory] /\ \A v \in Workers : Shrinks(work[v], work'[v])
  <1> DEFINE n == [work[w] EXCEPT !.mode = mode]
  <1>1. work[w] \in Memory
    BY DEF LeaseInv
  <1>2. n \in Memory /\ n.gen = work[w].gen /\ n.todo = work[w].todo
    BY <1>1 DEF Memory
  <1>3. work' = [work EXCEPT ![w] = n]
    OBVIOUS
  <1> HIDE DEF n
  <1>4. Shrinks(work[w], n)
    BY <1>2 DEF Shrinks
  <1> QED BY <1>2, <1>3, <1>4, WorkerStepKept

\* All leases are extended, or the batch is given back.
LEMMA HeartbeatStep ==
    ASSUME IInv, NEW w \in Workers, Heartbeat(w)
    PROVE  IInv'
  <1> DEFINE g == work[w].gen
             mine == {l.entity : l \in work[w].todo}
             R == [e \in Entities |->
                     IF e \in mine THEN Extended(jobs[g][e]) ELSE jobs[g][e]]
  <1>1. LeaseInv /\ work[w].mode = "embed" /\ source' = source
    BY DEF IInv, Heartbeat
  <1>2. g \in Gens /\ jobs[g] \in Rows /\ \A l \in work[w].todo : l \in Lease
    BY <1>1, Busy
  <1>3. CASE /\ \A l \in work[w].todo : Held(w, g, l)
             /\ jobs' = [jobs EXCEPT ![g] = R] /\ work' = work
    <2>1. ASSUME NEW e \in Entities
          PROVE  Step(source, e, jobs[g][e], R[e])
      <3> DEFINE j == jobs[g][e]
      <3>1. j \in Row /\ JobOK(source, e, j)
        BY <1>1, <1>2 DEF LeaseInv, Rows
      <3>2. CASE e \in mine
        <4>1. j \in Job /\ j # None
          BY <1>1, <1>2, <1>3, <3>2, HeldRow
        <4>2. R[e] = Timed(j, LeaseTicks, j.wait)
          BY <3>2, <4>1 DEF Extended, Job, Timed
        <4> HIDE DEF j, R
        <4>3. Step(source, e, j, R[e])
          BY <3>1, <4>1, <4>2, JobFields, Zeros, TimedRow
        <4> QED BY <4>3 DEF j
      <3>3. CASE e \notin mine
        BY <3>1, <3>3, KeptRow
      <3> QED BY <3>2, <3>3
    <2>2. R \in Rows
      BY <2>1 DEF Step, Rows
    <2> HIDE DEF R, g
    <2>3. LeaseInv'
      BY <1>1, <1>2, <1>3, <2>1, <2>2, WorkKept, GenerationStep
    <2> QED BY <2>3, Unchanged DEF Heartbeat, IInv
  <1>4. CASE work' = [work EXCEPT ![w].mode = "release"] /\ jobs' = jobs
    <2>1. LeaseInv'
      BY <1>1, <1>4, ModeStep, JobsKept
    <2> QED BY <2>1, Unchanged DEF Heartbeat, IInv
  <1> QED BY <1>3, <1>4 DEF Heartbeat

\* Inference returns.
LEMMA EmbeddedStep ==
    ASSUME IInv, NEW w \in Workers, Embedded(w)
    PROVE  IInv'
  <1>1. LeaseInv'
    BY ModeStep, JobsKept DEF IInv, Embedded
  <1> QED BY <1>1, Unchanged DEF Embedded, IInv

\* Inference is interrupted.
LEMMA InterruptedStep ==
    ASSUME IInv, NEW w \in Workers, Interrupted(w)
    PROVE  IInv'
  <1>1. LeaseInv'
    BY ModeStep, JobsKept DEF IInv, Interrupted
  <1>2. CountInv'
    BY GenerationConstants DEF Interrupted, IInv, CountInv
  <1> QED BY <1>1, <1>2, Unchanged DEF Interrupted, IInv

\* A completion that lost a lease is rolled back.
LEMMA CompleteLostStep ==
    ASSUME IInv, NEW w \in Workers, CompleteLost(w)
    PROVE  IInv'
  <1>1. LeaseInv'
    BY ModeStep, JobsKept DEF IInv, CompleteLost
  <1> QED BY <1>1, Unchanged DEF CompleteLost, IInv

\* A process dies.
LEMMA CrashStep ==
    ASSUME IInv, NEW w \in Workers, Crash(w)
    PROVE  IInv'
  <1>1. LeaseInv'
    BY IdleMemory, WorkerStepKept, JobsKept DEF IInv, Crash
  <1>2. CountInv'
    BY GenerationConstants DEF Crash, IInv, CountInv
  <1> QED BY <1>1, <1>2, Unchanged DEF Crash, IInv

\* fail_embedding_job on a held row.
LEMMA FailedJobRow ==
    ASSUME NEW e, NEW j \in Job, NEW retry \in BOOLEAN, NEW d \in 0 .. RetryTicks
    PROVE  Step(source, e, j, FailedJob(j, retry, d))
  <1>1. CASE retry /\ j.attempts < MaxAttempts
    BY <1>1, JobFields, PendingRow DEF FailedJob
  <1>2. CASE ~(retry /\ j.attempts < MaxAttempts)
    BY <1>2, ClosedRow DEF FailedJob
  <1> QED BY <1>1, <1>2

\* A failure of one lease is recorded, or the batch is given back.
LEMMA RecordFailureStep ==
    ASSUME IInv, NEW w \in Workers, NEW l \in work[w].todo,
           NEW kind \in {"io", "fatal", "mismatch"}, RecordFailure(w, l, kind)
    PROVE  IInv'
  <1> DEFINE g == work[w].gen
             k == FailedJob(jobs[g][l.entity], kind = "io", RetryTicks)
             n == [work[w] EXCEPT !.todo = @ \ {l},
                                  !.drop = IF kind = "mismatch" THEN l ELSE None]
  <1>1. /\ LeaseInv /\ work[w].mode = "record" /\ work[w].mode # "idle"
        /\ source' = source
    BY DEF IInv, RecordFailure
  <1>2. /\ work[w] \in Memory /\ g \in Gens /\ jobs[g] \in Rows /\ l \in Lease
        /\ l.entity \in Entities
    BY <1>1, Busy
  <1>3. CountInv'
    BY GenerationConstants DEF RecordFailure, IInv, CountInv
  <1>4. CASE /\ Held(w, g, l) /\ jobs' = [jobs EXCEPT ![g][l.entity] = k]
             /\ work' = [work EXCEPT ![w] = n]
    <2>1. n \in Memory /\ Shrinks(work[w], n)
      BY <1>2 DEF Memory, Shrinks
    <2> HIDE DEF n
    <2>2. work' \in [Workers -> Memory] /\ \A v \in Workers : Shrinks(work[v], work'[v])
      BY <1>1, <1>4, <2>1, WorkerStepKept
    <2>3. Step(source, l.entity, jobs[g][l.entity], k)
      <3>1. jobs[g][l.entity] \in Job /\ (kind = "io") \in BOOLEAN
        BY <1>1, <1>2, <1>4, HeldRow
      <3> QED BY <3>1, Zeros, FailedJobRow
    <2> HIDE DEF k, g
    <2>4. LeaseInv'
      BY <1>1, <1>2, <1>4, <2>2, <2>3, RowStep
    <2> QED BY <1>3, <2>4, Unchanged DEF RecordFailure, IInv
  <1>5. CASE work' = [work EXCEPT ![w].mode = "release"] /\ jobs' = jobs
    <2>1. LeaseInv'
      BY <1>1, <1>5, ModeStep, JobsKept
    <2> QED BY <1>3, <2>1, Unchanged DEF RecordFailure, IInv
  <1> QED
    <2>1. \/ /\ Held(w, g, l) /\ jobs' = [jobs EXCEPT ![g][l.entity] = k]
             /\ work' = [work EXCEPT ![w].todo = @ \ {l},
                                     ![w].drop = IF kind = "mismatch" THEN l ELSE None]
          \/ work' = [work EXCEPT ![w].mode = "release"] /\ jobs' = jobs
      BY DEF RecordFailure
    <2>2. [work EXCEPT ![w].todo = @ \ {l},
                       ![w].drop = IF kind = "mismatch" THEN l ELSE None]
             = [work EXCEPT ![w] = n]
      BY <1>1 DEF LeaseInv
    <2> HIDE DEF n, k, g
    <2> QED BY <1>4, <1>5, <2>1, <2>2

\* What a worker holds after giving lease l back.
LEMMA GivenBack ==
    ASSUME LeaseInv, NEW w \in Workers, work[w].mode # "idle", NEW l,
           work' = [work EXCEPT ![w] = Without(work[w], l)]
    PROVE  work' \in [Workers -> Memory] /\ \A v \in Workers : Shrinks(work[v], work'[v])
  <1> DEFINE n == Without(work[w], l)
  <1>1. work[w] \in Memory /\ work' = [work EXCEPT ![w] = n]
    BY DEF LeaseInv
  <1>2. n \in Memory /\ Shrinks(work[w], n)
    <2>1. CASE work[w].todo = {l}
      BY <2>1, IdleMemory DEF Without
    <2>2. CASE work[w].todo # {l}
      BY <1>1, <2>2 DEF Without, Memory, Shrinks
    <2> QED BY <2>1, <2>2
  <1> HIDE DEF n
  <1> QED BY <1>1, <1>2, WorkerStepKept

\* An interrupted lease is given back, charged.
LEMMA ReleaseStep ==
    ASSUME IInv, NEW w \in Workers, NEW l \in work[w].todo, Release(w, l)
    PROVE  IInv'
  <1> DEFINE g == work[w].gen
             k == FailedJob(jobs[g][l.entity], TRUE, 0)
  <1>1. LeaseInv /\ work[w].mode # "idle" /\ source' = source
    BY DEF IInv, Release
  <1>2. /\ g \in Gens /\ l \in Lease /\ l.entity \in Entities
    BY <1>1, Busy
  <1>3. work' \in [Workers -> Memory] /\ \A v \in Workers : Shrinks(work[v], work'[v])
    BY <1>1, GivenBack DEF Release
  <1>4. LeaseInv'
    <2>1. CASE Held(w, g, l)
      <3>1. jobs' = [jobs EXCEPT ![g][l.entity] = k]
        BY <2>1 DEF Release
      <3>2. jobs[g][l.entity] \in Job
        BY <1>1, <1>2, <2>1, HeldRow
      <3>3. Step(source, l.entity, jobs[g][l.entity], k)
        BY <3>2, Zeros, FailedJobRow
      <3> HIDE DEF k, g
      <3> QED BY <1>1, <1>2, <1>3, <3>1, <3>3, RowStep
    <2>2. CASE ~Held(w, g, l)
      BY <1>1, <1>3, <2>2, JobsKept DEF Release
    <2> QED BY <2>1, <2>2
  <1> QED BY <1>4, Unchanged DEF Release, IInv

\* A lease given back for the deadline is not charged.
LEMMA ReleaseForDeadlineStep ==
    ASSUME IInv, NEW w \in Workers, NEW l \in work[w].todo, ReleaseForDeadline(w, l)
    PROVE  IInv'
  <1> DEFINE g == work[w].gen
             j == jobs[g][l.entity]
             k == Pending(j, j.attempts - 1, 0)
             mine == j # None /\ j.status = "leased" /\ j.owner = w
  <1>1. LeaseInv /\ work[w].mode # "idle" /\ source' = source
    BY DEF IInv, ReleaseForDeadline
  <1>2. /\ g \in Gens /\ l \in Lease /\ l.entity \in Entities
    BY <1>1, Busy
  <1>3. work' \in [Workers -> Memory] /\ \A v \in Workers : Shrinks(work[v], work'[v])
    BY <1>1, GivenBack DEF ReleaseForDeadline
  <1>4. LeaseInv'
    <2>1. CASE mine
      <3>1. jobs' = [jobs EXCEPT ![g][l.entity] = k]
        BY <1>1, <1>2, <2>1 DEF ReleaseForDeadline, LeaseInv, Rows
      <3>2. j \in Job /\ JobOK(source, l.entity, j)
        BY <1>1, <1>2, <2>1 DEF LeaseInv, Rows, Row
      <3>3. j.attempts \in 0 .. MaxAttempts /\ j.attempts > 0
        BY <2>1, <3>2, JobFields DEF JobOK
      <3>4. j.attempts - 1 \in 0 .. MaxAttempts /\ j.attempts - 1 < MaxAttempts
        BY <3>3, GenerationConstants
      <3> DEFINE a == j.attempts - 1
      <3> HIDE DEF j, a
      <3>5. Step(source, l.entity, j, Pending(j, a, 0))
        BY <3>2, <3>4, Zeros, PendingRow DEF a
      <3> QED BY <1>1, <1>2, <1>3, <3>1, <3>5, RowStep DEF j, a
    <2>2. CASE ~mine
      BY <1>1, <1>3, <2>2, JobsKept DEF ReleaseForDeadline
    <2> QED BY <2>1, <2>2
  <1> QED BY <1>4, Unchanged DEF ReleaseForDeadline, IInv

\* Time passes.
LEMMA TickStep ==
    ASSUME IInv, Tick
    PROVE  IInv'
  <1> DEFINE tick(j) == IF j = None THEN None
                        ELSE [j EXCEPT !.ttl = IF @ > 0 THEN @ - 1 ELSE 0,
                                       !.wait = IF @ > 0 THEN @ - 1 ELSE 0]
             T == [g \in Gens |-> [e \in Entities |-> tick(jobs[g][e])]]
  <1>1. LeaseInv /\ source' = source /\ jobs' = T /\ work' = work
    BY DEF IInv, Tick
  <1>2. ASSUME NEW g \in Gens, NEW e \in Entities
        PROVE  Step(source, e, jobs[g][e], T[g][e])
    <2> DEFINE j == jobs[g][e]
               t == IF j.ttl > 0 THEN j.ttl - 1 ELSE 0
               d == IF j.wait > 0 THEN j.wait - 1 ELSE 0
    <2>1. j \in Row /\ JobOK(source, e, j)
      BY <1>1 DEF LeaseInv, Rows
    <2>2. CASE j = None
      BY <2>2, NoRow
    <2>3. CASE j # None
      <3>1. j \in Job
        BY <2>1, <2>3 DEF Row
      <3>2. T[g][e] = Timed(j, t, d)
        BY <2>3 DEF Timed
      <3>3. t \in 0 .. LeaseTicks /\ d \in 0 .. RetryTicks
        BY <3>1, JobFields, GenerationConstants
      <3> HIDE DEF t, d, j, T
      <3>4. Step(source, e, j, T[g][e])
        BY <2>1, <2>3, <3>1, <3>2, <3>3, TimedRow
      <3> QED BY <3>4 DEF j
    <2> QED BY <2>2, <2>3
  <1>3. T \in [Gens -> Rows]
    BY <1>2 DEF Step, Rows
  <1> HIDE DEF T
  <1>4. LeaseInv'
    <2>1. source' \in [Entities -> Revs \cup {None}]
      BY <1>1 DEF LeaseInv
    <2> QED BY <1>1, <1>2, <1>3, <2>1, WorkKept, LeaseStep
  <1> QED BY <1>4, Unchanged DEF Tick, IInv


\* A batch is completed: every job is closed, and a done one has a vector.
LEMMA CompleteStep ==
    ASSUME IInv, NEW w \in Workers, NEW bad \in SUBSET work[w].todo, Complete(w, bad)
    PROVE  IInv'
  <1> DEFINE g     == work[w].gen
             todo  == work[w].todo
             opens == Building(g) /\ gens[g].cloned
             stale == {l \in todo : ~Current(l.entity, jobs[g][l.entity])}
             wrong == IF opens THEN bad \ stale ELSE todo \ stale
             done  == todo \ (stale \cup wrong)
             outcome(l) == IF l \in stale THEN "stale"
                           ELSE IF l \in wrong THEN "error" ELSE "done"
             R == [e \in Entities |->
                     IF \E l \in todo : l.entity = e
                     THEN Closed(jobs[g][e], outcome(CHOOSE l \in todo : l.entity = e))
                     ELSE jobs[g][e]]
             P == [c \in Contents |->
                     IF payloads[c] = None /\ \E l \in done : jobs[g][l.entity].content = c
                     THEN (CHOOSE l \in done : jobs[g][l.entity].content = c).content
                     ELSE payloads[c]]
             M == [e \in Entities |->
                     IF \E l \in done : l.entity = e THEN source[e] ELSE members[g][e]]
  <1>1. /\ LeaseInv /\ VectorInv /\ work[w].mode # "idle" /\ source' = source
        /\ \A l \in todo : Held(w, g, l)
        /\ jobs' = [jobs EXCEPT ![g] = R] /\ payloads' = P
        /\ members' = [members EXCEPT ![g] = M] /\ work' = [work EXCEPT ![w] = Idle]
    BY DEF IInv, Complete
  <1>2. /\ g \in Gens /\ jobs[g] \in Rows /\ WorkOK(w)
        /\ \A l \in todo : l \in Lease /\ l.entity \in Entities
    BY <1>1, Busy
  <1>3. \A l \in todo : /\ jobs[g][l.entity] \in Job
                        /\ jobs[g][l.entity].content = l.content
                        /\ jobs[g][l.entity].content \in Contents
    <2> SUFFICES ASSUME NEW l \in todo
                 PROVE  /\ jobs[g][l.entity] \in Job
                        /\ jobs[g][l.entity].content = l.content
                        /\ jobs[g][l.entity].content \in Contents
      OBVIOUS
    <2>1. LeaseInv /\ Held(w, g, l) /\ g \in Gens /\ l \in Lease /\ WorkOK(w)
      BY <1>1, <1>2
    <2> HIDE DEF R, P, M
    <2>2. /\ jobs[g][l.entity] \in Job /\ jobs[g][l.entity] # None
          /\ jobs[g][l.entity].status = "leased" /\ jobs[g][l.entity].owner = w
      BY <2>1, HeldRow
    <2> QED BY <2>1, <2>2, JobFields DEF WorkOK
  <1>4. \A l \in done : /\ l \in todo /\ source[l.entity] # None
                        /\ ContentOf[source[l.entity]] = jobs[g][l.entity].content
    BY DEF Current
  <1>5. CountInv'
    <2>1. IsFiniteSet(bad)
      <3>1. IsFiniteSet(work[w].todo) /\ bad \subseteq work[w].todo
        BY <1>2 DEF WorkOK
      <3> QED BY <3>1, FS_Subset
    <2>2. Cardinality(bad) \in Nat
      BY <2>1, FS_CardinalityType
    <2>3. faults' = faults + Cardinality(bad) /\ faults + Cardinality(bad) <= MaxFaults
          /\ changes' = changes
      BY DEF Complete
    <2> QED BY <2>2, <2>3, GenerationConstants DEF IInv, CountInv
  <1>6. LeaseInv'
    <2>1. ASSUME NEW e \in Entities
          PROVE  Step(source, e, jobs[g][e], R[e])
      <3>1. CASE \E l \in todo : l.entity = e
        <4> DEFINE s == outcome(CHOOSE l \in todo : l.entity = e)
        <4>1. R[e] = Closed(jobs[g][e], s) /\ s \in {"done", "error", "stale"}
          BY <3>1
        <4>2. jobs[g][e] \in Job
          BY <1>3, <3>1
        <4> HIDE DEF R, s, g
        <4> QED BY <4>1, <4>2, ClosedRow
      <3>2. CASE ~\E l \in todo : l.entity = e
        <4>1. R[e] = jobs[g][e]
          BY <3>2
        <4>2. jobs[g][e] \in Row /\ JobOK(source, e, jobs[g][e])
          BY <1>1, <1>2 DEF LeaseInv, Rows
        <4> QED BY <4>1, <4>2, KeptRow
      <3> QED BY <3>1, <3>2
    <2>2. R \in Rows
      BY <2>1 DEF Step, Rows
    <2> HIDE DEF R, g
    <2>3. work' \in [Workers -> Memory] /\ \A v \in Workers : Shrinks(work[v], work'[v])
      BY <1>1, IdleMemory, WorkerStepKept
    <2> QED BY <1>1, <1>2, <2>1, <2>2, <2>3, GenerationStep
  <1>7. \A c \in Contents : \/ P[c] = payloads[c]
                            \/ payloads[c] = None /\ P[c] = c
    <2> SUFFICES ASSUME NEW c \in Contents,
                        payloads[c] = None, \E l \in done : jobs[g][l.entity].content = c
                 PROVE  P[c] = c
      OBVIOUS
    <2> DEFINE m == CHOOSE l \in done : jobs[g][l.entity].content = c
    <2>1. m \in done /\ jobs[g][m.entity].content = c
      OBVIOUS
    <2>2. P[c] = m.content
      OBVIOUS
    <2> HIDE DEF m, P, done
    <2> QED BY <1>3, <1>4, <2>1, <2>2
  <1>8. \A l \in done : P[jobs[g][l.entity].content] # None
    <2> SUFFICES ASSUME NEW l \in done
                 PROVE  P[jobs[g][l.entity].content] # None
      OBVIOUS
    <2> DEFINE c == jobs[g][l.entity].content
    <2>1. c \in Contents /\ c # None
      BY <1>3, <1>4, GenerationConstants DEF Contents
    <2>2. payloads[c] = None => P[c] = (CHOOSE m \in done : jobs[g][m.entity].content = c).content
      BY <2>1
    <2>3. payloads[c] # None => P[c] = payloads[c]
      BY <2>1
    <2> DEFINE m == CHOOSE l2 \in done : jobs[g][l2.entity].content = c
    <2>4. m \in done /\ jobs[g][m.entity].content = c
      OBVIOUS
    <2>5. m.content = c
      <3> HIDE DEF m, done, c
      <3> QED BY <1>3, <1>4, <2>4
    <2> HIDE DEF m, done, P, c
    <2> QED BY <2>1, <2>2, <2>3, <2>5 DEF c, m
  <1>9. \A e \in Entities : \/ M[e] = members[g][e]
                            \/ \E l \in done : l.entity = e /\ M[e] = source[e]
    OBVIOUS
  <1>10. M \in [Entities -> Revs \cup {None}]
    BY <1>1, <1>2 DEF LeaseInv, VectorInv
  <1>11. P \in [Contents -> {P[c] : c \in Contents}]
    OBVIOUS
  <1> HIDE DEF P, M, R, done, stale, wrong, todo, g
  <1>12. P \in [Contents -> Contents \cup {None}]
    BY <1>1, <1>7, <1>11 DEF VectorInv
  <1>13. VectorOfContent'
    BY <1>1, <1>7 DEF VectorInv, VectorOfContent
  <1>14. \A c \in Contents : payloads[c] # None => payloads'[c] # None
    BY <1>1, <1>7
  <1>15. ASSUME NEW e \in Entities, M[e] # None
         PROVE  payloads'[ContentOf[M[e]]] # None
    <2>1. CASE M[e] = members[g][e]
      <3>1. members[g][e] \in Revs /\ payloads[ContentOf[members[g][e]]] # None
        BY <1>1, <1>2, <1>15, <2>1 DEF VectorInv, MembersBacked
      <3>2. ContentOf[M[e]] \in Contents
        BY <2>1, <3>1 DEF Contents
      <3> QED BY <1>14, <2>1, <3>1, <3>2
    <2>2. CASE \E l \in done : l.entity = e /\ M[e] = source[e]
      BY <1>1, <1>4, <1>8, <2>2
    <2> QED BY <1>9, <2>1, <2>2
  <1>16. VectorInv'
    BY <1>1, <1>2, <1>10, <1>12, <1>13, <1>14, <1>15, VectorStep
  <1> QED BY <1>5, <1>6, <1>16, Unchanged DEF Complete, IInv


\* The row of a job that worker w leases.
Leased(j, w) ==
    [j EXCEPT !.status = "leased", !.attempts = j.attempts + 1, !.owner = w,
              !.ttl = LeaseTicks, !.dirty = TRUE]

\* A leased row is charged and hinted.
LEMMA LeasedRow ==
    ASSUME NEW e, NEW w \in Workers, NEW j \in Job, j.attempts < MaxAttempts
    PROVE  /\ Leased(j, w) \in Job /\ Leased(j, w).owner = w
           /\ Leased(j, w).content = j.content /\ JobOK(source, e, Leased(j, w))
  <1> DEFINE k == Leased(j, w)
  <1>1. /\ k.status = "leased" /\ k.attempts = j.attempts + 1 /\ k.content = j.content
        /\ k.owner = w /\ k.ttl = LeaseTicks /\ k.wait = j.wait /\ k.dirty = TRUE
    BY DEF Leased, Job
  <1>2. k = [f \in DOMAIN j |-> k[f]]
    BY DEF Leased
  <1>3. j.attempts + 1 \in 0 .. MaxAttempts /\ j.attempts + 1 > 0
    BY JobFields, GenerationConstants
  <1> HIDE DEF k
  <1>4. k \in Job
    BY <1>1, <1>2, <1>3, JobFields, JobOfFields, Zeros DEF Shaped
  <1>5. JobOK(source, e, k)
    BY <1>1, <1>3 DEF JobOK
  <1> QED BY <1>1, <1>4, <1>5 DEF k

\* Up to a batch of claimable jobs is leased, one per content.
LEMMA ClaimStep ==
    ASSUME IInv, NEW w \in Workers, NEW g \in Gens, Claim(w, g)
    PROVE  IInv'
  <1> DEFINE J == MarkStale(Reconciled(jobs[g]), FALSE)
  <1>1. /\ LeaseInv /\ source' = source /\ jobs[g] \in Rows
        /\ \A e \in Entities : JobOK(source, e, jobs[g][e])
    BY DEF IInv, LeaseInv, Claim
  <1>2. J \in Rows /\ \A e \in Entities : Step(source, e, jobs[g][e], J[e])
    <2> DEFINE I == Reconciled(jobs[g])
    <2>1. I \in Rows /\ \A e \in Entities : Step(source, e, jobs[g][e], I[e])
      BY <1>1, ReconciledRows
    <2>2. \A e \in Entities : JobOK(source, e, I[e])
      BY <2>1 DEF Step
    <2> HIDE DEF I
    <2>3. /\ MarkStale(I, FALSE) \in Rows
          /\ \A e \in Entities : Step(source, e, I[e], MarkStale(I, FALSE)[e])
      BY <2>1, <2>2, StaleRows
    <2> QED BY <2>1, <2>3, StepTwice DEF I
  <1>3. PICK S \in Claims(J) :
           /\ jobs' = [jobs EXCEPT ![g] = [e \in Entities |->
                 IF e \in S THEN Leased(J[e], w) ELSE J[e]]]
           /\ work' = [work EXCEPT ![w] =
                 IF S = {} THEN Idle
                 ELSE [mode |-> "embed", gen |-> g, drop |-> None,
                       todo |-> {[entity |-> e, content |-> J[e].content] : e \in S}]]
    BY DEF Claim, Leased
  <1> DEFINE R == [e \in Entities |-> IF e \in S THEN Leased(J[e], w) ELSE J[e]]
             T == {[entity |-> e, content |-> J[e].content] : e \in S}
             n == [mode |-> "embed", gen |-> g, drop |-> None, todo |-> T]
             m == IF S = {} THEN Idle ELSE n
  <1>4. \A e \in S : /\ e \in Entities /\ J[e] # None /\ J[e].attempts < MaxAttempts
                     /\ \A f \in Entities : J[f] # None /\ J[f].status = "leased"
                                               => J[f].content # J[e].content
    BY <1>3 DEF Claims, Claimable
  <1>5. \A e, f \in S : e # f => J[e].content # J[f].content
    BY <1>3 DEF Claims
  <1>6. \A e \in S : J[e] \in Job
    BY <1>2, <1>4 DEF Rows, Row
  <1>7. \A e \in Entities : R[e] = IF e \in S THEN Leased(J[e], w) ELSE J[e]
    OBVIOUS
  <1>8. \A l \in T : \E e \in S : l = [entity |-> e, content |-> J[e].content]
    OBVIOUS
  <1>9. R \in [Entities -> {R[e] : e \in Entities}]
    OBVIOUS
  <1>10. IsFiniteSet(T)
    <2>1. S \subseteq Entities
      BY <1>4
    <2>2. IsFiniteSet(S)
      BY <2>1, FS_Subset, GenerationConstants
    <2> DEFINE f == [e \in S |-> [entity |-> e, content |-> J[e].content]]
    <2> HIDE DEF J
    <2>3. f \in Surjection(S, T)
      BY DEF Surjection
    <2> HIDE DEF f, T
    <2> QED BY <2>2, <2>3, FS_Surjection
  <1>11. T \subseteq Lease
    <2> SUFFICES ASSUME NEW e \in S
                 PROVE  [entity |-> e, content |-> J[e].content] \in Lease
      OBVIOUS
    <2>1. e \in Entities /\ J[e].content \in Contents
      BY <1>4, <1>6, JobFields
    <2> HIDE DEF J
    <2> QED BY <2>1 DEF Lease
  <1>12. jobs' = [jobs EXCEPT ![g] = R] /\ work' = [work EXCEPT ![w] = m]
    BY <1>3
  <1> HIDE DEF J, R, T
  <1>13. n \in Memory /\ n.todo = T /\ n.gen = g
    BY <1>11 DEF Memory
  <1> HIDE DEF n
  <1>14. m \in Memory
    BY <1>13, IdleMemory
  <1>15. ASSUME NEW e \in Entities
         PROVE  R[e] \in Row /\ JobOK(source, e, R[e])
    <2>1. CASE e \in S
      BY <1>4, <1>6, <1>7, <2>1, LeasedRow DEF Row
    <2>2. CASE e \notin S
      BY <1>2, <1>7, <2>2 DEF Step
    <2> QED BY <2>1, <2>2
  <1>16. R \in Rows
    BY <1>9, <1>15 DEF Rows
  <1>17. jobs' \in [Gens -> Rows] /\ jobs'[g] = R
    BY <1>1, <1>12, <1>16 DEF LeaseInv
  <1>18. \A h \in Gens : h # g => jobs'[h] = jobs[h]
    BY <1>1, <1>12 DEF LeaseInv
  <1>19. work' \in [Workers -> Memory] /\ work'[w] = m
    BY <1>1, <1>12, <1>14 DEF LeaseInv
  <1>20. \A v \in Workers : v # w => work'[v] = work[v]
    BY <1>1, <1>12 DEF LeaseInv
  <1>21. \A h \in Gens, e \in Entities : JobOK(source', e, jobs'[h][e])
    BY <1>1, <1>15, <1>17, <1>18 DEF LeaseInv
  <1>22. \A e \in Entities \ S : R[e] # None /\ R[e].status = "leased" =>
            /\ R[e] = J[e] /\ jobs[g][e] # None /\ jobs[g][e].status = "leased"
            /\ R[e].owner = jobs[g][e].owner /\ R[e].content = jobs[g][e].content
    BY <1>2, <1>7 DEF Step, Lessened
  <1>23. \A e \in S : R[e].owner = w /\ R[e].content = J[e].content
    BY <1>4, <1>6, <1>7, LeasedRow
  <1>24. SingleFlight'
    <2> SUFFICES ASSUME NEW h \in Gens, NEW e \in Entities, NEW f \in Entities,
                        jobs'[h][e] # None, jobs'[h][e].status = "leased",
                        jobs'[h][f] # None, jobs'[h][f].status = "leased", e # f
                 PROVE  jobs'[h][e].content # jobs'[h][f].content
      BY DEF SingleFlight
    <2>1. CASE h # g
      BY <1>1, <1>18, <2>1 DEF LeaseInv, SingleFlight
    <2>2. CASE h = g /\ e \in S /\ f \in S
      BY <1>5, <1>17, <1>23, <2>2
    <2>3. CASE h = g /\ e \in S /\ f \notin S
      BY <1>4, <1>17, <1>22, <1>23, <2>3
    <2>4. CASE h = g /\ e \notin S /\ f \in S
      BY <1>4, <1>17, <1>22, <1>23, <2>4
    <2>5. CASE h = g /\ e \notin S /\ f \notin S
      <3>1. /\ jobs[g][e] # None /\ jobs[g][e].status = "leased"
            /\ jobs[g][f] # None /\ jobs[g][f].status = "leased"
            /\ R[e].content = jobs[g][e].content /\ R[f].content = jobs[g][f].content
        BY <1>17, <1>22, <2>5
      <3>2. jobs[g][e].content # jobs[g][f].content
        BY <1>1, <3>1 DEF LeaseInv, SingleFlight
      <3> QED BY <1>17, <2>5, <3>1, <3>2
    <2> QED BY <2>1, <2>2, <2>3, <2>4, <2>5
  <1>25. WorkOK(w)'
    <2>1. CASE S = {}
      <3>1. work'[w] = Idle
        BY <1>19, <2>1
      <3> QED BY <3>1, IdleMemory, FS_EmptySet DEF WorkOK
    <2>2. CASE S # {}
      <3>1. work'[w].todo = T /\ work'[w].gen = g
        BY <1>13, <1>19, <2>2
      <3>2. \A k, l \in T : k.entity = l.entity => k = l
        BY <1>8
      <3>3. ASSUME NEW l \in T
            PROVE  R[l.entity].content = l.content
        <4>1. PICK e \in S : l = [entity |-> e, content |-> J[e].content]
          BY <1>8
        <4> QED BY <1>23, <4>1
      <3> QED BY <1>10, <1>17, <3>1, <3>2, <3>3 DEF WorkOK
    <2> QED BY <2>1, <2>2
  <1>26. ASSUME NEW v \in Workers, v # w
         PROVE  WorkOK(v)'
    <2>1. WorkOK(v) /\ work'[v] = work[v] /\ work[v] \in Memory
      BY <1>1, <1>20, <1>26 DEF LeaseInv
    <2>2. ASSUME NEW l \in work[v].todo, jobs'[work[v].gen][l.entity] # None,
                 jobs'[work[v].gen][l.entity].status = "leased",
                 jobs'[work[v].gen][l.entity].owner = v
          PROVE  jobs'[work[v].gen][l.entity].content = l.content
      <3>1. l.entity \in Entities /\ work[v].gen \in Gens
        BY <2>1, MemoryFields DEF WorkOK, Lease
      <3>2. CASE work[v].gen = g
        <4>1. l.entity \notin S
          BY <1>17, <1>23, <1>26, <2>2, <3>2
        <4>2. /\ jobs[g][l.entity] # None /\ jobs[g][l.entity].status = "leased"
              /\ R[l.entity].owner = jobs[g][l.entity].owner
              /\ R[l.entity].content = jobs[g][l.entity].content
          BY <1>17, <1>22, <2>2, <3>1, <3>2, <4>1
        <4> QED BY <1>17, <2>1, <2>2, <3>2, <4>2 DEF WorkOK
      <3>3. CASE work[v].gen # g
        BY <1>18, <2>1, <2>2, <3>1, <3>3 DEF WorkOK
      <3> QED BY <3>2, <3>3
    <2> QED BY <2>1, <2>2 DEF WorkOK
  <1>27. source' \in [Entities -> Revs \cup {None}]
    BY <1>1 DEF LeaseInv
  <1>28. LeaseInv'
    BY <1>17, <1>19, <1>21, <1>24, <1>25, <1>26, <1>27 DEF LeaseInv
  <1> QED BY <1>28, Unchanged DEF Claim, IInv


-----------------------------------------------------------------------------
(* The theorems. *)

\* The initial states satisfy the invariant.
LEMMA InitIInv ==
    Init => IInv
  <1> SUFFICES ASSUME Init
               PROVE  IInv
    OBVIOUS
  <1>1. LeaseInv
    <2>1. jobs \in [Gens -> Rows] /\ \A g \in Gens, e \in Entities : jobs[g][e] = None
      BY DEF Init, Rows, Row
    <2>2. work \in [Workers -> Memory]
      BY IdleMemory DEF Init
    <2>3. \A w \in Workers : WorkOK(w)
      <3>1. \A w \in Workers : work[w] = Idle
        BY DEF Init
      <3> QED BY <3>1, IdleMemory, FS_EmptySet DEF WorkOK
    <2> QED BY <2>1, <2>2, <2>3 DEF Init, LeaseInv, JobOK, SingleFlight
  <1>2. VectorInv
    BY DEF Init, VectorInv, VectorOfContent, MembersBacked
  <1>3. CandidateInv
    <2>1. NoGeneration \in Generation /\ NoGeneration.status = "absent"
          /\ NoGeneration.cloning = FALSE
      BY DEF NoGeneration, Generation, Status
    <2>2. \A g \in Gens : gens[g] = NoGeneration
      BY DEF Init
    <2> QED BY <2>1, <2>2 DEF Init, CandidateInv, GenOK, HeadReady, OneCandidate, Building
  <1>4. CountInv
    BY GenerationConstants DEF Init, CountInv
  <1> QED BY <1>1, <1>2, <1>3, <1>4 DEF IInv

\* A step of a worker keeps the invariant.
LEMMA WorkerStepIInv ==
    ASSUME IInv, NEW w \in Workers, WorkerStep(w)
    PROVE  IInv'
  BY HeartbeatStep, EmbeddedStep, InterruptedStep, DeactivateStep, CompleteLostStep,
     CrashStep, RecordFailureStep, ReleaseStep, ReleaseForDeadlineStep, CompleteStep
     DEF WorkerStep

\* Every step keeps the invariant.
LEMMA NextIInv ==
    IInv /\ [Next]_vars => IInv'
  <1> SUFFICES ASSUME IInv, [Next]_vars
               PROVE  IInv'
    OBVIOUS
  <1>1. CASE UNCHANGED vars
    BY <1>1, Unchanged DEF vars, IInv
  <1>2. ASSUME NEW g \in Gens,
               \/ \E complete \in BOOLEAN : SetCursor(g, complete)
               \/ \E e \in Entities : Enqueue(g, e) \/ ClonePage(g, e)
               \/ Prepare(g) \/ CloneFinish(g) \/ CloneStops(g) \/ Invalidate(g)
               \/ ReuseCached(g) \/ Finalize(g)
               \/ \E w \in Workers : Claim(w, g)
        PROVE  IInv'
    BY <1>2, SetCursorStep, EnqueueStep, ClonePageStep, PrepareStep, CloneFinishStep,
       CloneStopsStep, InvalidateStep, ReuseCachedStep, FinalizeStep, ClaimStep
  <1> QED BY <1>1, <1>2, StageItemStep, StartStep, WorkerStepIInv, TickStep DEF Next

\* The inductive invariant holds in every behaviour of the control plane.
THEOREM Invariance == Spec => []IInv
  BY InitIInv, NextIInv, PTL DEF Spec

\* Every variable keeps its type: no attempt is charged beyond MaxAttempts, no
\* lease outlasts LeaseTicks, no row of a table is left half written.
THEOREM TypeCorrect == Spec => []TypeOK
  <1>1. IInv => TypeOK
    BY DEF IInv, LeaseInv, VectorInv, CandidateInv, CountInv, TypeOK, Rows, Row
  <1> QED BY <1>1, Invariance, PTL

\* The hint that claim and reuse trust is set on every unfinished job whose
\* source no longer matches (the semantic_items and embedding_jobs triggers).
THEOREM HintsAreSound == Spec => []HintSound
  <1>1. IInv => HintSound
    BY DEF IInv, LeaseInv, JobOK, HintSound, Unfinished, Current
  <1> QED BY <1>1, Invariance, PTL

\* No pending job has spent its attempts, so _lease_rows can select each.
THEOREM NoneStranded == Spec => []NoStranded
  <1>1. IInv => NoStranded
    BY DEF IInv, LeaseInv, JobOK, NoStranded
  <1> QED BY <1>1, Invariance, PTL

\* A content is leased for one job of a generation at a time.
THEOREM OneFlight == Spec => []SingleFlight
  <1>1. IInv => SingleFlight
    BY DEF IInv, LeaseInv
  <1> QED BY <1>1, Invariance, PTL

\* The stored vector of a content was computed from that content.
THEOREM VectorsMatch == Spec => []VectorOfContent
  <1>1. IInv => VectorOfContent
    BY DEF IInv, VectorInv
  <1> QED BY <1>1, Invariance, PTL

\* The published head is ready and every member of it has a stored vector.
THEOREM HeadIsBacked == Spec => []HeadBacked
  <1>1. IInv => HeadBacked
    BY DEF IInv, VectorInv, CandidateInv, HeadReady, MembersBacked, HeadBacked
  <1> QED BY <1>1, Invariance, PTL

\* A signature has at most one building generation, and only a generation of
\* completely covered sources is published.
THEOREM SingleCandidate == Spec => []OneCandidate
  <1>1. IInv => OneCandidate
    BY DEF IInv, CandidateInv
  <1> QED BY <1>1, Invariance, PTL

\* Only a finalization moves the head, to its own generation.
LEMMA HeadMoves ==
    ASSUME [Next]_vars, head' # head
    PROVE  \E g \in Gens : Finalize(g) /\ head' = g
  <1>1. \A g \in Gens : Finalize(g) => head' = g \/ head' = head
    BY DEF Finalize
  <1>2. \A w \in Workers : WorkerStep(w) => head' = head
    <2> SUFFICES ASSUME NEW w \in Workers
                 PROVE  WorkerStep(w) => head' = head
      OBVIOUS
    <2>1. Heartbeat(w) \/ Embedded(w) \/ Interrupted(w) \/ Deactivate(w) \/ CompleteLost(w)
             \/ Crash(w) => head' = head
      BY DEF Heartbeat, Embedded, Interrupted, Deactivate, CompleteLost, Crash
    <2>2. \A l \in work[w].todo, kind \in {"io", "fatal", "mismatch"} :
             RecordFailure(w, l, kind) \/ Release(w, l) \/ ReleaseForDeadline(w, l)
                => head' = head
      BY DEF RecordFailure, Release, ReleaseForDeadline
    <2>3. \A bad \in SUBSET work[w].todo : Complete(w, bad) => head' = head
      BY DEF Complete
    <2> QED BY <2>1, <2>2, <2>3 DEF WorkerStep
  <1>3. /\ \A e \in Entities, r \in Revs \cup {None} : StageItem(e, r) => head' = head
        /\ \A sig \in Signatures, prov \in Provenances : Start(sig, prov) => head' = head
        /\ Tick \/ UNCHANGED vars => head' = head
    BY DEF StageItem, Start, Tick, vars
  <1>4. \A g \in Gens :
           /\ \A complete \in BOOLEAN : SetCursor(g, complete) => head' = head
           /\ \A e \in Entities : Enqueue(g, e) \/ ClonePage(g, e) => head' = head
           /\ Prepare(g) \/ CloneFinish(g) \/ CloneStops(g) \/ Invalidate(g)
                 \/ ReuseCached(g) => head' = head
           /\ \A w \in Workers : Claim(w, g) => head' = head
    BY DEF SetCursor, Enqueue, ClonePage, Prepare, CloneFinish, CloneStops, Invalidate,
           ReuseCached, Claim
  <1> QED BY <1>1, <1>2, <1>3, <1>4 DEF Next

\* The head is compared and swapped: a publication replaces exactly the head
\* that its candidate was built on.
THEOREM HeadSwapped == Spec => HeadCAS
  <1>1. [Next]_vars => [head' # head => head' # None /\ gens[head'].base = head]_vars
    <2> SUFFICES ASSUME [Next]_vars, head' # head
                 PROVE  head' # None /\ gens[head'].base = head
      OBVIOUS
    <2>1. PICK g \in Gens : Finalize(g) /\ head' = g
      BY HeadMoves
    <2>2. gens[g].base = head
      BY <2>1 DEF Finalize, HeadUnmoved
    <2>3. g # None
      BY GenerationConstants DEF Gens
    <2> QED BY <2>1, <2>2, <2>3
  <1> QED BY <1>1, PTL DEF Spec, HeadCAS

\* What is published is current at that moment: every member matches an active
\* source, and every job of the generation is done and has its member.
THEOREM PublicationsCurrent == Spec => PublishedCurrent
  <1> DEFINE A == head' # head =>
                     \A e \in Entities :
                        /\ members'[head'][e] # None =>
                              /\ source[e] # None
                              /\ ContentOf[source[e]] = ContentOf[members'[head'][e]]
                        /\ jobs'[head'][e] # None =>
                              jobs'[head'][e].status = "done" /\ members'[head'][e] # None
  <1>1. IInv /\ [Next]_vars => A
    <2> SUFFICES ASSUME IInv, [Next]_vars, head' # head, NEW e \in Entities
                 PROVE  /\ members'[head'][e] # None =>
                              /\ source[e] # None
                              /\ ContentOf[source[e]] = ContentOf[members'[head'][e]]
                        /\ jobs'[head'][e] # None =>
                              jobs'[head'][e].status = "done" /\ members'[head'][e] # None
      OBVIOUS
    <2>1. PICK g \in Gens : Finalize(g) /\ head' = g
      BY HeadMoves
    <2> DEFINE swept == MarkStale(jobs[g], TRUE)
               J == [f \in Entities |->
                       IF /\ swept[f] # None /\ swept[f].status = "done"
                          /\ ~Current(f, swept[f])
                       THEN None ELSE swept[f]]
               M == [f \in Entities |->
                       IF f \in Obsolete(members[g]) THEN None ELSE members[g][f]]
    <2>2. /\ jobs' = [jobs EXCEPT ![g] = J] /\ ~Unfinished(J[e])
          /\ members' = [members EXCEPT ![g] = M]
          /\ ~(J[e] # None /\ J[e].status \in {"error", "stale"})
          /\ ~(J[e] # None /\ J[e].status = "done" /\ M[e] = None)
      BY <2>1 DEF Finalize
    <2>3. jobs'[g] = J /\ members'[g] = M
      BY <2>2 DEF IInv, LeaseInv, VectorInv
    <2>4. J[e] # None => J[e] \in Job
      <3>1. swept \in Rows
        BY StaleRows DEF IInv, LeaseInv
      <3> HIDE DEF swept
      <3> QED BY <3>1 DEF Rows, Row
    <2>5. M[e] # None => source[e] # None /\ ContentOf[source[e]] = ContentOf[M[e]]
      BY DEF Obsolete
    <2> HIDE DEF J, M
    <2>6. J[e] # None => J[e].status = "done" /\ M[e] # None
      BY <2>2, <2>4, JobFields DEF Unfinished
    <2> QED BY <2>1, <2>3, <2>5, <2>6
  <1>2. IInv /\ [Next]_vars => [A]_vars
    BY <1>1
  <1> QED BY <1>2, Invariance, PTL DEF Spec, PublishedCurrent

\* A generation that is ready keeps its members and its row for ever.
THEOREM SnapshotsFrozen == Spec => FrozenSnapshot
  <1> DEFINE F == \A g \in Gens :
                     gens[g].status = "ready" => members'[g] = members[g] /\ gens'[g] = gens[g]
  <1>1. ASSUME IInv, [Next]_vars
        PROVE  F
    <2>1. /\ gens \in [Gens -> Generation] /\ CandidateInv /\ LeaseInv
          /\ members \in [Gens -> [Entities -> Revs \cup {None}]]
      BY <1>1 DEF IInv, CandidateInv, VectorInv
    <2>2. ASSUME gens' = gens, members' = members
          PROVE  F
      BY <2>2
    <2>3. ASSUME NEW sig \in Signatures, NEW prov \in Provenances, Start(sig, prov)
          PROVE  F
      <3> DEFINE D == Displaced(sig, prov)
                 after == [g \in Gens |-> IF g \in D THEN Failed(gens[g]) ELSE gens[g]]
      <3>1. \A h \in Gens : gens[h].status = "ready" => after[h] = gens[h]
        BY DEF Displaced, Superseded, Resumable, Building
      <3>2. members' = members
        BY <2>3 DEF Start
      <3>3. CASE gens' = after
        BY <3>1, <3>2, <3>3
      <3>4. ASSUME NEW g \in Gens, gens[g].status = "absent", NEW new,
                   gens' = [after EXCEPT ![g] = new]
            PROVE  F
        BY <3>1, <3>2, <3>4
      <3> HIDE DEF F
      <3> QED BY <2>3, <3>3, <3>4 DEF Start
    <2>4. ASSUME NEW g \in Gens,
                 (\E complete \in BOOLEAN : SetCursor(g, complete)) \/ Prepare(g)
                 \/ CloneFinish(g) \/ CloneStops(g) \/ Invalidate(g)
          PROVE  F
      <3>1. gens[g].status # "ready" /\ members' = members
        BY <2>1, <2>4, CloningHasBase
           DEF SetCursor, Prepare, CloneFinish, CloneStops, Invalidate, Building
      <3>2. \A h \in Gens : h # g => gens'[h] = gens[h]
        BY <2>1, <2>4 DEF SetCursor, Prepare, CloneFinish, CloneStops, Invalidate
      <3> QED BY <3>1, <3>2
    <2>5. ASSUME NEW g \in Gens, NEW e \in Entities, Enqueue(g, e) \/ ClonePage(g, e)
          PROVE  F
      <3>1. gens[g].status # "ready"
        BY <2>1, <2>5, CloningHasBase DEF Enqueue, ClonePage, Building
      <3>2. \A h \in Gens : h # g => gens'[h] = gens[h] /\ members'[h] = members[h]
        BY <2>1, <2>5 DEF Enqueue, ClonePage, Rebound
      <3> QED BY <3>1, <3>2
    <2>6. ASSUME NEW g \in Gens, ReuseCached(g) \/ Finalize(g)
          PROVE  F
      <3>1. gens[g].status # "ready"
        BY <2>6 DEF ReuseCached, Finalize, Building
      <3>2. \A h \in Gens : h # g => gens'[h] = gens[h] /\ members'[h] = members[h]
        BY <2>1, <2>6 DEF ReuseCached, Finalize
      <3> QED BY <3>1, <3>2
    <2>7. ASSUME NEW w \in Workers, NEW bad \in SUBSET work[w].todo, Complete(w, bad)
          PROVE  F
      <3> DEFINE g == work[w].gen
      <3>1. gens' = gens
        BY <2>7 DEF Complete
      <3>2. \A h \in Gens : h # g => members'[h] = members[h]
        BY <2>1, <2>7 DEF Complete
      <3>3. gens[g].status = "ready" /\ g \in Gens => members'[g] = members[g]
        <4> SUFFICES ASSUME gens[g].status = "ready", g \in Gens
                     PROVE  members'[g] = members[g]
          OBVIOUS
        <4>1. ~Building(g)
          BY DEF Building
        <4>2. members' = [members EXCEPT ![g] = [e \in Entities |-> members[g][e]]]
          BY <2>7, <4>1 DEF Complete
        <4> QED BY <2>1, <4>2
      <3> QED BY <3>1, <3>2, <3>3
    <2>8. ASSUME NEW w \in Workers, WorkerStep(w)
          PROVE  F
      <3>1. \/ gens' = gens /\ members' = members
            \/ \E bad \in SUBSET work[w].todo : Complete(w, bad)
        BY <2>8 DEF WorkerStep, Heartbeat, Embedded, Interrupted, Deactivate, CompleteLost,
           Crash, RecordFailure, Release, ReleaseForDeadline
      <3> HIDE DEF F
      <3> QED BY <2>2, <2>7, <3>1
    <2>9. CASE UNCHANGED vars
      BY <2>2, <2>9 DEF vars
    <2>10. ASSUME NEW e \in Entities, NEW r \in Revs \cup {None}, StageItem(e, r)
           PROVE  F
      BY <2>2, <2>10 DEF StageItem
    <2>11. ASSUME NEW g \in Gens, NEW w \in Workers, Claim(w, g)
           PROVE  F
      BY <2>2, <2>11 DEF Claim
    <2>12. CASE Tick
      BY <2>2, <2>12 DEF Tick
    <2> HIDE DEF F
    <2> QED BY <1>1, <2>3, <2>4, <2>5, <2>6, <2>8, <2>9, <2>10, <2>11, <2>12 DEF Next
  <1>2. IInv /\ [Next]_vars =>
           [\A g \in Gens : gens[g].status = "ready" =>
                               members'[g] = members[g] /\ gens'[g] = gens[g]]_vars
    BY <1>1
  <1> HIDE DEF F
  <1> QED BY <1>2, Invariance, PTL DEF Spec, FrozenSnapshot

==============================================================================
