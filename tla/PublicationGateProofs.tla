------------------------ MODULE PublicationGateProofs ------------------------
(***************************************************************************)
(* What the readers of the publication gate may rely on, for every number  *)
(* of processes, keys, owners, faults and crashes: the numbering of the    *)
(* epochs, the coherence of a lock-free observation and, when every caller *)
(* holds FrameworkRunLock, the fence around owner writes, the proof of     *)
(* every rollback and the refinement of PublicationGate.                   *)
(***************************************************************************)
EXTENDS StatePublicationProofs, FiniteSetTheorems

-----------------------------------------------------------------------------
(* What a change of the journal does to the gate. *)

\* The heads the newest complete record binds.
PublishedHeads(j) == IF Completes(j) = {} THEN NoHeads ELSE j[Newest(j)].heads

\* The n-th complete record carries epoch n.
Counted(j) ==
    \A i \in DOMAIN j : j[i].epoch = Cardinality({n \in Completes(j) : n <= i})

\* The two ways a journal grows.
Grows(j, k)  == \E r \in Record : Fits(j, r) /\ k = Append(j, r)
GrowsPair(j, k) ==
    \E s \in Seq(Record) : Len(s) = 2 /\ FitsPair(j, s[1], s[2]) /\ k = j \o s

\* A restart's replacement is the append of a failed and of a complete record.
LEMMA PairAppends ==
    ASSUME NEW j \in Seq(Record), NEW s \in Seq(Record), Len(s) = 2,
           Good(j), FitsPair(j, s[1], s[2])
    PROVE  /\ s[1] \in Record /\ s[2] \in Record
           /\ j \o s = Append(Append(j, s[1]), s[2])
           /\ Fits(j, s[1]) /\ s[1].status = "failed"
           /\ Append(j, s[1]) \in Seq(Record) /\ Good(Append(j, s[1]))
           /\ Fits(Append(j, s[1]), s[2]) /\ s[2].status = "complete"
  <1> DEFINE k == Append(j, s[1])
  <1>1. s[1] \in Record /\ s[2] \in Record
    <2>1. 1 \in 1 .. Len(s) /\ 2 \in 1 .. Len(s)
      OBVIOUS
    <2> QED BY <2>1, ElementOfSeq
  <1>2. j \o s = Append(k, s[2])
    BY PairGood
  <1>3. Fits(j, s[1]) /\ s[1].status = "failed" /\ s[2].status = "complete"
    BY DEF FitsPair
  <1>4. /\ k \in Seq(Record) /\ Completes(k) = Completes(j)
        /\ \A i \in Completes(j) : k[i] = j[i]
    BY <1>1, <1>3, AppendFacts DEF Completes
  <1>5. Good(k) /\ EpochOf(k) = s[1].epoch /\ EpochOf(j) \in Nat
    BY <1>1, <1>3, AppendGood, EpochFacts DEF Good
  <1>6. s[1].epoch = EpochOf(j)
    BY <1>3, <1>5 DEF Fits
  <1>7. Pending(k) = {}
    BY <1>1, <1>3, AppendPending DEF Fits
  <1> HIDE DEF k
  <1>8. Fits(k, s[2])
    BY <1>4, <1>5, <1>6, <1>7 DEF FitsPair, Fits, Fresh, Fenced
  <1> QED BY <1>1, <1>2, <1>3, <1>4, <1>5, <1>8 DEF k

\* The current epoch is the number of complete records.
LEMMA EpochCounts ==
    ASSUME NEW j \in Seq(Record), Ordered(j), Counted(j)
    PROVE  IsFiniteSet(Completes(j)) /\ EpochOf(j) = Cardinality(Completes(j))
  <1>1. Completes(j) \subseteq 1 .. Len(j) /\ Len(j) \in Nat /\ 1 \in Int
    BY DEF Completes
  <1>2. IsFiniteSet(Completes(j))
    <2>1. IsFiniteSet(1 .. Len(j))
      BY <1>1, FS_Interval
    <2> QED BY <1>1, <2>1, FS_Subset
  <1>3. CASE Completes(j) = {}
    BY <1>2, <1>3, EpochFacts, FS_EmptySet
  <1>4. CASE Completes(j) # {}
    <2>1. /\ Newest(j) \in Completes(j) /\ EpochOf(j) = j[Newest(j)].epoch
          /\ \A n \in Completes(j) : n <= Newest(j)
      BY <1>4, EpochFacts
    <2>2. {n \in Completes(j) : n <= Newest(j)} = Completes(j)
      BY <2>1
    <2>3. Newest(j) \in DOMAIN j
      BY <2>1 DEF Completes
    <2> QED BY <1>2, <2>1, <2>2, <2>3 DEF Counted
  <1> QED BY <1>2, <1>3, <1>4

\* An append that fits continues the numbering.
LEMMA AppendCounted ==
    ASSUME NEW j \in Seq(Record), NEW r \in Record, Good(j), Fits(j, r), Counted(j)
    PROVE  Counted(Append(j, r))
  <1> DEFINE k == Append(j, r)
             L == Len(j) + 1
  <1>1. /\ DOMAIN k = DOMAIN j \cup {L} /\ L \in Nat /\ DOMAIN j = 1 .. Len(j) /\ Len(j) \in Nat
        /\ \A i \in DOMAIN j : k[i] = j[i]
        /\ k[L] = r
        /\ Completes(k) = Completes(j) \cup (IF r.status = "complete" THEN {L} ELSE {})
    BY AppendFacts
  <1>2. Completes(j) \subseteq 1 .. Len(j)
    BY <1>1 DEF Completes
  <1>3. IsFiniteSet(Completes(j)) /\ EpochOf(j) = Cardinality(Completes(j)) /\ EpochOf(j) \in Nat
    BY EpochCounts, EpochFacts DEF Good
  <1> HIDE DEF k
  <1>4. ASSUME NEW i \in DOMAIN j
        PROVE  k[i].epoch = Cardinality({n \in Completes(k) : n <= i})
    <2>1. {n \in Completes(k) : n <= i} = {n \in Completes(j) : n <= i}
      BY <1>1, <1>2
    <2> QED BY <1>1, <1>4, <2>1 DEF Counted
  <1>5. {n \in Completes(k) : n <= L} = Completes(k)
    BY <1>1, <1>2
  <1>6. r.epoch = Cardinality(Completes(k))
    <2>1. CASE r.status = "complete"
      <3>1. L \notin Completes(j) /\ Completes(k) = Completes(j) \cup {L}
        BY <1>1, <1>2, <2>1
      <3>2. Cardinality(Completes(j) \cup {L}) = Cardinality(Completes(j)) + 1
        BY <1>3, <3>1, FS_AddElement
      <3> QED BY <1>3, <2>1, <3>1, <3>2 DEF Fits
    <2>2. CASE r.status # "complete"
      BY <1>1, <1>3, <2>2 DEF Fits
    <2> QED BY <2>1, <2>2
  <1> QED BY <1>1, <1>4, <1>5, <1>6 DEF Counted, k

\* Only a complete record changes the heads that are published.
LEMMA AppendHeads ==
    ASSUME NEW j \in Seq(Record), NEW r \in Record, Good(j), Fits(j, r)
    PROVE  PublishedHeads(Append(j, r)) =
              IF r.status = "complete" THEN r.heads ELSE PublishedHeads(j)
  <1> DEFINE k == Append(j, r)
             L == Len(j) + 1
  <1>1. /\ k \in Seq(Record) /\ Len(j) \in Nat /\ DOMAIN j = 1 .. Len(j)
        /\ \A i \in DOMAIN j : k[i] = j[i]
        /\ k[L] = r
        /\ Completes(k) = Completes(j) \cup (IF r.status = "complete" THEN {L} ELSE {})
    BY AppendFacts
  <1>2. Completes(j) \subseteq 1 .. Len(j)
    BY <1>1 DEF Completes
  <1>3. Good(k)
    BY AppendGood
  <1> HIDE DEF k
  <1>4. Completes(k) # {} => Newest(k) \in Completes(k) /\ \A n \in Completes(k) : n <= Newest(k)
    BY <1>1, <1>3, EpochFacts DEF Good
  <1>5. Completes(j) # {} => Newest(j) \in Completes(j) /\ \A n \in Completes(j) : n <= Newest(j)
    BY EpochFacts DEF Good
  <1>6. CASE r.status = "complete"
    <2>1. Newest(k) = L
      BY <1>1, <1>2, <1>4, <1>6
    <2> QED BY <1>1, <1>6, <2>1 DEF PublishedHeads, k
  <1>7. CASE r.status # "complete"
    <2>1. Completes(k) = Completes(j)
      BY <1>1, <1>7
    <2>2. Completes(j) # {} => Newest(k) = Newest(j) /\ Newest(j) \in DOMAIN j
      BY <1>2, <1>4, <1>5, <1>1, <2>1
    <2> QED BY <1>1, <1>7, <2>1, <2>2 DEF PublishedHeads, k
  <1> QED BY <1>6, <1>7

-----------------------------------------------------------------------------
(* The steps that write files. *)

\* Everything but the three writes of the journal leaves it alone.
LEMMA JournalKept ==
    ASSUME NEW p \in Procs,
           \/ StartSession(p) \/ EndSession(p) \/ Crash(p) \/ Observe(p)
           \/ CaptureHeads(p) \/ (\E o \in Owners : OwnerWrite(p, o))
           \/ OwnerRevert(p) \/ DirectIndex(p) \/ Call(p)
           \/ WriteManifest(p) \/ WritePointer(p) \/ ReplaceRefused(p)
           \/ ManifestFails(p) \/ PointerFails(p)
    PROVE  journal' = journal /\ tail' = tail /\ (~WritePointer(p) => pointer' = pointer)
  <1> USE DEF files
  <1>1. CASE StartSession(p) \/ EndSession(p) \/ Crash(p) \/ CaptureHeads(p)
    BY <1>1 DEF StartSession, EndSession, Crash, CaptureHeads
  <1>2. CASE Observe(p)
    BY <1>2 DEF Observe, ObserveFences, ObservePointer, ObserveJournal, ObserveEnd
  <1>3. CASE (\E o \in Owners : OwnerWrite(p, o)) \/ OwnerRevert(p) \/ DirectIndex(p)
    BY <1>3 DEF OwnerWrite, OwnerRevert, DirectIndex
  <1>4. CASE Call(p)
    <2>1. ASSUME NEW k, NEW status, NEW heads, NEW digest,
                 RecordPublication(p, k, status, heads, digest)
          PROVE  UNCHANGED files
      BY <2>1 DEF RecordPublication
    <2>2. ASSUME NEW k, NEW bound, NEW digest, Prepare(p, k, bound, digest)
          PROVE  UNCHANGED files
      BY <2>1, <2>2 DEF Prepare
    <2>3. ASSUME CommitBound(p) \/ CommitUnbound(p) PROVE UNCHANGED files
      BY <2>1, <2>3 DEF CommitBound, CommitUnbound
    <2>4. ASSUME NEW k, NEW digest, RecordFailed(p, k, digest) PROVE UNCHANGED files
      BY <2>1, <2>4 DEF RecordFailed
    <2>5. ASSUME NEW i, NEW heads, Resolve(p, i, heads) PROVE UNCHANGED files
      BY <2>5 DEF Resolve
    <2>6. ASSUME Abort(p) \/ AbortUnbound(p) \/ ReconcileUnbound(p) PROVE UNCHANGED files
      BY <2>5, <2>6 DEF Abort, AbortUnbound, ReconcileUnbound
    <2>7. ASSUME Restart(p) PROVE UNCHANGED files
      BY <2>7 DEF Restart
    <2>8. ASSUME NEW k, NEW digest, Resume(p, k, digest) PROVE UNCHANGED files
      BY <2>8 DEF Resume
    <2>9. UNCHANGED files
      BY <1>4, <2>2, <2>3, <2>4, <2>6, <2>7, <2>8 DEF Call
    <2> QED BY <2>9
  <1>5. CASE WriteManifest(p) \/ WritePointer(p) \/ ReplaceRefused(p)
    BY <1>5 DEF WriteManifest, WritePointer, ReplaceRefused
  <1>6. CASE ManifestFails(p) \/ PointerFails(p)
    BY <1>6 DEF ManifestFails, PointerFails
  <1> QED BY <1>1, <1>2, <1>3, <1>4, <1>5, <1>6

\* The writers append a record that fits, or replace the journal by one with
\* a restart's pair.
LEMMA WriterAppends ==
    ASSUME IInv, NEW p \in Procs, AppendJournal(p) \/ AppendFails(p)
    PROVE  /\ pub[p][1] \in Record /\ Len(pub[p]) = 1 /\ Fits(journal, pub[p][1])
           /\ Last(pub[p]) = pub[p][1] /\ pc[p] = "append" /\ tail # "broken"
           /\ \/ journal' = journal /\ drifted' = drifted
              \/ /\ journal' = Append(journal, pub[p][1]) /\ Published(pub[p][1])
                 /\ tail' # "broken"
           /\ UNCHANGED <<pointer, owner, runLock>>
  <1>1. pc[p] = "append"
    BY DEF AppendJournal, AppendFails
  <1>2. /\ pub[p][1] \in Record /\ Len(pub[p]) = 1 /\ Fits(journal, pub[p][1]) /\ tail # "broken"
        /\ Last(pub[p]) = pub[p][1]
    BY <1>1, AtAppend DEF Last
  <1>3. CASE AppendJournal(p)
    BY <1>1, <1>2, <1>3 DEF AppendJournal
  <1>4. CASE AppendFails(p)
    <2>1. PICK fault \in AppendFaults :
             /\ IF tail = "closed" /\ fault \in {"unsynced", "unterminated"}
                THEN journal' = Append(journal, pub[p][1]) /\ Published(pub[p][1])
                ELSE UNCHANGED <<journal, drifted>>
             /\ tail' = CASE fault = "lost" -> tail
                          [] fault = "torn" \/ tail = "open" -> "broken"
                          [] fault = "unterminated" -> "open"
                          [] OTHER -> "closed"
      BY <1>2, <1>4 DEF AppendFails
    <2>2. UNCHANGED <<pointer, owner, runLock>>
      BY <1>4 DEF AppendFails
    <2> QED BY <1>1, <1>2, <2>1, <2>2
  <1> QED BY <1>3, <1>4

\* The holder of a prepared replacement.
LEMMA WriterReplaces ==
    ASSUME IInv, NEW p \in Procs, ReplaceJournal(p)
    PROVE  /\ pub[p] \in Seq(Record) /\ Len(pub[p]) = 2 /\ FitsPair(journal, pub[p][1], pub[p][2])
           /\ Last(pub[p]) = pub[p][2] /\ pc[p] = "replace" /\ tail # "broken"
           /\ journal' = journal \o pub[p] /\ Published(pub[p][2]) /\ tail' = "closed"
           /\ pub[p][2].heads = HeadsOf(owner, {Semantic})
           /\ pc' = [pc EXCEPT ![p] = "pointer"]
           /\ UNCHANGED <<pointer, owner, locks, obs, seen, saw, tx, pub>>
  <1>1. pc[p] = "replace" /\ WriterOK(p) /\ pub[p] \in Seq(Record)
    BY DEF ReplaceJournal, IInv, TypeOK
  <1>2. Len(pub[p]) = 2 /\ FitsPair(journal, pub[p][1], pub[p][2]) /\ tail # "broken"
    BY <1>1 DEF WriterOK
  <1> QED BY <1>1, <1>2 DEF ReplaceJournal, Last

\* How a step changes the journal.
LEMMA JournalStep ==
    ASSUME IInv, [Next]_vars
    PROVE  journal' = journal \/ Grows(journal, journal') \/ GrowsPair(journal, journal')
  <1>1. ASSUME UNCHANGED vars PROVE journal' = journal
    BY <1>1 DEF vars, files
  <1>2. ASSUME NEW p \in Procs, AppendJournal(p) \/ AppendFails(p)
        PROVE  journal' = journal \/ Grows(journal, journal')
    BY <1>2, WriterAppends DEF Grows
  <1>3. ASSUME NEW p \in Procs, ReplaceJournal(p)
        PROVE  GrowsPair(journal, journal')
    BY <1>3, WriterReplaces DEF GrowsPair
  <1>4. ASSUME NEW p \in Procs, Write(p) \/ Fail(p)
        PROVE  journal' = journal \/ Grows(journal, journal') \/ GrowsPair(journal, journal')
    BY <1>2, <1>3, <1>4, JournalKept DEF Write, Fail
  <1> QED BY <1>1, <1>4, JournalKept DEF Next

\* The n-th complete record of the journal carries epoch n after any number
\* of crashes and failed writes: EpochOf never reads a stale pointer.
THEOREM EpochsInOrder == Spec => []EpochsConsecutive
  <1>1. Init => EpochsConsecutive
    BY DEF Init, EpochsConsecutive
  <1>2. ASSUME IInv, EpochsConsecutive, [Next]_vars PROVE EpochsConsecutive'
    <2>1. journal \in Seq(Record) /\ Good(journal) /\ Counted(journal)
      BY <1>2 DEF IInv, TypeOK, EpochsConsecutive, Counted
    <2>2. CASE journal' = journal
      BY <1>2, <2>2 DEF EpochsConsecutive
    <2>3. CASE Grows(journal, journal')
      BY <2>1, <2>3, AppendCounted DEF Grows, EpochsConsecutive, Counted
    <2>4. CASE GrowsPair(journal, journal')
      <3>1. PICK s \in Seq(Record) :
               Len(s) = 2 /\ FitsPair(journal, s[1], s[2]) /\ journal' = journal \o s
        BY <2>4 DEF GrowsPair
      <3>2. Counted(Append(journal, s[1]))
        BY <2>1, <3>1, PairAppends, AppendCounted
      <3> DEFINE k == Append(journal, s[1])
      <3>3. k \in Seq(Record) /\ Good(k) /\ Fits(k, s[2]) /\ journal' = Append(k, s[2])
            /\ s[2] \in Record
        BY <2>1, <3>1, PairAppends
      <3> HIDE DEF k
      <3>4. Counted(journal')
        BY <3>2, <3>3, AppendCounted DEF k
      <3> QED BY <3>4 DEF Counted, EpochsConsecutive
    <2> QED BY <1>2, <2>2, <2>3, <2>4, JournalStep
  <1> QED BY <1>1, <1>2, Invariance, PTL DEF Spec

-----------------------------------------------------------------------------
(* Lock-free observations. *)

\* The pointer file only moves to a higher epoch.
Rank(ptr) == IF ptr = None THEN 0 ELSE ptr.epoch

Behind(a, b) == Rank(a) <= Rank(b) /\ (Rank(a) = Rank(b) => a = b)

\* What an observation in progress holds.
Observation ==
    [fence : (Record \cup {None}) \X Nat \X {"closed", "open", "broken"},
     ptr : Record \cup {None}, len : Nat, broken : BOOLEAN]

Observing == {"fenced", "pointed", "read"}

\* Everything an observer has read was true at some moment since its opening
\* fence, each file at a later moment than the one it read before.
Trails(p) ==
    /\ seen[p] = None
    /\ Behind(obs[p].fence[1], pointer)
    /\ obs[p].fence[2] <= Len(journal)
    /\ obs[p].fence[3] = "broken" => tail = "broken"
    /\ pc[p] \in {"pointed", "read"} =>
          Behind(obs[p].fence[1], obs[p].ptr) /\ Behind(obs[p].ptr, pointer)
    /\ pc[p] = "read" =>
          /\ obs[p].fence[2] <= obs[p].len /\ obs[p].len <= Len(journal)
          /\ obs[p].fence[3] = "broken" => obs[p].broken
          /\ obs[p].broken => tail = "broken"

OInv ==
    /\ seen = [q \in Procs |-> seen[q]] /\ obs = [q \in Procs |-> obs[q]]
    /\ \A q \in Procs :
          /\ pc[q] = "pointer" => Rank(pointer) < Last(pub[q]).epoch
          /\ pc[q] \in Observing => obs[q] \in Observation /\ Trails(q)

\* The pointer is never ahead of the journal.
LEMMA PointerRank ==
    ASSUME IInv, tail # "broken"
    PROVE  Rank(pointer) <= EpochOf(journal) /\ EpochOf(journal) \in Nat
  <1>1. journal \in Seq(Record) /\ Ordered(journal)
    BY DEF IInv, TypeOK, Good
  <1>2. EpochOf(journal) \in Nat
    BY <1>1, EpochFacts
  <1>3. CASE pointer = None
    BY <1>2, <1>3 DEF Rank
  <1>4. CASE pointer # None
    <2>1. PICK i \in Completes(journal) : journal[i] = pointer
      BY <1>4 DEF IInv, PointerBacked
    <2>2. journal[i].epoch <= EpochOf(journal)
      BY <1>1, <2>1 DEF Ordered, Completes
    <2> QED BY <1>2, <1>4, <2>1, <2>2 DEF Rank
  <1> QED BY <1>3, <1>4

\* The rank of what the pointer file may hold.
LEMMA RankType == \A r \in Record \cup {None} : Rank(r) \in Nat
  BY RecordFields DEF Rank

\* What one process does to the local state of the others: nothing.
Apart(p) ==
    /\ \A q \in Procs : q # p =>
          pc'[q] = pc[q] /\ obs'[q] = obs[q] /\ seen'[q] = seen[q] /\ pub'[q] = pub[q]
    /\ seen' = [q \in Procs |-> seen'[q]] /\ obs' = [q \in Procs |-> obs'[q]]

\* The calls, which never leave a process observing or at the pointer.
LEMMA CallLocal ==
    ASSUME IInv, OInv, NEW p \in Procs, Call(p)
    PROVE  Apart(p) /\ pc'[p] \in {"idle", "manifest", "append"}
  <1>0. /\ DOMAIN pc = Procs /\ DOMAIN pub = Procs
        /\ pc = [q \in Procs |-> pc[q]] /\ pub = [q \in Procs |-> pub[q]]
        /\ seen = [q \in Procs |-> seen[q]] /\ obs = [q \in Procs |-> obs[q]]
    BY DEF IInv, TypeOK, OInv
  <1>1. Call(p) => pc[p] = "idle"
    BY DEF Call, Prepare, CommitBound, CommitUnbound, RecordFailed, Abort, AbortUnbound,
           ReconcileUnbound, Restart, Resume, Enter
  <1>2. ASSUME NEW records, NEW step \in {"manifest", "append"}, Expose(p, records, step),
               Forget(p), obs' = obs
        PROVE  Apart(p) /\ pc'[p] \in {"idle", "manifest", "append"}
    BY <1>0, <1>2 DEF Expose, Forget, Apart
  <1>3. ASSUME UNCHANGED <<pc, pub, obs>>, Forget(p)
        PROVE  Apart(p) /\ pc'[p] \in {"idle", "manifest", "append"}
    BY <1>0, <1>1, <1>3 DEF Forget, Apart
  <1>4. ASSUME NEW k, NEW status, NEW heads, NEW digest,
               RecordPublication(p, k, status, heads, digest)
        PROVE  Apart(p) /\ pc'[p] \in {"idle", "manifest", "append"}
    BY <1>2, <1>3, <1>4 DEF RecordPublication
  <1>5. ASSUME NEW i, NEW heads, Resolve(p, i, heads)
        PROVE  Apart(p) /\ pc'[p] \in {"idle", "manifest", "append"}
    BY <1>2, <1>5 DEF Resolve
  <1>6. ASSUME Restart(p) PROVE Apart(p) /\ pc'[p] \in {"idle", "manifest", "append"}
    BY <1>2, <1>6 DEF Restart
  <1>7. ASSUME NEW k, NEW digest, Resume(p, k, digest)
        PROVE  Apart(p) /\ pc'[p] \in {"idle", "manifest", "append"}
    BY <1>3, <1>7 DEF Resume
  <1>8. ASSUME NEW k, NEW bound, NEW digest, Prepare(p, k, bound, digest)
        PROVE  Apart(p) /\ pc'[p] \in {"idle", "manifest", "append"}
    BY <1>4, <1>8 DEF Prepare
  <1>9. ASSUME NEW k, NEW digest, RecordFailed(p, k, digest)
        PROVE  Apart(p) /\ pc'[p] \in {"idle", "manifest", "append"}
    BY <1>4, <1>9 DEF RecordFailed
  <1>10. ASSUME CommitBound(p) \/ CommitUnbound(p)
         PROVE  Apart(p) /\ pc'[p] \in {"idle", "manifest", "append"}
    BY <1>4, <1>10 DEF CommitBound, CommitUnbound
  <1>11. ASSUME Abort(p) \/ AbortUnbound(p) \/ ReconcileUnbound(p)
         PROVE  Apart(p) /\ pc'[p] \in {"idle", "manifest", "append"}
    BY <1>5, <1>11 DEF Abort, AbortUnbound, ReconcileUnbound
  <1> QED BY <1>6, <1>7, <1>8, <1>9, <1>10, <1>11 DEF Call

\* The files as an observer compares them: longer, no less damaged, newer.
Later ==
    /\ Len(journal) <= Len(journal') /\ Len(journal') \in Nat /\ Len(journal) \in Nat
    /\ tail = "broken" => tail' = "broken"
    /\ pointer' = pointer \/ Rank(pointer) < Rank(pointer')

\* An observation that is not its own process's step stays a trail.
LEMMA TrailsKept ==
    ASSUME IInv, IInv', OInv, Later, NEW q \in Procs, pc[q] \in Observing,
           pc'[q] = pc[q], obs'[q] = obs[q], seen'[q] = seen[q]
    PROVE  obs'[q] \in Observation /\ Trails(q)'
  <1>1. obs[q] \in Observation /\ Trails(q)
    BY DEF OInv
  <1> DEFINE f == obs[q].fence
  <1>2. /\ f[1] \in Record \cup {None} /\ f[2] \in Nat
        /\ obs[q].ptr \in Record \cup {None} /\ obs[q].len \in Nat
    BY <1>1 DEF Observation
  <1>3. /\ Rank(f[1]) \in Nat /\ Rank(obs[q].ptr) \in Nat
        /\ Rank(pointer) \in Nat /\ Rank(pointer') \in Nat
    BY <1>2, RankType DEF IInv, TypeOK
  <1>4. \A a \in Record \cup {None} :
           Rank(a) \in Nat /\ Behind(a, pointer) => Behind(a, pointer')
    BY <1>3 DEF Behind, Later
  <1>5. Behind(f[1], pointer') /\ (Behind(obs[q].ptr, pointer) => Behind(obs[q].ptr, pointer'))
    BY <1>1, <1>2, <1>3, <1>4 DEF Trails
  <1>6. f[2] <= Len(journal')
    BY <1>1, <1>2 DEF Trails, Later
  <1>7. obs[q].len <= Len(journal) => obs[q].len <= Len(journal')
    BY <1>2 DEF Later
  <1> QED BY <1>1, <1>5, <1>6, <1>7 DEF Trails, Later

\* A step of p after which p neither observes nor is about to write the
\* pointer.
LEMMA ApartStep ==
    ASSUME IInv, IInv', OInv, NEW p \in Procs, Apart(p), Later,
           pc'[p] \notin Observing \cup {"pointer"},
           pointer' = pointer \/ pc[p] = "pointer"
    PROVE  OInv'
  <1>1. ASSUME NEW q \in Procs
        PROVE  /\ pc'[q] = "pointer" => Rank(pointer') < Last(pub'[q]).epoch
               /\ pc'[q] \in Observing => obs'[q] \in Observation /\ Trails(q)'
    <2>1. CASE q = p
      BY <2>1
    <2>2. CASE q # p
      <3>1. pc'[q] = pc[q] /\ obs'[q] = obs[q] /\ seen'[q] = seen[q] /\ pub'[q] = pub[q]
        BY <2>2 DEF Apart
      <3>2. pc'[q] \in Observing => obs'[q] \in Observation /\ Trails(q)'
        BY <3>1, TrailsKept
      <3>3. pc[q] = "pointer" => pointer' = pointer
        BY <2>2 DEF IInv, TypeOK
      <3> QED BY <3>1, <3>2, <3>3 DEF OInv
    <2> QED BY <2>1, <2>2
  <1> QED BY <1>1 DEF OInv, Apart

\* The steps outside the gate's calls and writes.
LEMMA QuietLocal ==
    ASSUME IInv, OInv, NEW p \in Procs,
           \/ StartSession(p) \/ EndSession(p) \/ Crash(p) \/ CaptureHeads(p)
           \/ (\E o \in Owners : OwnerWrite(p, o)) \/ OwnerRevert(p) \/ DirectIndex(p)
           \/ ManifestFails(p) \/ ReplaceRefused(p) \/ PointerFails(p)
    PROVE  Apart(p) /\ pc'[p] = "idle"
  <1>0. /\ pc = [q \in Procs |-> pc[q]] /\ pub = [q \in Procs |-> pub[q]]
        /\ seen = [q \in Procs |-> seen[q]] /\ obs = [q \in Procs |-> obs[q]]
    BY DEF IInv, TypeOK, OInv
  <1>1. CASE StartSession(p) \/ EndSession(p) \/ CaptureHeads(p)
    BY <1>0, <1>1 DEF StartSession, EndSession, CaptureHeads, Apart
  <1>2. CASE Crash(p)
    BY <1>0, <1>2 DEF Crash, Apart
  <1>3. CASE (\E o \in Owners : OwnerWrite(p, o)) \/ OwnerRevert(p) \/ DirectIndex(p)
    BY <1>0, <1>3 DEF OwnerWrite, OwnerRevert, DirectIndex, Apart
  <1>4. CASE ManifestFails(p) \/ ReplaceRefused(p) \/ PointerFails(p)
    BY <1>0, <1>4 DEF ManifestFails, ReplaceRefused, PointerFails, Unlock, Apart
  <1> QED BY <1>1, <1>2, <1>3, <1>4

\* The write steps keep to the writer's own local state.
LEMMA WriteLocal ==
    ASSUME IInv, OInv, NEW p \in Procs,
           \/ WriteManifest(p) \/ AppendJournal(p) \/ WritePointer(p)
           \/ ReplaceJournal(p) \/ AppendFails(p)
    PROVE  /\ Apart(p) /\ pc'[p] \notin Observing
           /\ WriteManifest(p) \/ WritePointer(p) \/ AppendFails(p) => pc'[p] # "pointer"
           /\ pc'[p] = "pointer" => pub'[p] = pub[p]
  <1>0. /\ pc = [q \in Procs |-> pc[q]] /\ pub = [q \in Procs |-> pub[q]]
        /\ seen = [q \in Procs |-> seen[q]] /\ obs = [q \in Procs |-> obs[q]]
    BY DEF IInv, TypeOK, OInv
  <1> USE DEF Observing, Apart
  <1>1. CASE WriteManifest(p)
    BY <1>0, <1>1 DEF WriteManifest
  <1>2. CASE AppendJournal(p)
    <2>1. pc[p] = "append" /\ ~WriteManifest(p) /\ ~WritePointer(p)
      BY <1>2 DEF AppendJournal, WriteManifest, WritePointer
    <2>2. Apart(p) /\ pc'[p] \notin Observing /\ (pc'[p] = "pointer" => pub'[p] = pub[p])
      BY <1>0, <1>2 DEF AppendJournal, Unlock
    <2>3. AppendFails(p) => pc'[p] # "pointer"
      BY <1>0 DEF AppendFails, Unlock
    <2> QED BY <2>1, <2>2, <2>3
  <1>3. CASE WritePointer(p)
    BY <1>0, <1>3 DEF WritePointer, Unlock
  <1>4. CASE ReplaceJournal(p)
    <2>1. ~WriteManifest(p) /\ ~WritePointer(p) /\ ~AppendFails(p)
      BY <1>4 DEF ReplaceJournal, WriteManifest, WritePointer, AppendFails
    <2> QED BY <1>0, <1>4, <2>1 DEF ReplaceJournal
  <1>5. CASE AppendFails(p)
    BY <1>0, <1>5 DEF AppendFails, Unlock
  <1> QED BY <1>1, <1>2, <1>3, <1>4, <1>5

\* The files only move forward.
LEMMA FilesForward ==
    ASSUME IInv, IInv', OInv, [Next]_vars
    PROVE  Later
  <1>0. journal \in Seq(Record) /\ journal' \in Seq(Record)
        /\ Len(journal) \in Nat /\ Len(journal') \in Nat
    BY DEF IInv, TypeOK
  <1>1. Len(journal) <= Len(journal')
    <2>1. CASE Grows(journal, journal')
      BY <1>0, <2>1 DEF Grows
    <2>2. CASE GrowsPair(journal, journal')
      <3>1. PICK s \in Seq(Record) :
               Len(s) = 2 /\ FitsPair(journal, s[1], s[2]) /\ journal' = journal \o s
        BY <2>2 DEF GrowsPair
      <3>2. Len(journal') = Len(journal) + 2
        BY <1>0, <3>1, PairGood DEF IInv
      <3> QED BY <1>0, <3>2
    <2> QED BY <1>0, <2>1, <2>2, JournalStep
  <1>2. ASSUME NEW p \in Procs, AppendJournal(p) \/ AppendFails(p)
        PROVE  tail # "broken" /\ pointer' = pointer
    BY <1>2, WriterAppends
  <1>3. ASSUME NEW p \in Procs, ReplaceJournal(p) PROVE tail # "broken" /\ pointer' = pointer
    BY <1>3, WriterReplaces
  <1>4. ASSUME NEW p \in Procs, WritePointer(p) PROVE Rank(pointer) < Rank(pointer') /\ tail' = tail
    <2>1. pc[p] = "pointer" /\ pointer' = Last(pub[p]) /\ tail' = tail
      BY <1>4 DEF WritePointer
    <2>2. Last(pub[p]) \in Record
      <3>1. pub[p] \in Seq(Record) /\ Len(pub[p]) \in {1, 2}
        BY <2>1 DEF IInv, TypeOK, WriterOK
      <3>2. Len(pub[p]) = 1 \/ Len(pub[p]) = 2
        BY <3>1
      <3>3. Len(pub[p]) \in 1 .. Len(pub[p])
        BY <3>2
      <3> QED BY <3>1, <3>3, ElementOfSeq DEF Last
    <2>3. Last(pub[p]) # None
      BY <2>2, NoneAssumption
    <2> QED BY <2>1, <2>3 DEF OInv, Rank
  <1>5. ASSUME NEW p \in Procs, Write(p) \/ Fail(p)
        PROVE  /\ tail = "broken" => tail' = "broken"
               /\ pointer' = pointer \/ Rank(pointer) < Rank(pointer')
    BY <1>2, <1>3, <1>4, <1>5, JournalKept DEF Write, Fail
  <1>6. /\ tail = "broken" => tail' = "broken"
        /\ pointer' = pointer \/ Rank(pointer) < Rank(pointer')
    <2>1. CASE UNCHANGED vars
      BY <2>1 DEF vars, files
    <2>2. ASSUME NEW p \in Procs,
                 \/ StartSession(p) \/ EndSession(p) \/ Observe(p) \/ CaptureHeads(p)
                 \/ (\E o \in Owners : OwnerWrite(p, o)) \/ OwnerRevert(p) \/ DirectIndex(p)
                 \/ Call(p)
          PROVE  tail' = tail /\ (pointer' = pointer \/ WritePointer(p))
      BY <2>2, JournalKept
    <2> QED BY <1>4, <1>5, <2>1, <2>2 DEF Next
  <1> QED BY <1>0, <1>1, <1>6 DEF Later

\* The steps of an observation.
LEMMA ObserveStep ==
    ASSUME IInv, IInv', OInv, NEW p \in Procs, Observe(p)
    PROVE  OInv'
  <1>0. /\ pc = [q \in Procs |-> pc[q]]
        /\ seen = [q \in Procs |-> seen[q]] /\ obs = [q \in Procs |-> obs[q]]
    BY DEF IInv, TypeOK, OInv
  <1>1. /\ UNCHANGED files /\ pub' = pub
        /\ Len(journal) \in Nat /\ tail \in {"closed", "open", "broken"}
        /\ pointer \in Record \cup {None}
    BY DEF Observe, ObserveFences, ObservePointer, ObserveJournal, ObserveEnd, IInv, TypeOK
  <1>2. /\ seen' = [q \in Procs |-> seen'[q]] /\ obs' = [q \in Procs |-> obs'[q]]
        /\ \A q \in Procs : q # p =>
              pc'[q] = pc[q] /\ obs'[q] = obs[q] /\ seen'[q] = seen[q]
    BY <1>0 DEF Observe, ObserveFences, ObservePointer, ObserveJournal, ObserveEnd
  <1>3. Later
    BY <1>1 DEF Later, files
  <1>4. ASSUME NEW q \in Procs, q # p
        PROVE  /\ pc'[q] = "pointer" => Rank(pointer') < Last(pub'[q]).epoch
               /\ pc'[q] \in Observing => obs'[q] \in Observation /\ Trails(q)'
    <2>1. pc'[q] \in Observing => obs'[q] \in Observation /\ Trails(q)'
      BY <1>2, <1>3, <1>4, TrailsKept
    <2> QED BY <1>1, <1>2, <1>4, <2>1 DEF OInv, files
  <1>5. Rank(pointer) \in Nat /\ Behind(pointer, pointer)
    BY <1>1, RankType DEF Behind
  <1>6. /\ pc'[p] # "pointer"
        /\ pc'[p] \in Observing => obs'[p] \in Observation /\ Trails(p)'
    <2>1. CASE ObserveFences(p)
      <3>1. /\ pc'[p] = "fenced" /\ seen'[p] = None
            /\ obs'[p] = [fence |-> Fence, ptr |-> None, len |-> 0, broken |-> FALSE]
        BY <1>0, <2>1 DEF ObserveFences
      <3>2. obs'[p] \in Observation
        BY <1>1, <3>1 DEF Observation, Fence
      <3>3. obs'[p].fence[1] = pointer /\ obs'[p].fence[2] = Len(journal) /\ obs'[p].fence[3] = tail
        BY <3>1 DEF Fence
      <3> QED BY <1>1, <1>5, <3>1, <3>2, <3>3 DEF Trails, files
    <2>2. CASE ObservePointer(p)
      <3>1. pc[p] = "fenced" /\ pc'[p] = "pointed" /\ seen'[p] = seen[p]
        BY <1>0, <2>2 DEF ObservePointer
      <3>2. obs[p] \in Observation /\ Trails(p)
        BY <3>1 DEF OInv, Observing
      <3>3. obs'[p] = [obs[p] EXCEPT !.ptr = pointer]
        BY <1>0, <2>2 DEF ObservePointer
      <3>4. obs'[p] \in Observation /\ obs'[p].fence = obs[p].fence /\ obs'[p].ptr = pointer
        BY <1>1, <3>2, <3>3 DEF Observation
      <3> QED BY <1>1, <1>5, <3>1, <3>2, <3>4 DEF Trails, files
    <2>3. CASE ObserveJournal(p)
      <3>1. pc[p] = "pointed" /\ pc'[p] = "read" /\ seen'[p] = seen[p]
        BY <1>0, <2>3 DEF ObserveJournal
      <3>2. obs[p] \in Observation /\ Trails(p)
        BY <3>1 DEF OInv, Observing
      <3>3. obs'[p] = [obs[p] EXCEPT !.len = Len(journal), !.broken = (tail = "broken")]
        BY <1>0, <2>3 DEF ObserveJournal
      <3>4. /\ obs'[p] \in Observation /\ obs'[p].fence = obs[p].fence /\ obs'[p].ptr = obs[p].ptr
            /\ obs'[p].len = Len(journal) /\ obs'[p].broken = (tail = "broken")
        BY <1>1, <3>2, <3>3 DEF Observation
      <3>5. obs'[p].len <= Len(journal)
        BY <1>1, <3>4
      <3> QED BY <1>1, <1>5, <3>1, <3>2, <3>4, <3>5 DEF Trails, files
    <2>4. CASE ObserveEnd(p)
      BY <1>0, <2>4 DEF ObserveEnd, Observing
    <2> QED BY <2>1, <2>2, <2>3, <2>4 DEF Observe
  <1> QED BY <1>2, <1>4, <1>6 DEF OInv

\* Every step keeps the observations behind the present.
LEMMA NextOInv == ASSUME IInv, IInv', OInv, [Next]_vars PROVE OInv'
  <1>0. Later
    BY FilesForward
  <1>1. CASE UNCHANGED vars
    <2>1. \A q \in Procs : Trails(q) => Trails(q)'
      BY <1>1 DEF vars, files, local, Trails
    <2> QED BY <1>1, <2>1 DEF vars, files, local, OInv
  <1>2. ASSUME NEW p \in Procs, Call(p) PROVE OInv'
    <2>1. Apart(p) /\ pc'[p] \notin Observing \cup {"pointer"}
      BY <1>2, CallLocal DEF Observing
    <2>2. pointer' = pointer \/ pc[p] = "pointer"
      BY <1>2, JournalKept DEF WritePointer
    <2> QED BY <1>0, <2>1, <2>2, ApartStep
  <1>3. ASSUME NEW p \in Procs,
               \/ StartSession(p) \/ EndSession(p) \/ Crash(p) \/ CaptureHeads(p)
               \/ (\E o \in Owners : OwnerWrite(p, o)) \/ OwnerRevert(p) \/ DirectIndex(p)
               \/ ManifestFails(p) \/ ReplaceRefused(p) \/ PointerFails(p)
        PROVE  OInv'
    <2>1. Apart(p) /\ pc'[p] \notin Observing \cup {"pointer"}
      BY <1>3, QuietLocal DEF Observing
    <2>2. pointer' = pointer \/ pc[p] = "pointer"
      BY <1>3, JournalKept DEF WritePointer
    <2> QED BY <1>0, <2>1, <2>2, ApartStep
  <1>4. ASSUME NEW p \in Procs, WriteManifest(p) \/ WritePointer(p) \/ AppendFails(p)
        PROVE  OInv'
    <2>1. Apart(p) /\ pc'[p] \notin Observing \cup {"pointer"}
      BY <1>4, WriteLocal
    <2>2. pointer' = pointer \/ pc[p] = "pointer"
      BY <1>4 DEF WriteManifest, WritePointer, AppendFails
    <2> QED BY <1>0, <2>1, <2>2, ApartStep
  <1>5. ASSUME NEW p \in Procs, AppendJournal(p) \/ ReplaceJournal(p) PROVE OInv'
    <2>1. Apart(p) /\ pc'[p] \notin Observing /\ (pc'[p] = "pointer" => pub'[p] = pub[p])
      BY <1>5, WriteLocal
    <2>2. /\ tail # "broken" /\ pointer' = pointer /\ pc[p] \in Writing /\ pc[p] # "pointer"
          /\ Last(pub[p]).status = "complete" => Last(pub[p]).epoch = EpochOf(journal) + 1
      BY <1>5, WriterAppends, WriterReplaces DEF Writing, Fits, FitsPair
    <2>3. pc'[p] = "pointer" => Last(pub[p]).status = "complete"
      <3>1. CASE AppendJournal(p)
        BY <3>1 DEF AppendJournal, Unlock, IInv, TypeOK
      <3>2. CASE ReplaceJournal(p)
        BY <3>2, WriterReplaces DEF FitsPair
      <3> QED BY <1>5, <3>1, <3>2
    <2>4. Rank(pointer) <= EpochOf(journal) /\ EpochOf(journal) \in Nat
      BY <2>2, PointerRank
    <2>5. Rank(pointer) \in Nat
      BY RankType DEF IInv, TypeOK
    <2>6. pc'[p] = "pointer" => Rank(pointer') < Last(pub'[p]).epoch
      BY <2>1, <2>2, <2>3, <2>4, <2>5
    <2>7. ASSUME NEW q \in Procs, q # p
          PROVE  /\ pc'[q] # "pointer"
                 /\ pc'[q] \in Observing => obs'[q] \in Observation /\ Trails(q)'
      <3>1. pc'[q] = pc[q] /\ obs'[q] = obs[q] /\ seen'[q] = seen[q]
        BY <2>1, <2>7 DEF Apart
      <3>2. pc[q] # "pointer"
        BY <2>2, <2>7 DEF IInv, TypeOK, Writing
      <3> QED BY <1>0, <3>1, <3>2, TrailsKept
    <2> QED BY <2>1, <2>6, <2>7 DEF OInv, Apart
  <1>6. ASSUME NEW p \in Procs, Write(p) \/ Fail(p) PROVE OInv'
    BY <1>3, <1>4, <1>5, <1>6 DEF Write, Fail
  <1> QED BY <1>1, <1>2, <1>3, <1>6, ObserveStep DEF Next

\* While a process reads, only the end of its observation gives it a view.
LEMMA OnlyObserveEnd ==
    ASSUME IInv, OInv, [Next]_vars, NEW p \in Procs, pc[p] = "read", ~ObserveEnd(p)
    PROVE  seen'[p] = None
  <1>0. seen[p] = None /\ seen = [q \in Procs |-> seen[q]]
    BY DEF OInv, Observing, Trails
  <1>1. CASE UNCHANGED vars
    BY <1>0, <1>1 DEF vars, local
  <1>2. ASSUME NEW q \in Procs, q # p, Apart(q) PROVE seen'[p] = None
    BY <1>0, <1>2 DEF Apart
  <1>3. ASSUME NEW q \in Procs, Call(q) PROVE seen'[p] = None
    <2>1. pc[q] = "idle"
      BY <1>3 DEF Call, Prepare, CommitBound, CommitUnbound, RecordFailed, Abort, AbortUnbound,
             ReconcileUnbound, Restart, Resume, Enter
    <2> QED BY <1>2, <1>3, <2>1, CallLocal
  <1>4. ASSUME NEW q \in Procs, Observe(q) PROVE seen'[p] = None
    BY <1>0, <1>4 DEF Observe, ObserveFences, ObservePointer, ObserveJournal, ObserveEnd
  <1>5. ASSUME NEW q \in Procs, Crash(q) PROVE seen'[p] = None
    BY <1>0, <1>5 DEF Crash
  <1>6. ASSUME NEW q \in Procs,
               \/ StartSession(q) \/ EndSession(q) \/ CaptureHeads(q)
               \/ (\E o \in Owners : OwnerWrite(q, o)) \/ OwnerRevert(q) \/ DirectIndex(q)
               \/ ManifestFails(q) \/ ReplaceRefused(q) \/ PointerFails(q)
        PROVE  seen'[p] = None
    <2>1. pc[q] # "read"
      BY <1>6 DEF StartSession, EndSession, CaptureHeads, OwnerWrite, OwnerRevert, DirectIndex,
             ManifestFails, ReplaceRefused, PointerFails
    <2> QED BY <1>2, <1>6, <2>1, QuietLocal
  <1>7. ASSUME NEW q \in Procs,
               \/ WriteManifest(q) \/ AppendJournal(q) \/ WritePointer(q)
               \/ ReplaceJournal(q) \/ AppendFails(q)
        PROVE  seen'[p] = None
    <2>1. pc[q] # "read"
      BY <1>7 DEF WriteManifest, AppendJournal, WritePointer, ReplaceJournal, AppendFails
    <2> QED BY <1>2, <1>7, <2>1, WriteLocal
  <1>8. ASSUME NEW q \in Procs, Write(q) \/ Fail(q) PROVE seen'[p] = None
    BY <1>5, <1>6, <1>7, <1>8 DEF Write, Fail
  <1> QED BY <1>1, <1>3, <1>4, <1>6, <1>8 DEF Next

\* The observation invariant holds in every reachable state.
THEOREM ObservationsTrail == Spec => []OInv
  <1>1. Init => OInv
    BY DEF Init, OInv, Observing
  <1>2. IInv /\ IInv' /\ OInv /\ [Next]_vars => OInv'
    BY NextOInv
  <1> QED BY <1>1, <1>2, Invariance, PTL DEF Spec

\* A reader that takes no lock gets the state of the gate at its closing
\* fence, whatever the writers did while it read the two files.
THEOREM ReadersCoherent == Spec => FreshView
  <1>1. ASSUME IInv, IInv', OInv, [Next]_vars, NEW p \in Procs, pc[p] = "read", seen'[p] # None
        PROVE  seen'[p] = View
    <2>0. /\ obs[p] \in Observation /\ Trails(p) /\ seen[p] = None
          /\ seen = [q \in Procs |-> seen[q]]
      BY <1>1 DEF OInv, Observing, Trails
    <2>1. CASE ObserveEnd(p)
      <3>1. SameFence(p) /\ seen'[p] = ViewOf(obs[p].ptr, SubSeq(journal, 1, obs[p].len), obs[p].broken)
        BY <1>1, <2>0, <2>1 DEF ObserveEnd
      <3> DEFINE f == obs[p].fence
      <3>2. /\ f \in (Record \cup {None}) \X Nat \X {"closed", "open", "broken"}
            /\ obs[p].ptr \in Record \cup {None} /\ obs[p].len \in Nat /\ obs[p].broken \in BOOLEAN
        BY <2>0 DEF Observation
      <3>3. f[1] = pointer /\ f[2] = Len(journal) /\ f[3] = tail
        BY <3>1 DEF SameFence, Fence
      <3>4. journal \in Seq(Record) /\ Len(journal) \in Nat
            /\ Rank(pointer) \in Nat /\ Rank(obs[p].ptr) \in Nat
        <4>1. journal \in Seq(Record) /\ pointer \in Record \cup {None}
          BY <1>1 DEF IInv, TypeOK
        <4> QED BY <3>2, <4>1, RankType
      <3>5. obs[p].ptr = pointer
        BY <1>1, <2>0, <3>3, <3>4 DEF Trails, Behind
      <3>6. obs[p].len = Len(journal)
        BY <1>1, <2>0, <3>2, <3>3, <3>4 DEF Trails
      <3>7. obs[p].broken = (tail = "broken")
        <4>1. obs[p].broken <=> tail = "broken"
          BY <1>1, <2>0, <3>3 DEF Trails
        <4> QED BY <3>2, <4>1
      <3>8. SubSeq(journal, 1, Len(journal)) = journal
        <4>1. /\ SubSeq(journal, 1, Len(journal)) \in Seq(Record)
              /\ Len(SubSeq(journal, 1, Len(journal))) = Len(journal)
              /\ \A i \in 1 .. Len(journal) : SubSeq(journal, 1, Len(journal))[i] = journal[i]
          BY <3>4
        <4> QED BY <3>4, <4>1, SeqEqual
      <3> QED BY <3>1, <3>5, <3>6, <3>7, <3>8 DEF View
    <2>2. CASE ~ObserveEnd(p)
      BY <1>1, <2>2, OnlyObserveEnd
    <2> QED BY <2>1, <2>2
  <1>2. IInv /\ IInv' /\ OInv /\ [Next]_vars =>
           [\A p \in Procs : pc[p] = "read" /\ seen'[p] # None => seen'[p] = View]_vars
    BY <1>1
  <1> QED BY <1>2, Invariance, ObservationsTrail, PTL DEF Spec, FreshView

-----------------------------------------------------------------------------
(* Callers that hold FrameworkRunLock. *)

\* The owners are at the published heads, as far as these still speak for
\* them.
Coherent ==
    \A o \in DOMAIN PublishedHeads(journal) \ drifted : owner[o] = PublishedHeads(journal)[o]

\* An open prepare names the published heads as its baseline, and the owners
\* out of its scope are still at them.
Baseline(r) ==
    \A o \in DOMAIN PublishedHeads(journal) \ drifted :
        /\ o \in DOMAIN r.heads => r.heads[o] = PublishedHeads(journal)[o]
        /\ o \notin Scope(r.key) => owner[o] = PublishedHeads(journal)[o]

Settled ==
    /\ Pending(journal) = {} => Coherent
    /\ \A i \in Pending(journal) : Baseline(journal[i])

\* What the writer of record r has verified and nobody can undo before the
\* record is in the journal.
Proposed(r) ==
    /\ r.status # "failed" => \A o \in DOMAIN r.heads : r.heads[o] = owner[o]
    /\ r.status # "complete" => Coherent
    /\ r.status = "partial" => Pending(journal) = {}
    /\ r.status = "complete" => Pending(journal) # {}
    /\ r.status = "failed" =>
          \A i \in Pending(journal) : journal[i].heads # NoHeads =>
              HeadsOf(owner, DOMAIN journal[i].heads) = journal[i].heads

Busy == {"manifest", "append", "replace"}

Ready(p) ==
    /\ Len(pub[p]) = 1 => Proposed(pub[p][1])
    /\ Len(pub[p]) = 2 => Pending(journal) # {} /\ tx[p] = None

\* Only the holder of FrameworkRunLock is inside a call, has a transaction or
\* remembers heads, and the heads it remembers are the present ones.
Session(p) == pc[p] # "idle" \/ tx[p] # None \/ saw[p] # None => runLock = p
SawNow(p)  == saw[p] # None => saw[p] = owner

SInv ==
    Serialised =>
        /\ \A p \in Procs : Session(p) /\ SawNow(p)
        /\ tail # "broken" =>
              /\ HandleIsFenced /\ Settled
              /\ \A p \in Procs : pc[p] \in Busy => Ready(p)

\* What one process does to the transactions of the others: nothing.
Alone(p) ==
    \A q \in Procs : q # p =>
        pc'[q] = pc[q] /\ saw'[q] = saw[q] /\ tx'[q] = tx[q] /\ pub'[q] = pub[q]

\* A step of the holder of FrameworkRunLock: everybody else is outside.
LEMMA HolderStep ==
    ASSUME Serialised, SInv, NEW p \in Procs, Alone(p), runLock = p, runLock' = p,
           SawNow(p)'
    PROVE  /\ \A q \in Procs : Session(q)' /\ SawNow(q)'
           /\ \A q \in Procs : q # p => pc[q] = "idle" /\ pc'[q] = "idle" /\ tx[q] = None /\ tx'[q] = None
  <1>1. \A q \in Procs : q # p => pc[q] = "idle" /\ tx[q] = None /\ saw[q] = None
    BY DEF SInv, Session
  <1>2. \A q \in Procs : q # p => pc'[q] = "idle" /\ tx'[q] = None /\ saw'[q] = None
    BY <1>1 DEF Alone
  <1> QED BY <1>1, <1>2 DEF Session, SawNow

\* The owners and the journal stay as they are.
LEMMA SFrame ==
    ASSUME Serialised, SInv, UNCHANGED <<journal, tail, owner, drifted>>,
           \A q \in Procs : Session(q)' /\ SawNow(q)',
           \A q \in Procs : \/ tx'[q] = None \/ tx'[q] = tx[q]
                            \/ tail # "broken" => \E i \in Pending(journal) : journal[i] = tx'[q],
           \A q \in Procs : pc'[q] \in Busy /\ tail # "broken" =>
               \/ pc[q] \in Busy /\ pub'[q] = pub[q] /\ (tx'[q] = tx[q] \/ tx'[q] = None)
               \/ Ready(q)'
    PROVE  SInv'
  <1>1. SUFFICES ASSUME tail # "broken"
                 PROVE  /\ HandleIsFenced' /\ Settled'
                        /\ \A q \in Procs : pc'[q] \in Busy => Ready(q)'
    BY DEF SInv
  <1>2. HandleIsFenced /\ Settled /\ \A q \in Procs : pc[q] \in Busy => Ready(q)
    BY <1>1 DEF SInv
  <1>3. HandleIsFenced'
    BY <1>1, <1>2 DEF HandleIsFenced
  <1>4. Coherent' = Coherent /\ Settled' = Settled /\ \A r : Proposed(r)' = Proposed(r)
    BY DEF Coherent, Settled, Baseline, Proposed
  <1>5. ASSUME NEW q \in Procs, pc'[q] \in Busy PROVE Ready(q)'
    <2>1. CASE pc[q] \in Busy /\ pub'[q] = pub[q] /\ (tx'[q] = tx[q] \/ tx'[q] = None)
      BY <1>2, <1>4, <2>1 DEF Ready
    <2> QED BY <1>1, <1>5, <2>1
  <1> QED BY <1>2, <1>3, <1>4, <1>5

\* A durable record leaves the owners settled.
LEMMA AppendSettled ==
    ASSUME IInv, NEW r \in Record, Fits(journal, r), Proposed(r), Settled,
           journal' = Append(journal, r), owner' = owner, Published(r)
    PROVE  Settled'
  <1>0. journal \in Seq(Record) /\ Good(journal)
    BY DEF IInv, TypeOK
  <1>1. PublishedHeads(journal') =
           IF r.status = "complete" THEN r.heads ELSE PublishedHeads(journal)
    BY <1>0, AppendHeads
  <1>2. Pending(journal') = IF r.status = "partial" THEN {Len(journal) + 1} ELSE {}
    BY <1>0, AppendPending DEF Fits
  <1>3. journal'[Len(journal) + 1] = r
    BY <1>0, AppendFacts
  <1>4. CASE r.status = "complete"
    BY <1>1, <1>2, <1>4 DEF Settled, Coherent, Proposed, Published
  <1>5. CASE r.status = "failed"
    BY <1>1, <1>2, <1>5 DEF Settled, Coherent, Proposed, Published
  <1>6. CASE r.status = "partial"
    <2>1. PublishedHeads(journal') = PublishedHeads(journal) /\ drifted' = drifted
      BY <1>1, <1>6 DEF Published
    <2>2. Baseline(r)'
      BY <2>1, <1>6 DEF Proposed, Coherent, Baseline
    <2>3. Pending(journal') = {Len(journal) + 1}
      BY <1>2, <1>6
    <2>4. \A i \in Pending(journal') : journal'[i] = r
      BY <1>3, <2>3
    <2> QED BY <2>2, <2>3, <2>4 DEF Settled, Baseline
  <1> QED BY <1>4, <1>5, <1>6, RecordFields

\* The open prepares are the latest records that are partial.
LEMMA PendingLatest ==
    /\ \A i \in Pending(journal) : journal[i] \in LatestOf(journal, journal[i].key)
                                   /\ journal[i].status = "partial"
    /\ \A k : \A prior \in LatestOf(journal, k) : prior.status = "partial" =>
          \E i \in Pending(journal) : journal[i] = prior
  BY DEF Pending, LatestOf

\* No step reaches into the transaction of another process.
LEMMA CallAlone ==
    ASSUME IInv, NEW p \in Procs, Call(p)
    PROVE  Alone(p) /\ runLock' = runLock /\ (Serialised => runLock = p)
           /\ owner' = owner /\ drifted' = drifted
           /\ pc[p] = "idle" /\ tail # "broken" /\ saw'[p] = None
  <1>0. /\ pc = [q \in Procs |-> pc[q]] /\ pub = [q \in Procs |-> pub[q]]
        /\ saw = [q \in Procs |-> saw[q]] /\ tx = [q \in Procs |-> tx[q]]
    BY DEF IInv, TypeOK
  <1>1. Enter(p)
    BY DEF Call, Prepare, CommitBound, CommitUnbound, RecordFailed, Abort, AbortUnbound,
           ReconcileUnbound, Restart, Resume
  <1> DEFINE Ok == Alone(p) /\ runLock' = runLock /\ UNCHANGED world /\ saw'[p] = None
  <1>2. ASSUME NEW records, NEW step, NEW t, Expose(p, records, step), Forget(p),
               tx' = [tx EXCEPT ![p] = t] \/ tx' = tx, UNCHANGED <<world, runLock>>
        PROVE  Ok
    BY <1>0, <1>2 DEF Expose, Forget, Alone
  <1>3. ASSUME NEW t, Forget(p), UNCHANGED <<world, runLock, pc, pub>>, tx' = [tx EXCEPT ![p] = t]
        PROVE  Ok
    BY <1>0, <1>3 DEF Forget, Alone
  <1> HIDE DEF Ok
  <1>4. ASSUME NEW k, NEW status, NEW heads, NEW digest,
               RecordPublication(p, k, status, heads, digest)
        PROVE  Ok
    BY <1>2, <1>3, <1>4 DEF RecordPublication
  <1>5. ASSUME NEW i, NEW heads, Resolve(p, i, heads) PROVE Ok
    BY <1>2, <1>5 DEF Resolve
  <1>6. ASSUME Restart(p) PROVE Ok
    BY <1>2, <1>6 DEF Restart
  <1>7. ASSUME NEW k, NEW digest, Resume(p, k, digest) PROVE Ok
    BY <1>3, <1>7 DEF Resume, locks
  <1>8. ASSUME NEW k, NEW bound, NEW digest, Prepare(p, k, bound, digest) PROVE Ok
    BY <1>4, <1>8 DEF Prepare
  <1>9. ASSUME NEW k, NEW digest, RecordFailed(p, k, digest) PROVE Ok
    BY <1>4, <1>9 DEF RecordFailed
  <1>10. ASSUME CommitBound(p) \/ CommitUnbound(p) PROVE Ok
    BY <1>4, <1>10 DEF CommitBound, CommitUnbound
  <1>11. ASSUME Abort(p) \/ AbortUnbound(p) \/ ReconcileUnbound(p) PROVE Ok
    BY <1>5, <1>11 DEF Abort, AbortUnbound, ReconcileUnbound
  <1>12. Ok
    BY <1>6, <1>7, <1>8, <1>9, <1>10, <1>11 DEF Call
  <1> QED BY <1>1, <1>12 DEF Ok, Enter, InSession, Readable, world

\* A call that only picks up, or drops, a transaction.
LEMMA HandleStep ==
    ASSUME Serialised, IInv, SInv, NEW p \in Procs, Call(p), UNCHANGED pc,
           tail # "broken" =>
              tx'[p] = None \/ \E i \in Pending(journal) : journal[i] = tx'[p]
    PROVE  SInv'
  <1>1. /\ Alone(p) /\ runLock' = p /\ runLock = p /\ owner' = owner /\ drifted' = drifted
        /\ pc[p] = "idle" /\ saw'[p] = None /\ journal' = journal /\ tail' = tail
    BY CallAlone, JournalKept
  <1>2. /\ \A q \in Procs : Session(q)' /\ SawNow(q)'
        /\ \A q \in Procs : q # p => pc'[q] = "idle" /\ tx'[q] = None
    BY <1>1, HolderStep DEF SawNow
  <1>3. \A q \in Procs : pc'[q] \notin Busy
    BY <1>1, <1>2 DEF Busy
  <1> QED BY <1>1, <1>2, <1>3, SFrame

\* A call that takes the flock with verified records.
LEMMA ProposeStep ==
    ASSUME Serialised, IInv, SInv, NEW p \in Procs, Call(p), NEW records, NEW step,
           Expose(p, records, step), tx'[p] = tx[p] \/ tx'[p] = None,
           tail # "broken" => /\ Len(records) = 1 => Proposed(records[1])
                              /\ Len(records) = 2 => Pending(journal) # {} /\ tx'[p] = None
    PROVE  SInv'
  <1>1. /\ Alone(p) /\ runLock' = p /\ runLock = p /\ owner' = owner /\ drifted' = drifted
        /\ saw'[p] = None /\ journal' = journal /\ tail' = tail /\ tail # "broken"
    BY CallAlone, JournalKept
  <1>2. /\ \A q \in Procs : Session(q)' /\ SawNow(q)'
        /\ \A q \in Procs : q # p => pc'[q] = "idle" /\ tx'[q] = None
    BY <1>1, HolderStep DEF SawNow
  <1>3. pub'[p] = records
    BY DEF Expose, IInv, TypeOK
  <1>4. \A r : Proposed(r)' = Proposed(r)
    BY <1>1 DEF Proposed, Coherent
  <1>5. Ready(p)'
    BY <1>1, <1>3, <1>4 DEF Ready
  <1>6. \A q \in Procs : pc'[q] \in Busy => q = p
    BY <1>2 DEF Busy
  <1> QED BY <1>1, <1>2, <1>5, <1>6, SFrame

\* record_state_publication, called with heads its caller has just verified.
LEMMA RecordProposed ==
    ASSUME Serialised, IInv, SInv, NEW p \in Procs, Call(p), NEW k, NEW heads, NEW digest,
           NEW status \in {"complete", "partial", "failed"},
           RecordPublication(p, k, status, heads, digest),
           status # "failed" => \A o \in DOMAIN heads : heads[o] = owner[o],
           status = "complete" => Pending(journal) # {}
    PROVE  SInv'
  <1>0. tail # "broken" /\ Settled
    BY CallAlone DEF SInv
  <1>1. CASE Replayed(k, status, heads) # {}
    <2>1. PICK prior \in Replayed(k, status, heads) :
             tx' = [tx EXCEPT ![p] = IF prior.status = "partial" THEN prior ELSE None]
      BY <1>1 DEF RecordPublication
    <2>2. UNCHANGED pc
      BY <1>1 DEF RecordPublication
    <2>3. tx'[p] = IF prior.status = "partial" THEN prior ELSE None
      BY <2>1 DEF IInv, TypeOK
    <2>4. prior \in LatestOf(journal, k)
      BY <2>1 DEF Replayed
    <2>5. tx'[p] = None \/ \E i \in Pending(journal) : journal[i] = tx'[p]
      BY <2>3, <2>4, PendingLatest
    <2> QED BY <2>2, <2>5, HandleStep
  <1>2. CASE Replayed(k, status, heads) = {}
    <2> DEFINE r == NewRecord(k, status, heads, digest)
               step == IF status = "complete" /\ heads # NoHeads THEN "manifest" ELSE "append"
               records == <<r>>
    <2>1. Expose(p, records, step) /\ tx' = tx /\ Admissible(k, status, heads, digest)
      BY <1>2 DEF RecordPublication
    <2>2. r.key = k /\ r.status = status /\ r.heads = heads
      BY DEF NewRecord
    <2>3. Len(records) = 1 /\ records[1] = r
      OBVIOUS
    <2> HIDE DEF r, step, records
    <2>4. status # "complete" => Pending(journal) = {}
      <3>1. SUFFICES ASSUME status # "complete", NEW i \in Pending(journal) PROVE FALSE
        OBVIOUS
      <3>2. journal[i] \in LatestOf(journal, k) /\ journal[i].status = "partial"
        BY <2>1, PendingLatest DEF Admissible
      <3>3. status = "partial" /\ journal[i].heads = heads
        BY <2>1, <3>1, <3>2 DEF Admissible
      <3> QED BY <1>2, <3>2, <3>3 DEF Replayed
    <2>5. Proposed(r)
      BY <1>0, <2>2, <2>4 DEF Proposed, Settled
    <2> QED BY <2>1, <2>3, <2>5, ProposeStep
  <1> QED BY <1>1, <1>2

\* A failed record that ends an open prepare once its rollback is verified.
LEMMA ResolveProposed ==
    ASSUME Serialised, IInv, SInv, NEW p \in Procs, Call(p), NEW i \in Pending(journal), NEW heads,
           Resolve(p, i, heads), Coherent,
           journal[i].heads # NoHeads =>
              HeadsOf(owner, DOMAIN journal[i].heads) = journal[i].heads
    PROVE  SInv'
  <1> DEFINE r == NewRecord(journal[i].key, "failed", heads, journal[i].digest)
             records == <<r>>
  <1>1. Expose(p, records, "append") /\ tx' = tx
    BY DEF Resolve
  <1>2. r.status = "failed"
    BY DEF NewRecord
  <1>3. Len(records) = 1 /\ records[1] = r
    OBVIOUS
  <1>4. Pending(journal) = {i}
    BY DEF IInv, Good
  <1> HIDE DEF r, records
  <1>5. Proposed(r)
    BY <1>2, <1>4 DEF Proposed
  <1> QED BY <1>1, <1>3, <1>5, ProposeStep

\* Every call of the gate's interface.
LEMMA CallSInv ==
    ASSUME Serialised, IInv, SInv, NEW p \in Procs, Call(p)
    PROVE  SInv'
  <1>0. /\ tail # "broken" /\ Settled /\ HandleIsFenced
        /\ saw[p] # None => saw[p] = owner
    BY CallAlone DEF SInv, SawNow
  <1>1. ASSUME NEW k \in Keys, NEW bound \in BOOLEAN, NEW digest \in Digests,
               Prepare(p, k, bound, digest)
        PROVE  SInv'
    <2> DEFINE heads == IF bound THEN HeadsOf(saw[p], Scope(k)) ELSE NoHeads
    <2>1. RecordPublication(p, k, "partial", heads, digest)
      BY <1>1 DEF Prepare
    <2>2. \A o \in DOMAIN heads : heads[o] = owner[o]
      BY <1>0, <1>1 DEF Prepare, HeadsOf, NoHeads
    <2> HIDE DEF heads
    <2> QED BY <2>1, <2>2, RecordProposed
  <1>2. CASE CommitBound(p)
    <2> DEFINE heads == HeadsOf(saw[p], Scope(tx[p].key))
    <2>1. RecordPublication(p, tx[p].key, "complete", heads, tx[p].digest)
      BY <1>2 DEF CommitBound
    <2>2. \A o \in DOMAIN heads : heads[o] = owner[o]
      BY <1>0, <1>2 DEF CommitBound, HeadsOf
    <2>3. Pending(journal) # {}
      BY <1>2, PendingLatest DEF CommitBound
    <2> HIDE DEF heads
    <2> QED BY <2>1, <2>2, <2>3, RecordProposed
  <1>3. CASE CommitUnbound(p)
    <2>1. RecordPublication(p, tx[p].key, "complete", NoHeads, tx[p].digest) /\ tx[p] # None
      BY <1>3 DEF CommitUnbound
    <2>2. \A o \in DOMAIN NoHeads : NoHeads[o] = owner[o]
      BY DEF NoHeads
    <2>3. Pending(journal) # {}
      BY <1>0, <2>1 DEF HandleIsFenced
    <2> QED BY <2>1, <2>2, <2>3, RecordProposed
  <1>4. ASSUME NEW k \in Keys, NEW digest \in Digests, RecordFailed(p, k, digest)
        PROVE  SInv'
    BY <1>4, RecordProposed DEF RecordFailed
  <1>5. CASE Abort(p)
    <2>1. PICK i \in SeenPending(p) :
             /\ HeadsOf(saw[p], Scope(journal[i].key)) = journal[i].heads
             /\ Resolve(p, i, journal[i].heads)
      BY <1>5 DEF Abort
    <2>2. i \in Pending(journal) /\ Baseline(journal[i]) /\ saw[p] = owner
      BY <1>0, <1>5, <2>1 DEF SeenPending, Settled, Abort
    <2> DEFINE S == Scope(journal[i].key)
               h == journal[i].heads
    <2>3. h = [o \in S |-> owner[o]]
      BY <2>1, <2>2 DEF HeadsOf
    <2>4. Coherent
      BY <2>2, <2>3 DEF Coherent, Baseline
    <2>5. HeadsOf(owner, DOMAIN h) = h
      BY <2>3 DEF HeadsOf
    <2> QED BY <2>1, <2>2, <2>4, <2>5, ResolveProposed
  <1>6. CASE AbortUnbound(p)
    <2>1. PICK i \in SeenPending(p) : journal[i].heads = NoHeads /\ Resolve(p, i, NoHeads)
      BY <1>6 DEF AbortUnbound
    <2>2. Completes(journal) = {} /\ i \in Pending(journal)
      BY <1>6, <2>1 DEF AbortUnbound, SeenPending
    <2>3. Coherent
      BY <2>2 DEF Coherent, PublishedHeads, NoHeads
    <2> QED BY <2>1, <2>2, <2>3, ResolveProposed
  <1>7. CASE ReconcileUnbound(p)
    <2> DEFINE h == journal[Newest(journal)].heads
    <2>1. PICK i \in SeenPending(p) :
             /\ journal[i].heads = NoHeads /\ HeadsOf(owner, DOMAIN h) = h
             /\ Resolve(p, i, NoHeads)
      BY <1>7 DEF ReconcileUnbound
    <2>2. PublishedHeads(journal) = h /\ i \in Pending(journal)
      BY <1>7, <2>1 DEF ReconcileUnbound, PublishedHeads, SeenPending
    <2>3. \A o \in DOMAIN h : owner[o] = h[o]
      BY <2>1 DEF HeadsOf
    <2>4. Coherent
      BY <2>2, <2>3 DEF Coherent
    <2> QED BY <2>1, <2>2, <2>4, ResolveProposed
  <1>8. CASE Restart(p)
    <2>1. tx' = [tx EXCEPT ![p] = None]
      BY <1>8 DEF Restart
    <2>2. PICK i \in SeenPending(p) :
             Expose(p,
                <<NewRecord(journal[i].key, "failed",
                            HeadsOf(saw[p], Scope(journal[i].key)), journal[i].digest),
                  [NewRecord(RestartKey(journal[i].id, EpochOf(journal), HeadsOf(saw[p], {Semantic})),
                             "complete", HeadsOf(saw[p], {Semantic}), None) EXCEPT !.id = clock + 2]>>,
                "manifest")
      BY <1>8 DEF Restart
    <2>3. Pending(journal) # {} /\ tx'[p] = None
      BY <2>1, <2>2 DEF SeenPending, IInv, TypeOK
    <2> DEFINE F == NewRecord(journal[i].key, "failed",
                              HeadsOf(saw[p], Scope(journal[i].key)), journal[i].digest)
               C == [NewRecord(RestartKey(journal[i].id, EpochOf(journal), HeadsOf(saw[p], {Semantic})),
                               "complete", HeadsOf(saw[p], {Semantic}), None) EXCEPT !.id = clock + 2]
               records == <<F, C>>
    <2>4. Expose(p, records, "manifest")
      BY <2>2
    <2> HIDE DEF F, C
    <2>5. Len(records) = 2
      OBVIOUS
    <2> HIDE DEF records
    <2> QED BY <2>3, <2>4, <2>5, ProposeStep
  <1>9. ASSUME NEW k \in Keys, NEW digest \in Digests, Resume(p, k, digest)
        PROVE  SInv'
    <2>1. PICK i \in SeenPending(p) : tx' = [tx EXCEPT ![p] = journal[i]]
      BY <1>9 DEF Resume
    <2>2. tx'[p] = journal[i] /\ i \in Pending(journal) /\ pc' = pc
      BY <1>9, <2>1 DEF Resume, SeenPending, IInv, TypeOK
    <2> QED BY <2>2, HandleStep
  <1> QED BY <1>1, <1>2, <1>3, <1>4, <1>5, <1>6, <1>7, <1>8, <1>9 DEF Call

\* Sessions begin, end and die with nothing remembered outside them.
LEMMA SessionSInv ==
    ASSUME Serialised, IInv, SInv, NEW p \in Procs, StartSession(p) \/ EndSession(p) \/ Crash(p)
    PROVE  SInv'
  <1>0. /\ pc = [q \in Procs |-> pc[q]] /\ pub = [q \in Procs |-> pub[q]]
        /\ saw = [q \in Procs |-> saw[q]] /\ tx = [q \in Procs |-> tx[q]]
        /\ None \notin Procs
    BY ConstantsAssumption DEF IInv, TypeOK
  <1>1. \A q \in Procs : Session(q) /\ SawNow(q)
    BY DEF SInv
  <1>2. UNCHANGED <<journal, tail, owner, drifted>>
    BY DEF StartSession, EndSession, Crash, files, world
  <1>3. CASE StartSession(p)
    <2>1. \A q \in Procs : Session(q)' /\ SawNow(q)'
      BY <1>0, <1>1, <1>3 DEF StartSession, Session, SawNow, world
    <2>2. pc' = pc /\ pub' = pub /\ tx' = tx
      BY <1>3 DEF StartSession
    <2> QED BY <1>2, <2>1, <2>2, SFrame
  <1>4. CASE EndSession(p)
    <2>1. \A q \in Procs : Session(q)' /\ SawNow(q)'
      BY <1>0, <1>1, <1>4 DEF EndSession, Session, SawNow, world
    <2>2. pc' = pc /\ pub' = pub /\ \A q \in Procs : tx'[q] = tx[q] \/ tx'[q] = None
      BY <1>0, <1>4 DEF EndSession
    <2> QED BY <1>2, <2>1, <2>2, SFrame
  <1>5. CASE Crash(p)
    <2>1. /\ \A q \in Procs : q # p => pc'[q] = pc[q] /\ saw'[q] = saw[q] /\ tx'[q] = tx[q] /\ pub'[q] = pub[q]
          /\ pc'[p] = "idle" /\ saw'[p] = None /\ tx'[p] = None
          /\ runLock' = IF runLock = p THEN None ELSE runLock
      BY <1>0, <1>5 DEF Crash
    <2>2. \A q \in Procs : Session(q)' /\ SawNow(q)'
      BY <1>0, <1>1, <1>2, <2>1 DEF Session, SawNow
    <2>3. \A q \in Procs : pc'[q] \in Busy => pc[q] \in Busy /\ pub'[q] = pub[q]
      BY <2>1 DEF Busy
    <2>4. \A q \in Procs : tx'[q] = None \/ tx'[q] = tx[q]
      BY <2>1
    <2> QED BY <1>2, <2>2, <2>3, <2>4, SFrame
  <1> QED BY <1>3, <1>4, <1>5

\* Observations, captures and the steps of a writer that leave the journal
\* alone.
LEMMA StillSInv ==
    ASSUME Serialised, IInv, SInv, NEW p \in Procs,
           \/ Observe(p) \/ CaptureHeads(p) \/ WriteManifest(p) \/ WritePointer(p)
           \/ ReplaceRefused(p) \/ ManifestFails(p) \/ PointerFails(p)
    PROVE  SInv'
  <1>0. /\ pc = [q \in Procs |-> pc[q]] /\ pub = [q \in Procs |-> pub[q]]
        /\ saw = [q \in Procs |-> saw[q]] /\ tx = [q \in Procs |-> tx[q]]
    BY DEF IInv, TypeOK
  <1>1. Session(p) /\ SawNow(p)
    BY DEF SInv
  <1>2. UNCHANGED <<journal, tail>>
    BY JournalKept
  <1>3. UNCHANGED <<owner, drifted, runLock, tx>> /\ runLock = p
    <2>1. CASE Observe(p)
      BY <1>1, <2>1 DEF Observe, ObserveFences, ObservePointer, ObserveJournal, ObserveEnd,
         Session, InSession, world, locks
    <2>2. CASE CaptureHeads(p)
      BY <1>1, <2>2 DEF CaptureHeads, InSession, world, locks
    <2>3. CASE WriteManifest(p) \/ WritePointer(p) \/ ReplaceRefused(p)
      BY <1>1, <2>3 DEF WriteManifest, WritePointer, ReplaceRefused, Session, world, locks
    <2>4. CASE ManifestFails(p) \/ PointerFails(p)
      BY <1>1, <2>4 DEF ManifestFails, PointerFails, Session, world
    <2> QED BY <2>1, <2>2, <2>3, <2>4
  <1>4. Alone(p) /\ SawNow(p)'
    <2>1. CASE Observe(p)
      BY <1>0, <1>1, <1>3, <2>1 DEF Observe, ObserveFences, ObservePointer, ObserveJournal, ObserveEnd,
         Alone, SawNow
    <2>2. CASE CaptureHeads(p)
      BY <1>0, <1>3, <2>2 DEF CaptureHeads, Alone, SawNow
    <2>3. CASE WriteManifest(p) \/ WritePointer(p) \/ ReplaceRefused(p)
      BY <1>0, <1>1, <1>3, <2>3 DEF WriteManifest, WritePointer, ReplaceRefused, Unlock, Alone, SawNow
    <2>4. CASE ManifestFails(p) \/ PointerFails(p)
      BY <1>0, <1>1, <1>3, <2>4 DEF ManifestFails, PointerFails, Unlock, Alone, SawNow
    <2> QED BY <2>1, <2>2, <2>3, <2>4
  <1>5. \A q \in Procs : Session(q)' /\ SawNow(q)'
    BY <1>3, <1>4, HolderStep
  <1>6. pc'[p] \in Busy => pc[p] \in Busy /\ pub'[p] = pub[p]
    <2>1. CASE Observe(p)
      BY <1>0, <2>1 DEF Observe, ObserveFences, ObservePointer, ObserveJournal, ObserveEnd, Busy
    <2>2. CASE CaptureHeads(p) \/ WriteManifest(p)
      BY <1>0, <2>2 DEF CaptureHeads, WriteManifest, Busy
    <2>3. CASE WritePointer(p) \/ ReplaceRefused(p) \/ ManifestFails(p) \/ PointerFails(p)
      BY <1>0, <2>3 DEF WritePointer, ReplaceRefused, ManifestFails, PointerFails, Unlock, Busy
    <2> QED BY <2>1, <2>2, <2>3
  <1>7. \A q \in Procs : pc'[q] \in Busy => pc[q] \in Busy /\ pub'[q] = pub[q]
    BY <1>4, <1>6 DEF Alone
  <1> QED BY <1>2, <1>3, <1>5, <1>7, SFrame

\* Owner writes: under a transaction only inside its scope, or a direct index
\* that the gate no longer speaks for.
LEMMA OwnerSInv ==
    ASSUME Serialised, IInv, SInv, NEW p \in Procs,
           (\E o \in Owners : OwnerWrite(p, o)) \/ OwnerRevert(p) \/ DirectIndex(p)
    PROVE  SInv'
  <1>0. /\ saw = [q \in Procs |-> saw[q]] /\ owner \in [Owners -> Revision]
    BY DEF IInv, TypeOK
  <1>1. /\ runLock = p /\ runLock' = p /\ pc[p] = "idle" /\ UNCHANGED <<files, pc, tx, pub>>
        /\ saw' = [saw EXCEPT ![p] = None]
    BY DEF OwnerWrite, OwnerRevert, DirectIndex, InSession, locks
  <1>2. Alone(p) /\ SawNow(p)'
    BY <1>0, <1>1 DEF Alone, SawNow
  <1>3. /\ \A q \in Procs : Session(q)' /\ SawNow(q)'
        /\ \A q \in Procs : pc'[q] = "idle"
    BY <1>1, <1>2, HolderStep
  <1>4. ASSUME tail # "broken" PROVE HandleIsFenced' /\ Settled'
    <2>1. HandleIsFenced /\ Settled
      BY <1>4 DEF SInv
    <2>2. HandleIsFenced'
      BY <1>1, <2>1 DEF HandleIsFenced, files
    <2>3. journal' = journal
      BY <1>1 DEF files
    <2>4. tx[p] # None => \E i \in Pending(journal) : Pending(journal) = {i} /\ journal[i] = tx[p]
      BY <1>4, <2>1 DEF HandleIsFenced, IInv, Good
    <2> DEFINE H == PublishedHeads(journal)
    <2>5. DOMAIN H \subseteq Owners
      <3>1. Completes(journal) # {} => Newest(journal) \in DOMAIN journal
        BY EpochFacts DEF IInv, TypeOK, Good, Completes
      <3>2. Completes(journal) # {} => H \in Heads
        BY <3>1, RecordFields DEF PublishedHeads, IInv, TypeOK
      <3> QED BY <3>2 DEF PublishedHeads, NoHeads, Heads
    <2> HIDE DEF H
    <2>6. ASSUME NEW o \in Owners, OwnerWrite(p, o) PROVE Settled'
      <3>1. /\ tx[p] # None /\ o \in Scope(tx[p].key) /\ owner' = [owner EXCEPT ![o] = @ + 1]
            /\ drifted' = drifted
        BY <2>6 DEF OwnerWrite
      <3>2. PICK i \in Pending(journal) : Pending(journal) = {i} /\ journal[i] = tx[p]
        BY <2>4, <3>1
      <3>3. \A x \in Owners : x # o => owner'[x] = owner[x]
        BY <1>0, <3>1
      <3>4. Baseline(tx[p])
        BY <2>1, <3>2 DEF Settled
      <3>5. Baseline(tx[p])'
        BY <1>1, <2>3, <2>5, <3>1, <3>3, <3>4 DEF Baseline, H
      <3> QED BY <1>1, <2>3, <3>2, <3>5 DEF Settled, Baseline
    <2>7. ASSUME OwnerRevert(p) PROVE Settled'
      <3>1. /\ tx[p] # None /\ drifted' = drifted
            /\ owner' = [o \in Owners |-> IF o \in DOMAIN tx[p].heads THEN tx[p].heads[o]
                                          ELSE owner[o]]
        BY <2>7 DEF OwnerRevert
      <3>2. PICK i \in Pending(journal) : Pending(journal) = {i} /\ journal[i] = tx[p]
        BY <2>4, <3>1
      <3>3. Baseline(tx[p])
        BY <2>1, <3>2 DEF Settled
      <3>4. Baseline(tx[p])'
        BY <1>1, <2>3, <2>5, <3>1, <3>3 DEF Baseline, H
      <3> QED BY <1>1, <2>3, <3>2, <3>4 DEF Settled, Baseline
    <2>8. ASSUME DirectIndex(p) PROVE Settled'
      <3>1. /\ owner' = [owner EXCEPT ![Semantic] = @ + 1] /\ drifted' = drifted \cup {Semantic}
        BY <2>8 DEF DirectIndex
      <3>2. \A x \in Owners : x # Semantic => owner'[x] = owner[x]
        BY <1>0, <3>1
      <3>3. Coherent => Coherent'
        BY <2>3, <2>5, <3>1, <3>2 DEF Coherent, H
      <3>4. \A i \in Pending(journal) : Baseline(journal[i]) => Baseline(journal[i])'
        BY <2>3, <2>5, <3>1, <3>2 DEF Baseline, H
      <3> QED BY <2>1, <2>3, <3>3, <3>4 DEF Settled
    <2> QED BY <2>2, <2>6, <2>7, <2>8
  <1> QED BY <1>1, <1>3, <1>4 DEF SInv, Busy, files

\* _append_journal, whether it returned or raised.
LEMMA AppendSInv ==
    ASSUME Serialised, IInv, SInv, NEW p \in Procs, AppendJournal(p) \/ AppendFails(p)
    PROVE  SInv'
  <1> DEFINE r == pub[p][1]
  <1>0. /\ pc = [q \in Procs |-> pc[q]] /\ pub = [q \in Procs |-> pub[q]]
        /\ saw = [q \in Procs |-> saw[q]] /\ tx = [q \in Procs |-> tx[q]]
        /\ journal \in Seq(Record)
    BY DEF IInv, TypeOK
  <1>1. /\ r \in Record /\ Len(pub[p]) = 1 /\ Fits(journal, r)
        /\ Last(pub[p]) = r /\ pc[p] = "append" /\ tail # "broken"
        /\ \/ journal' = journal /\ drifted' = drifted
           \/ journal' = Append(journal, r) /\ Published(r)
        /\ owner' = owner /\ runLock' = runLock
    BY WriterAppends
  <1>2. runLock = p /\ Settled /\ HandleIsFenced /\ Proposed(r) /\ SawNow(p)
    BY <1>1 DEF SInv, Session, Busy, Ready
  <1> HIDE DEF r
  <1>3. /\ saw' = saw /\ pc'[p] \in {"idle", "pointer"}
        /\ \A q \in Procs : q # p => pc'[q] = pc[q] /\ tx'[q] = tx[q] /\ pub'[q] = pub[q]
    <2>1. CASE AppendJournal(p)
      BY <1>0, <2>1 DEF AppendJournal, Unlock, Held
    <2>2. CASE AppendFails(p)
      BY <1>0, <2>2 DEF AppendFails, Unlock
    <2> QED BY <2>1, <2>2
  <1>4. Alone(p) /\ SawNow(p)'
    BY <1>1, <1>2, <1>3 DEF Alone, SawNow
  <1>5. /\ \A q \in Procs : Session(q)' /\ SawNow(q)'
        /\ \A q \in Procs : q # p => tx'[q] = None /\ pc'[q] = "idle"
    BY <1>1, <1>2, <1>4, HolderStep
  <1>6. \A q \in Procs : pc'[q] \notin Busy
    BY <1>3, <1>5 DEF Busy
  <1>7. Settled'
    <2>1. CASE journal' = journal /\ drifted' = drifted
      BY <1>1, <1>2, <2>1 DEF Settled, Coherent, Baseline
    <2>2. CASE journal' = Append(journal, r) /\ Published(r)
      BY <1>1, <1>2, <2>2, AppendSettled
    <2> QED BY <1>1, <2>1, <2>2
  <1>8. ASSUME tail' # "broken", tx'[p] # None
        PROVE  \E i \in Pending(journal') : journal'[i] = tx'[p]
    <2>1. AppendJournal(p)
      BY <1>0, <1>8 DEF AppendFails
    <2>2. tail = "closed" /\ journal' = Append(journal, r)
      BY <1>1, <1>8, <2>1 DEF AppendJournal
    <2>3. tx'[p] = IF r.status = "partial" THEN r ELSE None
      BY <1>0, <1>1, <2>1 DEF AppendJournal, Held
    <2>4. r.status = "partial" /\ tx'[p] = r
      BY <1>8, <2>3
    <2>5. Pending(journal') = {Len(journal) + 1} /\ journal'[Len(journal) + 1] = r
      BY <1>0, <1>1, <2>2, <2>4, AppendPending, AppendFacts DEF Fits
    <2> QED BY <2>4, <2>5
  <1>9. tail' # "broken" => HandleIsFenced'
    BY <1>5, <1>8 DEF HandleIsFenced
  <1> QED BY <1>5, <1>6, <1>7, <1>9 DEF SInv

\* The replacement of the journal publishes the Semantic head it has verified.
LEMMA ReplaceSInv ==
    ASSUME Serialised, IInv, SInv, NEW p \in Procs, ReplaceJournal(p)
    PROVE  SInv'
  <1> DEFINE s == pub[p]
             k == Append(journal, s[1])
  <1>0. pc = [q \in Procs |-> pc[q]] /\ journal \in Seq(Record) /\ Good(journal)
    BY DEF IInv, TypeOK
  <1>1. /\ s \in Seq(Record) /\ Len(s) = 2 /\ FitsPair(journal, s[1], s[2])
        /\ pc[p] = "replace" /\ tail # "broken" /\ journal' = journal \o s
        /\ Published(s[2]) /\ s[2].heads = HeadsOf(owner, {Semantic})
        /\ pc' = [pc EXCEPT ![p] = "pointer"]
        /\ UNCHANGED <<owner, runLock, saw, tx, pub>>
    BY WriterReplaces DEF locks
  <1>2. runLock = p /\ tx[p] = None /\ SawNow(p)
    BY <1>1 DEF SInv, Session, Busy, Ready
  <1>3. Alone(p) /\ SawNow(p)'
    BY <1>0, <1>1, <1>2 DEF Alone, SawNow
  <1>4. /\ \A q \in Procs : Session(q)' /\ SawNow(q)'
        /\ \A q \in Procs : q # p => tx'[q] = None /\ pc'[q] = "idle"
    BY <1>1, <1>2, <1>3, HolderStep
  <1>5. \A q \in Procs : pc'[q] \notin Busy
    BY <1>0, <1>1, <1>4 DEF Busy
  <1> HIDE DEF s
  <1>6. /\ s[2] \in Record /\ k \in Seq(Record) /\ Good(k) /\ Fits(k, s[2])
        /\ s[2].status = "complete" /\ journal' = Append(k, s[2])
    BY <1>0, <1>1, PairAppends
  <1> HIDE DEF k
  <1>7. Pending(journal') = {} /\ PublishedHeads(journal') = s[2].heads
    BY <1>6, AppendPending, AppendHeads DEF Fits
  <1>8. Settled'
    BY <1>1, <1>7 DEF Settled, Coherent, HeadsOf
  <1>9. HandleIsFenced'
    BY <1>1, <1>2, <1>4 DEF HandleIsFenced
  <1> QED BY <1>4, <1>5, <1>8, <1>9 DEF SInv

\* Every step preserves what the holder of FrameworkRunLock relies on.
LEMMA NextSInv == ASSUME IInv, SInv, [Next]_vars PROVE SInv'
  <1>1. SUFFICES ASSUME Serialised PROVE SInv'
    BY DEF SInv
  <1>2. CASE UNCHANGED vars
    <2>1. UNCHANGED <<journal, tail, owner, drifted, pc, saw, tx, pub, runLock>>
      BY <1>2 DEF vars, files, world, locks, local
    <2>2. \A q \in Procs : Session(q)' /\ SawNow(q)'
      BY <1>1, <2>1 DEF SInv, Session, SawNow
    <2> QED BY <1>1, <2>1, <2>2, SFrame
  <1>3. ASSUME NEW p \in Procs, Write(p) \/ Fail(p) PROVE SInv'
    BY <1>1, <1>3, StillSInv, SessionSInv, AppendSInv, ReplaceSInv DEF Write, Fail
  <1> QED BY <1>1, <1>2, <1>3, SessionSInv, StillSInv, OwnerSInv, CallSInv DEF Next

-----------------------------------------------------------------------------
(* Theorems about callers that hold FrameworkRunLock, as those in src/ do. *)

\* The invariant of serialised callers holds in every reachable state.
THEOREM SerialInvariance == Spec => []SInv
  <1>1. ASSUME Init PROVE SInv
    <2>1. journal = <<>> /\ Completes(journal) = {} /\ Pending(journal) = {}
      BY <1>1 DEF Init, Completes, Pending
    <2>2. Settled
      BY <2>1 DEF Settled, Coherent, PublishedHeads, NoHeads
    <2>3. \A p \in Procs : pc[p] = "idle" /\ tx[p] = None /\ saw[p] = None
      BY <1>1 DEF Init
    <2> QED BY <2>2, <2>3 DEF SInv, Session, SawNow, HandleIsFenced, Busy
  <1>2. IInv /\ SInv /\ [Next]_vars => SInv'
    BY NextSInv
  <1> QED BY <1>1, <1>2, Invariance, PTL DEF Spec

\* Owners change under a transaction only while its prepare is the open fence
\* of the journal.
THEOREM WritesAreFenced == Spec => [](Serialised => HandleIsFenced)
  <1>1. SInv => (Serialised => HandleIsFenced)
    BY DEF SInv, HandleIsFenced
  <1> QED BY <1>1, SerialInvariance, PTL

\* An open gate shows the heads the owners really have: no crash, abort or
\* abandoned transaction shines through.
THEOREM GateIsCoherent == Spec => [](Serialised => GateCoherent)
  <1>1. ASSUME SInv, Serialised PROVE GateCoherent
    <2>1. SUFFICES ASSUME View.status = "complete" PROVE GateCoherent
      BY DEF GateCoherent
    <2>2. tail # "broken" /\ Pending(journal) = {} /\ Completes(journal) # {}
      BY <2>1 DEF View, ViewOf
    <2>3. Coherent
      BY <1>1, <2>2 DEF SInv, Settled
    <2> QED BY <2>2, <2>3 DEF Coherent, PublishedHeads, GateCoherent
  <1>2. SInv => (Serialised => GateCoherent)
    BY <1>1
  <1> QED BY <1>2, SerialInvariance, PTL

\* A prepare with a baseline is given up only with its owners back at it.
THEOREM RollbacksProven == Serialised => (Spec => RollbackProven)
  <1>1. SUFFICES ASSUME Serialised PROVE Spec => RollbackProven
    OBVIOUS
  <1>2. ASSUME IInv, SInv, [Next]_vars, NEW i \in Pending(journal), journal[i].heads # NoHeads,
               journal' # journal, Completes(journal') = Completes(journal)
        PROVE  HeadsOf(owner, DOMAIN journal[i].heads) = journal[i].heads
    <2>0. journal \in Seq(Record) /\ Good(journal) /\ Len(journal) \in Nat
      BY <1>2 DEF IInv, TypeOK
    <2>1. ASSUME NEW p \in Procs, AppendJournal(p) \/ AppendFails(p)
          PROVE  HeadsOf(owner, DOMAIN journal[i].heads) = journal[i].heads
      <3> DEFINE r == pub[p][1]
      <3>1. /\ r \in Record /\ journal' = Append(journal, r) /\ pc[p] = "append"
            /\ tail # "broken" /\ Len(pub[p]) = 1
        BY <1>2, <2>1, WriterAppends
      <3>2. Proposed(r)
        BY <1>1, <1>2, <3>1 DEF SInv, Busy, Ready
      <3> HIDE DEF r
      <3>3. r.status # "complete"
        <4>1. Len(journal) + 1 \notin Completes(journal)
          BY <2>0 DEF Completes
        <4> QED BY <1>2, <2>0, <3>1, <4>1, AppendFacts
      <3>4. r.status = "failed"
        BY <1>2, <3>1, <3>2, <3>3, RecordFields DEF Proposed
      <3> QED BY <1>2, <3>2, <3>4 DEF Proposed
    <2>2. ASSUME NEW p \in Procs, ReplaceJournal(p) PROVE FALSE
      <3>1. Completes(journal') = Completes(journal) \cup {Len(journal) + 2}
        <4> DEFINE t == pub[p]
        <4>1. t \in Seq(Record) /\ Len(t) = 2 /\ FitsPair(journal, t[1], t[2]) /\ journal' = journal \o t
          BY <1>2, <2>2, WriterReplaces
        <4> HIDE DEF t
        <4> QED BY <2>0, <4>1, PairGood
      <3>2. Len(journal) + 2 \notin Completes(journal)
        BY <2>0 DEF Completes
      <3> QED BY <1>2, <3>1, <3>2
    <2>3. ASSUME NEW p \in Procs, Write(p) \/ Fail(p)
          PROVE  HeadsOf(owner, DOMAIN journal[i].heads) = journal[i].heads
      BY <1>2, <2>1, <2>2, <2>3, JournalKept DEF Write, Fail
    <2>4. CASE UNCHANGED vars
      BY <1>2, <2>4 DEF vars, files
    <2> QED BY <1>2, <2>3, <2>4, JournalKept DEF Next
  <1>3. IInv /\ SInv /\ [Next]_vars =>
           [\A i \in Pending(journal) :
              /\ journal[i].heads # NoHeads
              /\ journal' # journal
              /\ Completes(journal') = Completes(journal)
              => HeadsOf(owner, DOMAIN journal[i].heads) = journal[i].heads]_vars
    BY <1>2
  <1> QED BY <1>3, Invariance, SerialInvariance, PTL DEF Spec, RollbackProven

-----------------------------------------------------------------------------
(* The refinement of PublicationGate. *)

\* The gate as a function of the journal: epoch, heads and fence.
FenceOf(j) == IF Pending(j) = {} THEN None ELSE j[CHOOSE i \in Pending(j) : TRUE].id

\* What one append does to the gate.
LEMMA AppendGate ==
    ASSUME NEW j \in Seq(Record), NEW r \in Record, Good(j), Fits(j, r)
    PROVE  /\ EpochOf(Append(j, r)) = EpochOf(j) + (IF r.status = "complete" THEN 1 ELSE 0)
           /\ PublishedHeads(Append(j, r)) =
                 IF r.status = "complete" THEN r.heads ELSE PublishedHeads(j)
           /\ FenceOf(Append(j, r)) = IF r.status = "partial" THEN r.id ELSE None
  <1>1. EpochOf(Append(j, r)) = r.epoch
    BY AppendGood
  <1>2. FenceOf(Append(j, r)) = IF r.status = "partial" THEN r.id ELSE None
    <2> DEFINE k == Append(j, r)
               L == Len(j) + 1
    <2>1. Pending(k) = (IF r.status = "partial" THEN {L} ELSE {}) /\ k[L] = r
      BY AppendPending, AppendFacts DEF Fits
    <2> HIDE DEF k, L
    <2>2. CASE r.status = "partial"
      <3>1. Pending(k) = {L}
        BY <2>1, <2>2
      <3>2. (CHOOSE i \in Pending(k) : TRUE) = L
        BY <3>1
      <3> QED BY <2>1, <2>2, <3>1, <3>2 DEF FenceOf, k
    <2>3. CASE r.status # "partial"
      BY <2>1, <2>3 DEF FenceOf, k
    <2> QED BY <2>2, <2>3
  <1> QED BY <1>1, <1>2, AppendHeads DEF Fits

\* A fence that is up names an event.
LEMMA FenceUp ==
    ASSUME NEW j \in Seq(Record)
    PROVE  FenceOf(j) = None <=> Pending(j) = {}
  <1>1. CASE Pending(j) # {}
    <2> DEFINE i == CHOOSE n \in Pending(j) : TRUE
    <2>1. i \in Pending(j)
      BY <1>1
    <2>2. i \in DOMAIN j
      BY <2>1 DEF Pending
    <2>3. j[i].id \in Nat
      BY <2>2, RecordFields
    <2> QED BY <1>1, <2>3, NoneAssumption DEF FenceOf
  <1> QED BY <1>1 DEF FenceOf

\* A change of the journal as the gate shows it: a fence goes up, an epoch is
\* published, a fence goes down, or readers see no difference.
GateStep(j, k) ==
    \/ /\ FenceOf(j) = None /\ FenceOf(k) # None
       /\ EpochOf(k) = EpochOf(j) /\ PublishedHeads(k) = PublishedHeads(j)
    \/ /\ FenceOf(j) # None /\ FenceOf(k) = None
       /\ EpochOf(k) = EpochOf(j) + 1
    \/ /\ FenceOf(j) # None /\ FenceOf(k) = None
       /\ EpochOf(k) = EpochOf(j) /\ PublishedHeads(k) = PublishedHeads(j)
    \/ /\ FenceOf(k) = FenceOf(j)
       /\ EpochOf(k) = EpochOf(j) /\ PublishedHeads(k) = PublishedHeads(j)

\* Every step of the detailed specification is one of these.
LEMMA NextGate ==
    ASSUME Serialised, IInv, SInv, [Next]_vars
    PROVE  GateStep(journal, journal')
  <1>0. /\ journal \in Seq(Record) /\ Good(journal) /\ EpochOf(journal) \in Nat
    BY EpochFacts DEF IInv, TypeOK, Good
  <1>1. CASE journal' = journal
    BY <1>1 DEF GateStep
  <1>2. ASSUME NEW p \in Procs, AppendJournal(p) \/ AppendFails(p)
        PROVE  GateStep(journal, journal')
    <2> DEFINE r == pub[p][1]
    <2>1. /\ r \in Record /\ Fits(journal, r) /\ pc[p] = "append" /\ tail # "broken"
          /\ Len(pub[p]) = 1 /\ (journal' = journal \/ journal' = Append(journal, r))
      BY <1>2, WriterAppends
    <2>2. Proposed(r)
      BY <2>1 DEF SInv, Busy, Ready
    <2> HIDE DEF r
    <2>3. ASSUME journal' = Append(journal, r) PROVE GateStep(journal, journal')
      <3>1. /\ EpochOf(journal') = EpochOf(journal) + (IF r.status = "complete" THEN 1 ELSE 0)
            /\ PublishedHeads(journal') =
                  IF r.status = "complete" THEN r.heads ELSE PublishedHeads(journal)
            /\ FenceOf(journal') = IF r.status = "partial" THEN r.id ELSE None
        BY <1>0, <2>1, <2>3, AppendGate
      <3>2. FenceOf(journal) = None <=> Pending(journal) = {}
        BY <1>0, FenceUp
      <3>3. CASE r.status = "partial"
        <4>1. r.id # None
          BY <2>1, RecordFields, NoneAssumption
        <4> QED BY <1>0, <2>2, <3>1, <3>2, <3>3, <4>1 DEF Proposed, GateStep
      <3>4. CASE r.status = "complete"
        BY <2>2, <3>1, <3>2, <3>4 DEF Proposed, GateStep
      <3>5. CASE r.status = "failed"
        BY <1>0, <3>1, <3>5 DEF GateStep
      <3> QED BY <2>1, <3>3, <3>4, <3>5, RecordFields
    <2> QED BY <1>1, <2>1, <2>3
  <1>3. ASSUME NEW p \in Procs, ReplaceJournal(p) PROVE GateStep(journal, journal')
    <2> DEFINE s == pub[p]
               k == Append(journal, s[1])
    <2>1. /\ s \in Seq(Record) /\ Len(s) = 2 /\ FitsPair(journal, s[1], s[2])
          /\ pc[p] = "replace" /\ tail # "broken" /\ journal' = journal \o s
      BY <1>3, WriterReplaces
    <2>2. Pending(journal) # {}
      BY <2>1 DEF SInv, Busy, Ready
    <2> HIDE DEF s
    <2>3. /\ s[1] \in Record /\ Fits(journal, s[1]) /\ s[1].status = "failed"
          /\ s[2] \in Record /\ k \in Seq(Record) /\ Good(k) /\ Fits(k, s[2])
          /\ s[2].status = "complete" /\ journal' = Append(k, s[2])
      BY <1>0, <2>1, PairAppends
    <2>4. EpochOf(k) = EpochOf(journal)
      BY <1>0, <2>3, AppendGate
    <2> HIDE DEF k
    <2>5. EpochOf(journal') = EpochOf(k) + 1 /\ FenceOf(journal') = None
      BY <2>3, AppendGate
    <2> QED BY <1>0, <2>2, <2>4, <2>5, FenceUp DEF GateStep
  <1>4. ASSUME NEW p \in Procs, Write(p) \/ Fail(p) PROVE GateStep(journal, journal')
    BY <1>1, <1>2, <1>3, <1>4, JournalKept DEF Write, Fail
  <1>5. CASE UNCHANGED vars
    BY <1>1, <1>5 DEF vars, files
  <1> QED BY <1>1, <1>4, <1>5, JournalKept DEF Next

\* Journal, pointer, manifests, retries, faults and crashes implement the
\* gate of PublicationGate: one fence at a time, and a new epoch only through
\* a fence that was up.
THEOREM GateRefined == Serialised => (Spec => ImplementsGate)
  <1>1. SUFFICES ASSUME Serialised PROVE Spec => ImplementsGate
    OBVIOUS
  <1>2. Init => Gate!Init
    <2>1. Init => Completes(journal) = {} /\ Pending(journal) = {}
      BY DEF Init, Completes, Pending
    <2> QED BY <2>1 DEF Gate!Init, EpochOf
  <1>3. IInv /\ SInv /\ [Next]_vars => [Gate!Next]_(Gate!vars)
    <2>1. SUFFICES ASSUME IInv, SInv, [Next]_vars PROVE [Gate!Next]_(Gate!vars)
      OBVIOUS
    <2>2. GateStep(journal, journal')
      BY <1>1, <2>1, NextGate
    <2> QED BY <2>2 DEF GateStep, FenceOf, PublishedHeads, Gate!Next, Gate!Raise, Gate!Publish,
                        Gate!Lift, Gate!vars
  <1> QED BY <1>2, <1>3, Invariance, SerialInvariance, PTL DEF Spec, ImplementsGate, Gate!Spec

==============================================================================
