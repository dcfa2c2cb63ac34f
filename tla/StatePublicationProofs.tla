----------------------- MODULE StatePublicationProofs -----------------------
(***************************************************************************)
(* Proofs about StatePublication for every number of processes, keys,      *)
(* owners, faults and crashes, and whether or not the callers hold         *)
(* FrameworkRunLock.                                                       *)
(***************************************************************************)
EXTENDS StatePublication, SequenceTheorems, TLAPS

-----------------------------------------------------------------------------
(* The inductive invariant. *)

\* Epochs never decrease along the journal, a complete record raises them,
\* and the last complete record carries the current epoch.
Ordered(j) ==
    /\ \A i, n \in DOMAIN j : i < n =>
          /\ j[i].epoch <= j[n].epoch
          /\ j[n].status = "complete" => j[i].epoch < j[n].epoch
    /\ Completes(j) # {} => \E m \in Completes(j) : \A n \in Completes(j) : n <= m
    /\ \A i \in DOMAIN j : j[i].epoch <= EpochOf(j)

\* Nothing follows a complete record under its own key.
Sealed(j) ==
    \A i \in Completes(j), n \in DOMAIN j : i < n => j[n].key # j[i].key

\* Callers' keys everywhere, except that a restart completes under a key of
\* its own, which names the epoch it left behind.
KeyOK(r) ==
    \/ r.key \in Keys
    \/ r.status = "complete" /\ r.key[1] = "restart" /\ r.epoch = r.key[3] + 1

\* No complete record has key k, and an open prepare could only be k's.
Fresh(j, k)  == \A i \in Completes(j) : j[i].key # k
Fenced(j, k) == \A i \in Pending(j) : j[i].key = k

\* Record r may be appended to journal j.
Fits(j, r) ==
    /\ r.epoch = EpochOf(j) + (IF r.status = "complete" THEN 1 ELSE 0)
    /\ Fresh(j, r.key) /\ Fenced(j, r.key) /\ KeyOK(r)

\* The records a restart exposes together.
FitsPair(j, r, c) ==
    /\ Fits(j, r) /\ r.status = "failed"
    /\ c.epoch = EpochOf(j) + 1 /\ c.status = "complete"
    /\ Fresh(j, c.key) /\ c.key # r.key /\ KeyOK(c)

\* What the holder of the flock knows at each of its steps.
WriterOK(p) ==
    /\ pc[p] = "manifest" => Len(pub[p]) \in {1, 2}
    /\ pc[p] = "append" => Len(pub[p]) = 1
    /\ pc[p] = "replace" => Len(pub[p]) = 2
    /\ pc[p] \in {"manifest", "append", "replace"} =>
          /\ tail # "broken"
          /\ Len(pub[p]) = 1 => Fits(journal, pub[p][1])
          /\ Len(pub[p]) = 2 => FitsPair(journal, pub[p][1], pub[p][2])
    /\ pc[p] \in {"append", "replace"} =>
          (pub[p][Len(pub[p])].status = "complete" => Authentic(pub[p][Len(pub[p])]))
    /\ pc[p] = "pointer" =>
          /\ Len(pub[p]) \in {1, 2}
          /\ tail # "broken" =>
                /\ Len(journal) > 0
                /\ journal[Len(journal)] = pub[p][Len(pub[p])]
                /\ journal[Len(journal)].status = "complete"

\* A journal the writers keep: what every append preserves.
Good(j) ==
    /\ Ordered(j) /\ Sealed(j)
    /\ \A i \in DOMAIN j : KeyOK(j[i])
    /\ Pending(j) \subseteq {Len(j)}

IInv ==
    /\ TypeOK /\ Good(journal) /\ ManifestBacked /\ PointerBacked
    /\ \A p \in Procs : WriterOK(p) /\ (tx[p] # None => tx[p].key \in Keys)

-----------------------------------------------------------------------------
(* Lemmas about journals. *)

\* The owners of any key are owners.
LEMMA KeyScope == \A k \in AllKeys : Scope(k) \in SUBSET Owners
  <1>1. SUFFICES ASSUME NEW k \in AllKeys PROVE Scope(k) \in SUBSET Owners
    OBVIOUS
  <1>2. CASE k[1] = "call"
    <2>1. k \in Keys
      BY <1>2 DEF AllKeys, RestartKeys
    <2> QED BY <2>1, <1>2, ConstantsAssumption DEF Scope
  <1>3. CASE k[1] # "call"
    BY <1>3, ConstantsAssumption DEF Scope
  <1> QED BY <1>2, <1>3

\* The fields of a record.
LEMMA RecordFields ==
    \A r \in Record : /\ r.id \in Nat /\ r.epoch \in Nat /\ r.key \in AllKeys
                       /\ r.status \in {"complete", "partial", "failed"}
                       /\ r.heads \in Heads /\ r.digest \in Digest
  BY DEF Record

\* The epoch of an ordered journal is that of its last complete record.
LEMMA EpochFacts ==
    ASSUME NEW j \in Seq(Record), Ordered(j)
    PROVE  /\ EpochOf(j) \in Nat
           /\ Completes(j) # {} => /\ Newest(j) \in Completes(j)
                                  /\ \A n \in Completes(j) : n <= Newest(j)
           /\ Completes(j) = {} => EpochOf(j) = 0
           /\ Completes(j) # {} => EpochOf(j) = j[Newest(j)].epoch
  <1>1. \A i \in DOMAIN j : j[i] \in Record /\ j[i].epoch \in Nat /\ j[i].id \in Nat
    BY RecordFields
  <1>2. CASE Completes(j) = {}
    BY <1>2 DEF EpochOf
  <1>3. CASE Completes(j) # {}
    <2>1. PICK m \in Completes(j) : \A n \in Completes(j) : n <= m
      BY <1>3 DEF Ordered
    <2>2. \A n \in Completes(j) : n = m \/ n < m
      BY <2>1 DEF Completes
    <2>3. \A n \in Completes(j) : n # m => j[n].epoch < j[m].epoch
      BY <2>2 DEF Ordered, Completes
    <2>4. \A n \in Completes(j) : NotAfter(j[n], j[m])
      BY <2>1, <2>3, <1>1 DEF Completes, NotAfter
    <2>5. /\ Newest(j) \in Completes(j)
          /\ \A n \in Completes(j) : NotAfter(j[n], j[Newest(j)])
      BY <2>1, <2>4 DEF Newest
    <2>6. Newest(j) = m
      BY <2>1, <2>3, <2>5, <1>1 DEF Completes, NotAfter
    <2> QED BY <2>1, <2>6, <1>1, <1>3 DEF EpochOf, Completes
  <1> QED BY <1>2, <1>3

\* What Append does to the indices the gate is computed from.
LEMMA AppendFacts ==
    ASSUME NEW j \in Seq(Record), NEW r \in Record
    PROVE  /\ Append(j, r) \in Seq(Record)
           /\ Len(Append(j, r)) = Len(j) + 1
           /\ DOMAIN Append(j, r) = DOMAIN j \cup {Len(j) + 1}
           /\ DOMAIN j = 1 .. Len(j) /\ Len(j) \in Nat
           /\ \A i \in DOMAIN j : Append(j, r)[i] = j[i]
           /\ Append(j, r)[Len(j) + 1] = r
           /\ Completes(Append(j, r)) =
                 Completes(j) \cup (IF r.status = "complete" THEN {Len(j) + 1} ELSE {})
  <1>1. /\ Append(j, r) \in Seq(Record)
        /\ Len(Append(j, r)) = Len(j) + 1
        /\ DOMAIN Append(j, r) = DOMAIN j \cup {Len(j) + 1}
        /\ DOMAIN j = 1 .. Len(j) /\ Len(j) \in Nat
        /\ \A i \in DOMAIN j : Append(j, r)[i] = j[i]
        /\ Append(j, r)[Len(j) + 1] = r
    OBVIOUS
  <1>2. Len(j) + 1 \notin DOMAIN j
    BY <1>1
  <1> QED BY <1>1, <1>2 DEF Completes

\* An append that fits raises the epoch exactly when it completes.
LEMMA AppendOrdered ==
    ASSUME NEW j \in Seq(Record), NEW r \in Record, Ordered(j),
           r.epoch = EpochOf(j) + (IF r.status = "complete" THEN 1 ELSE 0)
    PROVE  Ordered(Append(j, r)) /\ EpochOf(Append(j, r)) = r.epoch
  <1> DEFINE k == Append(j, r)
             L == Len(j) + 1
  <1>1. /\ k \in Seq(Record) /\ DOMAIN k = DOMAIN j \cup {L} /\ L \in Nat
        /\ \A i \in DOMAIN j : i < L /\ i \in Nat /\ k[i] = j[i] /\ k[i].epoch \in Nat
        /\ k[L] = r /\ r.epoch \in Nat
        /\ Completes(k) = Completes(j) \cup (IF r.status = "complete" THEN {L} ELSE {})
    BY AppendFacts, RecordFields
  <1>2. EpochOf(j) \in Nat
    BY EpochFacts
  <1> HIDE DEF k, L
  <1>3. \A i \in DOMAIN j : /\ j[i].epoch <= r.epoch
                            /\ r.status = "complete" => j[i].epoch < r.epoch
    BY <1>1, <1>2 DEF Ordered
  <1>4. \A i, n \in DOMAIN k : i < n =>
          /\ k[i].epoch <= k[n].epoch
          /\ k[n].status = "complete" => k[i].epoch < k[n].epoch
    <2>1. SUFFICES ASSUME NEW i \in DOMAIN k, NEW n \in DOMAIN k, i < n
                   PROVE  /\ k[i].epoch <= k[n].epoch
                          /\ k[n].status = "complete" => k[i].epoch < k[n].epoch
      OBVIOUS
    <2>2. i \in DOMAIN j
      BY <1>1, <2>1
    <2>3. CASE n = L
      BY <2>2, <2>3, <1>1, <1>3
    <2>4. CASE n \in DOMAIN j
      BY <2>1, <2>2, <2>4, <1>1 DEF Ordered
    <2> QED BY <1>1, <2>3, <2>4
  <1>5. Completes(k) # {} => \E m \in Completes(k) : \A n \in Completes(k) : n <= m
    <2>1. CASE r.status = "complete"
      <3>1. L \in Completes(k) /\ \A n \in Completes(k) : n <= L
        BY <2>1, <1>1 DEF Completes
      <3> QED BY <3>1
    <2>2. CASE r.status # "complete"
      BY <2>2, <1>1 DEF Ordered
    <2> QED BY <2>1, <2>2
  <1>6. EpochOf(k) = r.epoch
    <2>1. CASE r.status = "complete"
      <3>1. L \in Completes(k) /\ \A n \in Completes(k) : n # L => k[n].epoch < k[L].epoch
        BY <2>1, <1>1, <1>3 DEF Completes
      <3>2. k[L].epoch \in Nat /\ k[L].id \in Nat /\ \A n \in Completes(k) : k[n].epoch \in Nat
        BY <1>1, RecordFields DEF Completes
      <3>3. \A n \in Completes(k) : NotAfter(k[n], k[L])
        BY <3>1, <3>2 DEF NotAfter
      <3>4. /\ Newest(k) \in Completes(k)
            /\ \A n \in Completes(k) : NotAfter(k[n], k[Newest(k)])
        BY <3>1, <3>3 DEF Newest
      <3>5. Newest(k) = L
        BY <3>1, <3>2, <3>4 DEF NotAfter
      <3> QED BY <3>1, <3>5, <1>1 DEF EpochOf
    <2>2. CASE r.status # "complete"
      <3>1. Completes(k) = Completes(j) /\ \A i \in Completes(j) : k[i] = j[i]
        BY <2>2, <1>1 DEF Completes
      <3>2. Newest(k) = Newest(j)
        BY <3>1 DEF Newest
      <3>3. Completes(j) # {} => Newest(j) \in Completes(j)
        BY EpochFacts
      <3>4. r.epoch = EpochOf(j)
        BY <2>2, <1>2
      <3> QED BY <3>1, <3>2, <3>3, <3>4 DEF EpochOf
    <2> QED BY <2>1, <2>2
  <1>7. \A i \in DOMAIN k : k[i].epoch <= EpochOf(k)
    BY <1>1, <1>3, <1>6
  <1> QED BY <1>4, <1>5, <1>6, <1>7 DEF Ordered, k

\* An append that fits leaves at most the new record pending.
LEMMA AppendPending ==
    ASSUME NEW j \in Seq(Record), NEW r \in Record, Fenced(j, r.key)
    PROVE  Pending(Append(j, r)) = IF r.status = "partial" THEN {Len(j) + 1} ELSE {}
  <1> DEFINE k == Append(j, r)
             L == Len(j) + 1
  <1>1. /\ DOMAIN k = DOMAIN j \cup {L} /\ L \in Nat
        /\ \A i \in DOMAIN j : i < L /\ i \in Nat /\ k[i] = j[i]
        /\ k[L] = r
    BY AppendFacts
  <1> HIDE DEF k, L
  <1>2. \A i \in DOMAIN j : i \notin Pending(k)
    <2>1. SUFFICES ASSUME NEW i \in DOMAIN j, i \in Pending(k) PROVE FALSE
      OBVIOUS
    <2>2. i \in Pending(j)
      BY <1>1, <2>1 DEF Pending
    <2>3. k[i].key = k[L].key
      BY <1>1, <2>1, <2>2 DEF Fenced
    <2> QED BY <1>1, <2>1, <2>3 DEF Pending
  <1>3. L \in Pending(k) <=> r.status = "partial"
    BY <1>1 DEF Pending
  <1>4. Pending(k) \subseteq DOMAIN j \cup {L}
    BY <1>1 DEF Pending
  <1> QED BY <1>2, <1>3, <1>4 DEF k, L

\* An append that fits keeps the journal good.
LEMMA AppendGood ==
    ASSUME NEW j \in Seq(Record), NEW r \in Record, Good(j), Fits(j, r)
    PROVE  Good(Append(j, r)) /\ EpochOf(Append(j, r)) = r.epoch
  <1> DEFINE k == Append(j, r)
             L == Len(j) + 1
  <1>1. /\ DOMAIN k = DOMAIN j \cup {L} /\ L \in Nat /\ Len(k) = L
        /\ \A i \in DOMAIN j : i < L /\ i \in Nat /\ k[i] = j[i]
        /\ k[L] = r
        /\ Completes(k) = Completes(j) \cup (IF r.status = "complete" THEN {L} ELSE {})
    BY AppendFacts
  <1>2. Ordered(k) /\ EpochOf(k) = r.epoch
    BY AppendOrdered DEF Good, Fits
  <1>3. Pending(k) \subseteq {Len(k)}
    BY AppendPending, <1>1 DEF Fits
  <1> HIDE DEF k, L
  <1>4. Sealed(k)
    <2>1. SUFFICES ASSUME NEW i \in Completes(k), NEW n \in DOMAIN k, i < n
                   PROVE  k[n].key # k[i].key
      BY DEF Sealed
    <2>2. i \in Completes(j) /\ i \in DOMAIN j
      BY <1>1, <2>1 DEF Completes
    <2>3. CASE n = L
      BY <1>1, <2>2, <2>3 DEF Fits, Fresh
    <2>4. CASE n \in DOMAIN j
      BY <1>1, <2>1, <2>2, <2>4 DEF Good, Sealed
    <2> QED BY <1>1, <2>3, <2>4
  <1>5. \A i \in DOMAIN k : KeyOK(k[i])
    BY <1>1 DEF Good, Fits
  <1> QED BY <1>2, <1>3, <1>4, <1>5 DEF Good, k

\* A restart's two records, exposed by one replacement, are two appends.
LEMMA PairGood ==
    ASSUME NEW j \in Seq(Record), NEW s \in Seq(Record), Len(s) = 2,
           Good(j), FitsPair(j, s[1], s[2])
    PROVE  /\ j \o s = Append(Append(j, s[1]), s[2])
           /\ Good(j \o s)
           /\ Completes(j \o s) = Completes(j) \cup {Len(j) + 2}
           /\ \A i \in DOMAIN j : (j \o s)[i] = j[i]
           /\ Len(j \o s) = Len(j) + 2 /\ (j \o s)[Len(j) + 2] = s[2]
  <1> DEFINE k == Append(j, s[1])
             l == Append(k, s[2])
  <1>1. s[1] \in Record /\ s[2] \in Record
    <2>1. 1 \in 1 .. Len(s) /\ 2 \in 1 .. Len(s)
      OBVIOUS
    <2> QED BY <2>1, ElementOfSeq
  <1>2. j \o s = l
    <2>1. /\ j \o s \in Seq(Record) /\ Len(j \o s) = Len(j) + 2 /\ Len(j) \in Nat
          /\ \A i \in 1 .. Len(j) + 2 :
                (j \o s)[i] = IF i <= Len(j) THEN j[i] ELSE s[i - Len(j)]
      <3>1. /\ j \o s \in Seq(Record)
            /\ Len(j \o s) = Len(j) + Len(s)
            /\ \A i \in 1 .. Len(j) + Len(s) :
                  (j \o s)[i] = IF i <= Len(j) THEN j[i] ELSE s[i - Len(j)]
        BY ConcatProperties, Zenon
      <3>2. Len(j) \in Nat
        OBVIOUS
      <3> QED BY <3>1, <3>2
    <2>2. /\ l \in Seq(Record) /\ Len(l) = Len(j) + 2
          /\ \A i \in 1 .. Len(j) : l[i] = j[i]
          /\ l[Len(j) + 1] = s[1] /\ l[Len(j) + 2] = s[2]
      BY <1>1
    <2>3. \A i \in 1 .. Len(j) + 2 : (j \o s)[i] = l[i]
      BY <2>1, <2>2
    <2> QED BY <2>1, <2>2, <2>3, SeqEqual
  <1>3. /\ k \in Seq(Record) /\ DOMAIN k = DOMAIN j \cup {Len(j) + 1}
        /\ \A i \in DOMAIN j : k[i] = j[i]
        /\ Completes(k) = Completes(j) /\ Len(k) = Len(j) + 1
        /\ \A i \in Completes(j) : i \in DOMAIN j
    BY <1>1, AppendFacts DEF FitsPair, Completes
  <1>4. Good(k) /\ EpochOf(k) = s[1].epoch /\ EpochOf(j) \in Nat
    BY <1>1, AppendGood, EpochFacts DEF FitsPair, Good
  <1>5. s[1].epoch = EpochOf(j) /\ s[1].status = "failed"
    BY <1>4 DEF FitsPair, Fits
  <1>6. Pending(k) = {}
    BY <1>1, <1>5, AppendPending DEF FitsPair, Fits
  <1> HIDE DEF k
  <1>7. Fits(k, s[2])
    BY <1>3, <1>4, <1>5, <1>6 DEF FitsPair, Fits, Fresh, Fenced
  <1>8. Good(l)
    BY <1>1, <1>3, <1>4, <1>7, AppendGood
  <1>9. /\ Completes(l) = Completes(k) \cup {Len(k) + 1}
        /\ \A i \in DOMAIN k : l[i] = k[i]
        /\ Len(l) = Len(k) + 1 /\ l[Len(k) + 1] = s[2]
    BY <1>1, <1>3, AppendFacts DEF FitsPair
  <1>10. Len(j) \in Nat /\ Len(k) + 1 = Len(j) + 2
    BY <1>3
  <1> QED BY <1>2, <1>3, <1>8, <1>9, <1>10 DEF k

-----------------------------------------------------------------------------
(* Steps. *)

Writing == {"manifest", "append", "replace", "pointer"}

\* An empty state directory satisfies the invariant.
LEMMA InitIInv == ASSUME Init PROVE IInv
  <1> USE ConstantsAssumption
  <1>1. TypeOK
    BY DEF Init, TypeOK, Revision
  <1>2. DOMAIN journal = {} /\ Len(journal) = 0 /\ Completes(journal) = {} /\ Pending(journal) = {}
    BY DEF Init, Completes, Pending
  <1>3. Good(journal)
    BY <1>2 DEF Good, Ordered, Sealed
  <1>4. ManifestBacked /\ PointerBacked
    BY <1>2 DEF Init, ManifestBacked, PointerBacked, PointerFits
  <1>5. \A p \in Procs : WriterOK(p) /\ (tx[p] # None => tx[p].key \in Keys)
    BY DEF Init, WriterOK
  <1> QED BY <1>1, <1>3, <1>4, <1>5 DEF IInv

\* A step that leaves the files alone and moves no process into a write step.
LEMMA FrameStep ==
    ASSUME IInv, TypeOK', UNCHANGED files,
           \A q \in Procs : (pc'[q] = pc[q] /\ pub'[q] = pub[q]) \/ pc'[q] \notin Writing,
           \A q \in Procs : tx'[q] # None => tx'[q].key \in Keys
    PROVE  IInv'
  <1>1. Good(journal)' /\ ManifestBacked' /\ PointerBacked'
    BY DEF IInv, files, ManifestBacked, PointerBacked, Authentic
  <1>2. \A q \in Procs : WriterOK(q)'
    <2>1. SUFFICES ASSUME NEW q \in Procs PROVE WriterOK(q)'
      OBVIOUS
    <2>2. CASE pc'[q] \notin Writing
      BY <2>2 DEF WriterOK, Writing
    <2>3. CASE pc'[q] = pc[q] /\ pub'[q] = pub[q]
      BY <2>3 DEF IInv, WriterOK, files, Authentic
    <2> QED BY <2>2, <2>3
  <1> QED BY <1>1, <1>2 DEF IInv

\* A step that takes the flock with records that fit.
LEMMA ExposeStep ==
    ASSUME IInv, TypeOK', UNCHANGED files, NEW p \in Procs, NEW records, NEW step,
           Readable, lock = None, Expose(p, records, step), step \in {"manifest", "append"},
           step = "append" => Len(records) = 1,
           Len(records) = 1 => Fits(journal, records[1]),
           Len(records) = 2 => FitsPair(journal, records[1], records[2]),
           Len(records) \in {1, 2},
           step = "append" => (records[1].status = "complete" => Authentic(records[1])),
           \A q \in Procs : tx'[q] # None => tx'[q].key \in Keys
    PROVE  IInv'
  <1>1. Good(journal)' /\ ManifestBacked' /\ PointerBacked'
    BY DEF IInv, files, ManifestBacked, PointerBacked, Authentic
  <1>2. pc'[p] = step /\ pub'[p] = records /\ tail # "broken"
    BY DEF IInv, TypeOK, Expose, Readable
  <1>3. \A q \in Procs : q # p => pc'[q] = pc[q] /\ pc[q] \notin Writing
    BY ConstantsAssumption DEF IInv, TypeOK, Expose, Writing
  <1>4. \A q \in Procs : WriterOK(q)'
    <2>1. WriterOK(p)'
      BY <1>2 DEF WriterOK, files, Authentic
    <2>2. ASSUME NEW q \in Procs, q # p PROVE WriterOK(q)'
      BY <1>3, <2>2 DEF WriterOK, Writing
    <2> QED BY <2>1, <2>2
  <1> QED BY <1>1, <1>4 DEF IInv

\* Heads are heads.
LEMMA HeadsType ==
    /\ NoHeads \in Heads
    /\ \A h \in [Owners -> Revision], S \in SUBSET Owners : HeadsOf(h, S) \in Heads
  BY DEF NoHeads, Heads, HeadsOf

\* The revision a prepared baseline names.
LEMMA HeadsRevision == \A h \in Heads : \A o \in DOMAIN h : h[o] \in Revision
  BY DEF Heads

\* The steps that leave files and flock alone, or give the flock back with
\* nothing written.
LEMMA QuietSteps ==
    ASSUME IInv, NEW p \in Procs,
           \/ StartSession(p) \/ EndSession(p) \/ Crash(p) \/ Observe(p)
           \/ CaptureHeads(p) \/ (\E o \in Owners : OwnerWrite(p, o))
           \/ OwnerRevert(p) \/ DirectIndex(p)
           \/ ManifestFails(p) \/ ReplaceRefused(p) \/ PointerFails(p)
    PROVE  IInv'
  <1> USE ConstantsAssumption DEF files, world, locks, local, count
  <1>0. TypeOK /\ \A q \in Procs : tx[q] # None => tx[q].key \in Keys
    BY DEF IInv
  <1>1. CASE StartSession(p)
    <2>1. TypeOK'
      BY <1>0, <1>1 DEF TypeOK, StartSession
    <2> QED BY <1>0, <1>1, <2>1, FrameStep DEF StartSession, TypeOK, Writing
  <1>2. CASE EndSession(p)
    <2>1. TypeOK'
      BY <1>0, <1>2 DEF TypeOK, EndSession
    <2> QED BY <1>0, <1>2, <2>1, FrameStep DEF EndSession, TypeOK, Writing
  <1>3. CASE Crash(p)
    <2>1. TypeOK'
      BY <1>0, <1>3 DEF TypeOK, Crash
    <2> QED BY <1>0, <1>3, <2>1, FrameStep DEF Crash, TypeOK, Writing
  <1>4. CASE ObserveFences(p)
    <2>1. TypeOK'
      BY <1>0, <1>4 DEF TypeOK, ObserveFences
    <2> QED BY <1>0, <1>4, <2>1, FrameStep DEF ObserveFences, TypeOK, Writing
  <1>5. CASE ObservePointer(p)
    <2>1. TypeOK'
      BY <1>0, <1>5 DEF TypeOK, ObservePointer
    <2> QED BY <1>0, <1>5, <2>1, FrameStep DEF ObservePointer, TypeOK, Writing
  <1>6. CASE ObserveJournal(p)
    <2>1. TypeOK'
      BY <1>0, <1>6 DEF TypeOK, ObserveJournal
    <2> QED BY <1>0, <1>6, <2>1, FrameStep DEF ObserveJournal, TypeOK, Writing
  <1>7. CASE ObserveEnd(p)
    <2>1. TypeOK'
      BY <1>0, <1>7 DEF TypeOK, ObserveEnd
    <2> QED BY <1>0, <1>7, <2>1, FrameStep DEF ObserveEnd, TypeOK, Writing
  <1>8. CASE CaptureHeads(p)
    <2>1. TypeOK'
      BY <1>0, <1>8 DEF TypeOK, CaptureHeads
    <2> QED BY <1>0, <1>8, <2>1, FrameStep DEF CaptureHeads, TypeOK, Writing
  <1>9. ASSUME NEW o \in Owners, OwnerWrite(p, o) PROVE IInv'
    <2>1. owner' \in [Owners -> Revision]
      BY <1>0, <1>9 DEF TypeOK, OwnerWrite, Revision
    <2>2. TypeOK'
      BY <1>0, <1>9, <2>1 DEF TypeOK, OwnerWrite
    <2> QED BY <1>0, <1>9, <2>2, FrameStep DEF OwnerWrite, TypeOK
  <1>10. CASE OwnerRevert(p)
    <2>1. owner' \in [Owners -> Revision]
      BY <1>0, <1>10, HeadsRevision, RecordFields DEF TypeOK, OwnerRevert, Revision
    <2>2. TypeOK'
      BY <1>0, <1>10, <2>1 DEF TypeOK, OwnerRevert
    <2> QED BY <1>0, <1>10, <2>2, FrameStep DEF OwnerRevert, TypeOK
  <1>11. CASE DirectIndex(p)
    <2>1. owner' \in [Owners -> Revision]
      BY <1>0, <1>11 DEF TypeOK, DirectIndex, Revision
    <2>2. TypeOK'
      BY <1>0, <1>11, <2>1 DEF TypeOK, DirectIndex
    <2> QED BY <1>0, <1>11, <2>2, FrameStep DEF DirectIndex, TypeOK
  <1>12. CASE ManifestFails(p)
    <2>1. TypeOK'
      BY <1>0, <1>12 DEF TypeOK, ManifestFails, Fault, Unlock
    <2> QED BY <1>0, <1>12, <2>1, FrameStep DEF ManifestFails, Fault, Unlock, TypeOK, Writing
  <1>13. CASE ReplaceRefused(p)
    <2>1. TypeOK'
      BY <1>0, <1>13 DEF TypeOK, ReplaceRefused, Unlock
    <2> QED BY <1>0, <1>13, <2>1, FrameStep DEF ReplaceRefused, Unlock, TypeOK, Writing
  <1>14. CASE PointerFails(p)
    <2>1. TypeOK'
      BY <1>0, <1>14 DEF TypeOK, PointerFails, Fault, Unlock
    <2> QED BY <1>0, <1>14, <2>1, FrameStep DEF PointerFails, Fault, Unlock, TypeOK, Writing
  <1> QED BY <1>1, <1>2, <1>3, <1>4, <1>5, <1>6, <1>7, <1>8, <1>9, <1>10, <1>11, <1>12, <1>13, <1>14 DEF Observe

\* A record built for the current journal is a record.
LEMMA NewRecordType ==
    ASSUME TypeOK, Good(journal), NEW k \in AllKeys, NEW heads \in Heads, NEW digest \in Digest,
           NEW status \in {"complete", "partial", "failed"}
    PROVE  NewRecord(k, status, heads, digest) \in Record
  <1>1. EpochOf(journal) \in Nat
    BY EpochFacts DEF TypeOK, Good
  <1> QED BY <1>1 DEF NewRecord, Record, TypeOK

\* Taking the flock keeps the types.
LEMMA ExposeType ==
    ASSUME TypeOK, NEW p \in Procs, NEW records \in Seq(Record), NEW step \in {"manifest", "append"},
           lock = None, Expose(p, records, step), Forget(p),
           tx' \in [Procs -> Record \cup {None}],
           UNCHANGED <<files, world, runLock, obs, faults, crashes>>
    PROVE  TypeOK'
  <1> USE ConstantsAssumption DEF Expose, Forget, files, world
  <1>1. pc' \in [Procs -> {"idle", "fenced", "pointed", "read",
                           "manifest", "append", "replace", "pointer"}]
    BY DEF TypeOK
  <1>2. \A q \in Procs : pc'[q] \in {"manifest", "append", "replace", "pointer"} <=> lock' = q
    BY DEF TypeOK
  <1>3. clock' \in Nat
    BY DEF TypeOK
  <1>4. pub' \in [Procs -> Seq(Record)] /\ saw' \in [Procs -> [Owners -> Revision] \cup {None}]
    BY DEF TypeOK
  <1> QED BY <1>1, <1>2, <1>3, <1>4 DEF TypeOK

\* A key with no complete latest record has no complete record at all.
LEMMA FreshKey ==
    ASSUME Good(journal), journal \in Seq(Record), NEW k,
           \A prior \in LatestOf(journal, k) : prior.status # "complete"
    PROVE  Fresh(journal, k)
  <1>1. SUFFICES ASSUME NEW i \in Completes(journal), journal[i].key = k PROVE FALSE
    BY DEF Fresh
  <1>2. i \in DOMAIN journal /\ \A m \in DOMAIN journal : m > i => journal[m].key # k
    BY <1>1 DEF Good, Sealed, Completes
  <1>3. journal[i] \in LatestOf(journal, k)
    BY <1>1, <1>2 DEF LatestOf
  <1> QED BY <1>1, <1>3 DEF Completes

\* record_state_publication, whatever its arguments.
LEMMA RecordStep ==
    ASSUME IInv, NEW p \in Procs, NEW k \in Keys, NEW heads \in Heads, NEW digest \in Digest,
           NEW status \in {"complete", "partial", "failed"},
           Enter(p), RecordPublication(p, k, status, heads, digest)
    PROVE  IInv'
  <1>0. TypeOK /\ Good(journal) /\ journal \in Seq(Record) /\ lock = None /\ Readable
        /\ \A q \in Procs : tx[q] # None => tx[q].key \in Keys
    BY DEF IInv, TypeOK, Enter
  <1>1. CASE Replayed(k, status, heads) # {}
    <2>1. PICK prior \in Replayed(k, status, heads) :
             tx' = [tx EXCEPT ![p] = IF prior.status = "partial" THEN prior ELSE None]
      BY <1>1 DEF RecordPublication
    <2>2. prior \in Record /\ prior.key \in Keys
      BY <1>0, <2>1 DEF Replayed, LatestOf
    <2>3. UNCHANGED <<files, world, locks, pc, obs, pub, count>> /\ Forget(p)
      BY <1>1 DEF RecordPublication, locks, count, world, files
    <2>4. TypeOK'
      BY <1>0, <2>1, <2>2, <2>3 DEF TypeOK, Forget, files, world, locks, count
    <2>5. \A q \in Procs : tx'[q] # None => tx'[q].key \in Keys
      BY <1>0, <2>1, <2>2 DEF TypeOK
    <2> QED BY <2>3, <2>4, <2>5, FrameStep
  <1>2. CASE Replayed(k, status, heads) = {}
    <2> DEFINE r == NewRecord(k, status, heads, digest)
               step == IF status = "complete" /\ heads # NoHeads THEN "manifest" ELSE "append"
    <2>1. /\ Expose(p, <<r>>, step) /\ Forget(p)
          /\ UNCHANGED <<files, world, runLock, obs, faults, crashes>> /\ tx' = tx
          /\ Admissible(k, status, heads, digest)
      BY <1>2 DEF RecordPublication
    <2>2. r \in Record
      BY <1>0, NewRecordType DEF AllKeys
    <2>3. r.key = k /\ r.status = status /\ r.heads = heads
          /\ r.epoch = EpochOf(journal) + (IF status = "complete" THEN 1 ELSE 0)
      BY DEF NewRecord
    <2> HIDE DEF r
    <2>4. Fresh(journal, k)
      BY <1>0, <1>2, FreshKey DEF Replayed
    <2>5. Fits(journal, r)
      BY <2>1, <2>3, <2>4 DEF Fits, Admissible, Fenced, KeyOK
    <2>6. <<r>> \in Seq(Record) /\ Len(<<r>>) = 1 /\ <<r>>[1] = r
      BY <2>2
    <2>7. TypeOK'
      BY <1>0, <2>1, <2>6, ExposeType DEF TypeOK
    <2>8. step = "append" => (r.status = "complete" => Authentic(r))
      BY <2>3 DEF Authentic
    <2> HIDE DEF step
    <2>9. step \in {"manifest", "append"}
      BY DEF step
    <2> QED BY <1>0, <2>1, <2>5, <2>6, <2>7, <2>8, <2>9, ExposeStep DEF files
  <1> QED BY <1>1, <1>2

\* The calls that go through record_state_publication.
LEMMA RecordCalls ==
    ASSUME IInv, NEW p \in Procs,
           \/ \E k \in Keys, bound \in BOOLEAN, digest \in Digests : Prepare(p, k, bound, digest)
           \/ CommitBound(p) \/ CommitUnbound(p)
           \/ \E k \in Keys, digest \in Digests : RecordFailed(p, k, digest)
    PROVE  IInv'
  <1>0. TypeOK /\ (tx[p] # None => tx[p].key \in Keys)
    BY DEF IInv
  <1>1. \A k \in Keys : saw[p] # None => HeadsOf(saw[p], Scope(k)) \in Heads
    BY <1>0, KeyScope, HeadsType DEF TypeOK, AllKeys
  <1>2. ASSUME NEW k \in Keys, NEW bound \in BOOLEAN, NEW digest \in Digests,
               Prepare(p, k, bound, digest)
        PROVE  IInv'
    <2>1. (IF bound THEN HeadsOf(saw[p], Scope(k)) ELSE NoHeads) \in Heads
      BY <1>1, <1>2, HeadsType DEF Prepare
    <2> QED BY <1>2, <2>1, RecordStep DEF Prepare, Digest
  <1>3. CASE CommitBound(p)
    <2>1. tx[p].digest \in Digest /\ tx[p].key \in Keys
      BY <1>0, <1>3, RecordFields DEF CommitBound, TypeOK
    <2>2. HeadsOf(saw[p], Scope(tx[p].key)) \in Heads
      BY <1>1, <1>3, <2>1 DEF CommitBound
    <2> QED BY <1>3, <2>1, <2>2, RecordStep DEF CommitBound
  <1>4. CASE CommitUnbound(p)
    <2>1. tx[p].digest \in Digest /\ tx[p].key \in Keys
      BY <1>0, <1>4, RecordFields DEF CommitUnbound, TypeOK
    <2> QED BY <1>4, <2>1, HeadsType, RecordStep DEF CommitUnbound
  <1>5. ASSUME NEW k \in Keys, NEW digest \in Digests, RecordFailed(p, k, digest)
        PROVE  IInv'
    BY <1>5, HeadsType, RecordStep DEF RecordFailed, Digest
  <1> QED BY <1>2, <1>3, <1>4, <1>5

\* What is known of an open prepare.
LEMMA PendingFacts ==
    ASSUME IInv, NEW i \in Pending(journal)
    PROVE  /\ journal[i] \in Record /\ journal[i].key \in Keys
           /\ Fresh(journal, journal[i].key) /\ Fenced(journal, journal[i].key)
  <1>1. i \in DOMAIN journal /\ journal[i].status = "partial" /\ journal \in Seq(Record)
    BY DEF Pending, IInv, TypeOK
  <1>2. journal[i] \in Record
    BY <1>1
  <1>3. journal[i].key \in Keys
    BY <1>1 DEF IInv, Good, KeyOK
  <1>4. i = Len(journal) /\ Pending(journal) = {i}
    BY DEF IInv, Good
  <1>5. Fresh(journal, journal[i].key)
    <2>1. SUFFICES ASSUME NEW n \in Completes(journal), journal[n].key = journal[i].key
                   PROVE  FALSE
      BY DEF Fresh
    <2>2. n \in DOMAIN journal /\ n # i
      BY <1>1, <2>1 DEF Completes
    <2>3. n < i
      BY <1>1, <1>4, <2>2
    <2> QED BY <1>1, <2>1, <2>3 DEF IInv, Good, Sealed
  <1>6. Fenced(journal, journal[i].key)
    BY <1>4 DEF Fenced
  <1> QED BY <1>2, <1>3, <1>5, <1>6

\* Every way to fail an open prepare on its own.
LEMMA ResolveStep ==
    ASSUME IInv, NEW p \in Procs, Enter(p), NEW i \in Pending(journal),
           NEW heads \in Heads, Resolve(p, i, heads)
    PROVE  IInv'
  <1> DEFINE r == NewRecord(journal[i].key, "failed", heads, journal[i].digest)
  <1>0. TypeOK /\ Good(journal) /\ lock = None /\ Readable
        /\ \A q \in Procs : tx[q] # None => tx[q].key \in Keys
    BY DEF IInv, Enter
  <1>1. /\ journal[i] \in Record /\ journal[i].key \in Keys /\ journal[i].digest \in Digest
        /\ Fresh(journal, journal[i].key) /\ Fenced(journal, journal[i].key)
    BY PendingFacts, RecordFields
  <1>2. r \in Record
    BY <1>0, <1>1, NewRecordType DEF AllKeys
  <1>3. r.key = journal[i].key /\ r.status = "failed" /\ r.epoch = EpochOf(journal) + 0
    BY DEF NewRecord
  <1>4. /\ Expose(p, <<r>>, "append") /\ Forget(p) /\ tx' = tx
        /\ UNCHANGED <<files, world, runLock, obs, faults, crashes>>
    BY DEF Resolve
  <1> HIDE DEF r
  <1>5. Fits(journal, r)
    BY <1>1, <1>3 DEF Fits, KeyOK
  <1>6. <<r>> \in Seq(Record) /\ Len(<<r>>) = 1 /\ <<r>>[1] = r
    BY <1>2
  <1>7. TypeOK'
    BY <1>0, <1>4, <1>6, ExposeType DEF TypeOK
  <1> QED BY <1>0, <1>3, <1>4, <1>5, <1>6, <1>7, ExposeStep DEF files

\* The recovery calls.
LEMMA RecoveryCalls ==
    ASSUME IInv, NEW p \in Procs,
           \/ Abort(p) \/ AbortUnbound(p) \/ ReconcileUnbound(p)
           \/ \E k \in Keys, digest \in Digests : Resume(p, k, digest)
    PROVE  IInv'
  <1>0. TypeOK /\ \A q \in Procs : tx[q] # None => tx[q].key \in Keys
    BY DEF IInv
  <1>1. \A i \in SeenPending(p) : i \in Pending(journal) /\ journal[i].heads \in Heads
    BY PendingFacts, RecordFields DEF SeenPending
  <1>2. CASE Abort(p)
    BY <1>1, <1>2, ResolveStep DEF Abort
  <1>3. CASE AbortUnbound(p)
    BY <1>1, <1>3, ResolveStep, HeadsType DEF AbortUnbound
  <1>4. CASE ReconcileUnbound(p)
    BY <1>1, <1>4, ResolveStep, HeadsType DEF ReconcileUnbound
  <1>5. ASSUME NEW k \in Keys, NEW digest \in Digests, Resume(p, k, digest)
        PROVE  IInv'
    <2>1. PICK i \in SeenPending(p) : tx' = [tx EXCEPT ![p] = journal[i]]
      BY <1>5 DEF Resume
    <2>2. journal[i] \in Record /\ journal[i].key \in Keys
      BY <1>1, <2>1, PendingFacts
    <2>3. UNCHANGED <<files, world, locks, pc, obs, pub, count>> /\ Forget(p)
      BY <1>5 DEF Resume
    <2>4. TypeOK'
      BY <1>0, <2>1, <2>2, <2>3 DEF TypeOK, Forget, files, world, locks, count
    <2>5. \A q \in Procs : tx'[q] # None => tx'[q].key \in Keys
      BY <1>0, <2>1, <2>2 DEF TypeOK
    <2> QED BY <2>3, <2>4, <2>5, FrameStep
  <1> QED BY <1>2, <1>3, <1>4, <1>5

\* restart_state_publication_checkpoint: its key is new because no epoch is
\* left twice.
LEMMA RestartStep ==
    ASSUME IInv, NEW p \in Procs, Restart(p)
    PROVE  IInv'
  <1>0. TypeOK /\ Good(journal) /\ lock = None /\ Readable /\ saw[p] # None
        /\ \A q \in Procs : tx[q] # None => tx[q].key \in Keys
    BY DEF IInv, Enter, Restart
  <1> DEFINE epoch == EpochOf(journal)
             heads == HeadsOf(saw[p], {Semantic})
             F(i) == NewRecord(journal[i].key, "failed",
                               HeadsOf(saw[p], Scope(journal[i].key)), journal[i].digest)
             K(i) == RestartKey(journal[i].id, epoch, heads)
             C(i) == [NewRecord(K(i), "complete", heads, None) EXCEPT !.id = clock + 2]
  <1>1. PICK i \in SeenPending(p) : Expose(p, <<F(i), C(i)>>, "manifest")
    BY DEF Restart
  <1>2. /\ journal[i] \in Record /\ journal[i].key \in Keys /\ journal[i].digest \in Digest
        /\ Fresh(journal, journal[i].key) /\ Fenced(journal, journal[i].key)
        /\ journal[i].id \in Nat
    BY <1>1, PendingFacts, RecordFields DEF SeenPending
  <1>3. /\ epoch \in Nat /\ saw[p] \in [Owners -> Revision] /\ None \in Digest
        /\ clock + 2 \in Nat
    BY <1>0, EpochFacts DEF TypeOK, Good, Digest
  <1>4. heads \in Heads /\ HeadsOf(saw[p], Scope(journal[i].key)) \in Heads
    BY <1>2, <1>3, HeadsType, KeyScope, ConstantsAssumption DEF AllKeys
  <1>5. F(i) \in Record
    BY <1>0, <1>2, <1>4, NewRecordType DEF AllKeys
  <1> HIDE DEF heads
  <1>6. K(i) \in AllKeys /\ K(i)[1] = "restart" /\ K(i)[3] = epoch
    BY <1>2, <1>3, <1>4 DEF RestartKey, RestartKeys, AllKeys
  <1>7. NewRecord(K(i), "complete", heads, None) \in Record
    <2> HIDE DEF K
    <2> QED BY <1>0, <1>3, <1>4, <1>6, NewRecordType
  <1>8. C(i) \in Record /\ C(i).key = K(i) /\ C(i).status = "complete" /\ C(i).epoch = epoch + 1
    <2>1. C(i) \in Record
      <3> HIDE DEF K
      <3> QED BY <1>3, <1>7 DEF Record
    <2> QED BY <2>1 DEF NewRecord
  <1>9. F(i).key = journal[i].key /\ F(i).status = "failed" /\ F(i).epoch = epoch + 0
    BY DEF NewRecord
  <1>10. UNCHANGED <<files, world, runLock, obs, faults, crashes>> /\ Forget(p)
         /\ tx' = [tx EXCEPT ![p] = None]
    BY DEF Restart
  <1> HIDE DEF F, C, K
  <1>11. Fresh(journal, K(i))
    <2>1. SUFFICES ASSUME NEW n \in Completes(journal), journal[n].key = K(i) PROVE FALSE
      BY DEF Fresh
    <2>2. n \in DOMAIN journal /\ journal[n] \in Record /\ journal[n].epoch \in Nat
      BY <1>0, RecordFields DEF Completes, TypeOK
    <2>3. journal[n].key \notin Keys
      BY <2>1, <1>6, ConstantsAssumption
    <2>4. journal[n].epoch = epoch + 1
      BY <1>0, <1>6, <2>1, <2>2, <2>3 DEF Good, KeyOK
    <2>5. journal[n].epoch <= epoch
      BY <1>0, <2>2 DEF Good, Ordered
    <2> QED BY <1>3, <2>4, <2>5
  <1>12. K(i) # journal[i].key
    BY <1>2, <1>6, ConstantsAssumption
  <1>13. FitsPair(journal, F(i), C(i))
    <2>1. Fits(journal, F(i))
      BY <1>2, <1>9 DEF Fits, KeyOK
    <2>2. KeyOK(C(i))
      BY <1>6, <1>8 DEF KeyOK
    <2> QED BY <2>1, <2>2, <1>8, <1>9, <1>11, <1>12 DEF FitsPair
  <1> DEFINE records == <<F(i), C(i)>>
  <1>14. /\ records \in Seq(Record) /\ Len(records) = 2
         /\ records[1] = F(i) /\ records[2] = C(i)
    BY <1>5, <1>8
  <1>15. Expose(p, records, "manifest")
    BY <1>1
  <1> HIDE DEF records
  <1>16. tx' \in [Procs -> Record \cup {None}]
         /\ \A q \in Procs : tx'[q] # None => tx'[q].key \in Keys
    BY <1>0, <1>10 DEF TypeOK
  <1>17. TypeOK'
    BY <1>0, <1>10, <1>14, <1>15, <1>16, ExposeType
  <1> QED BY <1>0, <1>10, <1>13, <1>14, <1>15, <1>16, <1>17, ExposeStep DEF files

\* _write_content_manifest.
LEMMA ManifestStep ==
    ASSUME IInv, NEW p \in Procs, WriteManifest(p)
    PROVE  IInv'
  <1> USE DEF WriteManifest, Last, world, locks, count
  <1>0. TypeOK /\ Len(pub[p]) \in {1, 2} /\ lock = p
    BY DEF IInv, WriterOK, TypeOK
  <1>1. pub[p][Len(pub[p])] \in Record
    <2>1. pub[p] \in Seq(Record)
      BY <1>0 DEF TypeOK
    <2>2. Len(pub[p]) \in 1 .. Len(pub[p])
      BY <1>0
    <2> QED BY <2>1, <2>2, ElementOfSeq
  <1>2. TypeOK'
    BY <1>0, <1>1 DEF TypeOK
  <1>3. Good(journal)' /\ PointerBacked' /\ ManifestBacked'
    BY DEF IInv, PointerBacked, ManifestBacked, Authentic
  <1>4. \A q \in Procs : q # p => pc'[q] = pc[q] /\ pc[q] \notin Writing
    BY <1>0 DEF TypeOK, Writing
  <1>5. \A q \in Procs : WriterOK(q)'
    <2>1. pub[p][Len(pub[p])] \in manifests' /\ pub' = pub
      OBVIOUS
    <2>2. pc'[p] = IF Len(pub[p]) = 1 THEN "append" ELSE "replace"
      BY <1>0 DEF TypeOK
    <2>3. WriterOK(p)
      BY DEF IInv
    <2>4. WriterOK(p)'
      BY <1>0, <2>1, <2>2, <2>3 DEF WriterOK, Authentic
    <2>5. ASSUME NEW q \in Procs, q # p PROVE WriterOK(q)'
      BY <1>4, <2>5 DEF WriterOK, Writing
    <2> QED BY <2>4, <2>5
  <1> QED BY <1>2, <1>3, <1>5 DEF IInv

\* Every complete record of an ordered journal is an acceptable pointer.
LEMMA PointerAccepted ==
    ASSUME NEW j \in Seq(Record), Ordered(j), NEW i \in Completes(j)
    PROVE  PointerFits(j[i], j)
  <1>1. Newest(j) \in Completes(j) /\ i <= Newest(j)
    BY EpochFacts
  <1>2. i \in DOMAIN j /\ Newest(j) \in DOMAIN j /\ j[Newest(j)].status = "complete"
    BY <1>1 DEF Completes
  <1>3. CASE i = Newest(j)
    BY <1>3 DEF PointerFits
  <1>4. CASE i # Newest(j)
    <2>1. i < Newest(j)
      BY <1>1, <1>2, <1>4
    <2> QED BY <1>2, <2>1 DEF PointerFits, Ordered
  <1> QED BY <1>3, <1>4

\* What a durable append leaves behind, whatever happens to the writer next.
LEMMA Appended ==
    ASSUME IInv, NEW r \in Record, Fits(journal, r), tail # "broken",
           r.status = "complete" => Authentic(r),
           journal' = Append(journal, r), UNCHANGED <<pointer, manifests>>
    PROVE  /\ journal' \in Seq(Record) /\ Good(journal') /\ ManifestBacked' /\ PointerBacked'
           /\ Len(journal') > 0 /\ journal'[Len(journal')] = r
  <1>0. journal \in Seq(Record) /\ Good(journal)
    BY DEF IInv, TypeOK
  <1>1. /\ journal' \in Seq(Record) /\ Len(journal') = Len(journal) + 1 /\ Len(journal) \in Nat
        /\ \A i \in DOMAIN journal : journal'[i] = journal[i]
        /\ journal'[Len(journal) + 1] = r
        /\ Completes(journal') =
              Completes(journal) \cup (IF r.status = "complete" THEN {Len(journal) + 1} ELSE {})
        /\ \A i \in Completes(journal) : i \in DOMAIN journal
    BY <1>0, AppendFacts DEF Completes
  <1>2. Good(journal')
    BY <1>0, AppendGood
  <1>3. ManifestBacked'
    BY <1>1 DEF IInv, ManifestBacked, Authentic
  <1>4. pointer # None => \E i \in Completes(journal') : journal'[i] = pointer
    BY <1>1 DEF IInv, PointerBacked
  <1>5. PointerFits(pointer, journal')
    BY <1>1, <1>2, <1>4, PointerAccepted DEF Good, PointerFits
  <1> QED BY <1>1, <1>2, <1>3, <1>4, <1>5 DEF PointerBacked

\* The one record a writer at the append step holds.
LEMMA AtAppend ==
    ASSUME IInv, NEW p \in Procs, pc[p] = "append"
    PROVE  /\ pub[p][1] \in Record /\ Len(pub[p]) = 1 /\ Fits(journal, pub[p][1])
           /\ tail # "broken" /\ lock = p
           /\ pub[p][1].status = "complete" => Authentic(pub[p][1])
           /\ pub[p][1].status = "partial" => pub[p][1].key \in Keys
           /\ \A q \in Procs : q # p => pc[q] \notin Writing
  <1>1. WriterOK(p) /\ TypeOK
    BY DEF IInv
  <1>2. Len(pub[p]) = 1 /\ Fits(journal, pub[p][1]) /\ tail # "broken"
    BY <1>1 DEF WriterOK
  <1>3. pub[p][1].status = "complete" => Authentic(pub[p][1])
    BY <1>1, <1>2 DEF WriterOK
  <1>4. pub[p][1] \in Record
    <2>1. pub[p] \in Seq(Record) /\ 1 \in 1 .. Len(pub[p])
      BY <1>1, <1>2 DEF TypeOK
    <2> QED BY <2>1, ElementOfSeq
  <1>5. pub[p][1].status = "partial" => pub[p][1].key \in Keys
    BY <1>2 DEF Fits, KeyOK
  <1>6. lock = p /\ \A q \in Procs : q # p => pc[q] \notin Writing
    BY <1>1 DEF TypeOK, Writing
  <1> QED BY <1>2, <1>3, <1>4, <1>5, <1>6

\* _append_journal returned.
LEMMA AppendStep ==
    ASSUME IInv, NEW p \in Procs, AppendJournal(p)
    PROVE  IInv'
  <1> DEFINE r == pub[p][1]
  <1>0. TypeOK /\ pc[p] = "append" /\ \A q \in Procs : tx[q] # None => tx[q].key \in Keys
    BY DEF IInv, AppendJournal
  <1>1. /\ r \in Record /\ Len(pub[p]) = 1 /\ Fits(journal, r)
        /\ tail # "broken" /\ lock = p
        /\ r.status = "complete" => Authentic(r)
        /\ r.status = "partial" => r.key \in Keys
        /\ \A q \in Procs : q # p => pc[q] \notin Writing
    BY <1>0, AtAppend
  <1>2. Last(pub[p]) = r
    BY <1>1 DEF Last
  <1> HIDE DEF r
  <1>3. /\ Held(p, r)
        /\ IF r.status = "complete"
           THEN pc' = [pc EXCEPT ![p] = "pointer"] /\ UNCHANGED <<lock, pub>>
           ELSE Unlock(p)
        /\ UNCHANGED <<pointer, manifests, owner, runLock, obs, seen, saw, count>>
    BY <1>2 DEF AppendJournal
  <1>4. tx' \in [Procs -> Record \cup {None}]
        /\ \A q \in Procs : tx'[q] # None => tx'[q].key \in Keys
    BY <1>0, <1>1, <1>3 DEF Held, TypeOK
  <1>5. /\ pc' \in [Procs -> {"idle", "fenced", "pointed", "read",
                              "manifest", "append", "replace", "pointer"}]
        /\ lock' \in Procs \cup {None} /\ pub' \in [Procs -> Seq(Record)]
        /\ \A q \in Procs : pc'[q] \in {"manifest", "append", "replace", "pointer"} <=> lock' = q
        /\ \A q \in Procs : q # p => pc'[q] = pc[q]
        /\ pc'[p] = IF r.status = "complete" THEN "pointer" ELSE "idle"
        /\ r.status = "complete" => pub'[p] = pub[p]
    <2>1. CASE r.status = "complete"
      BY <1>0, <1>1, <1>3, <2>1 DEF TypeOK
    <2>2. CASE r.status # "complete"
      <3>1. /\ lock' = None /\ pub' = [pub EXCEPT ![p] = <<>>]
            /\ pc' = [pc EXCEPT ![p] = "idle"]
        BY <1>3, <2>2 DEF Unlock
      <3>2. pub' \in [Procs -> Seq(Record)]
        BY <3>1, <1>0 DEF TypeOK
      <3>3. /\ pc' \in [Procs -> {"idle", "fenced", "pointed", "read",
                                  "manifest", "append", "replace", "pointer"}]
            /\ \A q \in Procs : q # p => pc'[q] = pc[q]
            /\ pc'[p] = "idle"
        BY <3>1, <1>0 DEF TypeOK
      <3> QED BY <3>1, <3>2, <3>3, <1>1, <2>2, ConstantsAssumption DEF Writing
    <2> QED BY <2>1, <2>2
  <1>6. /\ journal' \in Seq(Record) /\ Good(journal') /\ ManifestBacked' /\ PointerBacked'
        /\ tail' \in {"closed", "open", "broken"} /\ drifted' \subseteq Owners
        /\ tail' # "broken" => Len(journal') > 0 /\ journal'[Len(journal')] = r
    <2>1. CASE tail = "closed"
      <3>1. journal' = Append(journal, r) /\ tail' = tail /\ Published(r)
        BY <1>2, <2>1 DEF AppendJournal
      <3>2. drifted' \subseteq Owners
        BY <3>1, <1>0 DEF Published, TypeOK
      <3> QED BY <1>1, <1>3, <2>1, <3>1, <3>2, Appended
    <2>2. CASE tail = "open"
      <3>1. tail' = "broken" /\ journal' = journal /\ drifted' = drifted
        BY <2>2 DEF AppendJournal
      <3>2. ManifestBacked' /\ PointerBacked'
        BY <3>1, <1>3 DEF IInv, ManifestBacked, PointerBacked, Authentic
      <3> QED BY <3>1, <3>2 DEF IInv, TypeOK
    <2> QED BY <1>0, <1>1, <2>1, <2>2 DEF TypeOK
  <1>7. TypeOK'
    BY <1>0, <1>3, <1>4, <1>5, <1>6 DEF TypeOK, count
  <1>8. \A q \in Procs : WriterOK(q)'
    <2>1. ASSUME NEW q \in Procs, q # p PROVE WriterOK(q)'
      BY <1>1, <1>5, <2>1 DEF WriterOK, Writing
    <2>2. WriterOK(p)'
      <3>1. CASE r.status = "complete"
        <4>1. pc'[p] = "pointer" /\ Len(pub'[p]) = 1 /\ pub'[p][1] = r
          BY <1>1, <1>5, <3>1 DEF r
        <4> QED BY <4>1, <3>1, <1>6 DEF WriterOK
      <3>2. CASE r.status # "complete"
        BY <1>5, <3>2 DEF WriterOK
      <3> QED BY <3>1, <3>2
    <2> QED BY <2>1, <2>2
  <1> QED BY <1>4, <1>6, <1>7, <1>8 DEF IInv

\* _append_journal raised: the line is absent, complete or damaged.
LEMMA AppendFailsStep ==
    ASSUME IInv, NEW p \in Procs, AppendFails(p)
    PROVE  IInv'
  <1> DEFINE r == pub[p][1]
  <1>0. TypeOK /\ pc[p] = "append" /\ \A q \in Procs : tx[q] # None => tx[q].key \in Keys
    BY DEF IInv, AppendFails
  <1>1. /\ r \in Record /\ Len(pub[p]) = 1 /\ Fits(journal, r)
        /\ tail # "broken" /\ lock = p
        /\ r.status = "complete" => Authentic(r)
        /\ \A q \in Procs : q # p => pc[q] \notin Writing
    BY <1>0, AtAppend
  <1>2. Last(pub[p]) = r
    BY <1>1 DEF Last
  <1> HIDE DEF r
  <1>3. /\ lock' = None /\ pub' = [pub EXCEPT ![p] = <<>>] /\ pc' = [pc EXCEPT ![p] = "idle"]
        /\ tx' = [tx EXCEPT ![p] = None] /\ faults < MaxFaults /\ faults' = faults + 1
        /\ UNCHANGED <<pointer, manifests, owner, runLock, obs, seen, saw, clock, crashes>>
    BY DEF AppendFails, Unlock, Fault
  <1>4. tx' \in [Procs -> Record \cup {None}]
        /\ \A q \in Procs : tx'[q] # None => tx'[q].key \in Keys
    BY <1>0, <1>3 DEF TypeOK
  <1>5. pub' \in [Procs -> Seq(Record)] /\ faults' \in 0 .. MaxFaults
    BY <1>0, <1>3, ConstantsAssumption DEF TypeOK
  <1>6. /\ pc' \in [Procs -> {"idle", "fenced", "pointed", "read",
                              "manifest", "append", "replace", "pointer"}]
        /\ \A q \in Procs : pc'[q] \notin Writing
    BY <1>0, <1>1, <1>3 DEF TypeOK, Writing
  <1>7. /\ journal' \in Seq(Record) /\ Good(journal') /\ ManifestBacked' /\ PointerBacked'
        /\ tail' \in {"closed", "open", "broken"} /\ drifted' \subseteq Owners
    <2>1. PICK fault \in AppendFaults :
             /\ IF tail = "closed" /\ fault \in {"unsynced", "unterminated"}
                THEN journal' = Append(journal, r) /\ Published(r)
                ELSE UNCHANGED <<journal, drifted>>
             /\ tail' = CASE fault = "lost" -> tail
                          [] fault = "torn" \/ tail = "open" -> "broken"
                          [] fault = "unterminated" -> "open"
                          [] OTHER -> "closed"
      BY <1>2 DEF AppendFails
    <2>2. tail' \in {"closed", "open", "broken"}
      BY <2>1, <1>0 DEF TypeOK
    <2>3. CASE tail = "closed" /\ fault \in {"unsynced", "unterminated"}
      <3>1. drifted' \subseteq Owners
        BY <2>1, <2>3, <1>0 DEF Published, TypeOK
      <3> QED BY <1>1, <1>3, <2>1, <2>2, <2>3, <3>1, Appended
    <2>4. CASE ~(tail = "closed" /\ fault \in {"unsynced", "unterminated"})
      <3>1. journal' = journal /\ drifted' = drifted
        BY <2>1, <2>4
      <3>2. ManifestBacked' /\ PointerBacked'
        BY <3>1, <1>1, <1>3 DEF IInv, ManifestBacked, PointerBacked, Authentic
      <3> QED BY <2>2, <3>1, <3>2 DEF IInv, TypeOK
    <2> QED BY <2>3, <2>4
  <1>8. TypeOK'
    BY <1>0, <1>3, <1>4, <1>5, <1>6, <1>7, ConstantsAssumption DEF TypeOK, Writing
  <1>9. \A q \in Procs : WriterOK(q)'
    BY <1>6 DEF WriterOK, Writing
  <1> QED BY <1>4, <1>7, <1>8, <1>9 DEF IInv

\* The replacement of the whole journal by a restart.
LEMMA ReplaceStep ==
    ASSUME IInv, NEW p \in Procs, ReplaceJournal(p)
    PROVE  IInv'
  <1> DEFINE s == pub[p]
  <1>0. TypeOK /\ pc[p] = "replace" /\ Good(journal) /\ journal \in Seq(Record)
    BY DEF IInv, ReplaceJournal, TypeOK
  <1>1. WriterOK(p)
    BY DEF IInv
  <1>2. /\ Len(s) = 2 /\ FitsPair(journal, s[1], s[2]) /\ tail # "broken"
        /\ s[Len(s)].status = "complete" => Authentic(s[Len(s)])
    BY <1>0, <1>1 DEF WriterOK
  <1>3. s \in Seq(Record) /\ lock = p /\ \A q \in Procs : q # p => pc[q] \notin Writing
    BY <1>0 DEF TypeOK, Writing
  <1>4. /\ journal' = journal \o s /\ tail' = "closed" /\ Published(s[2])
        /\ pc' = [pc EXCEPT ![p] = "pointer"]
        /\ UNCHANGED <<pointer, manifests, owner, locks, obs, seen, saw, tx, pub, count>>
    BY <1>2 DEF ReplaceJournal, Last
  <1> HIDE DEF s
  <1>5. /\ Good(journal') /\ Len(journal') = Len(journal) + 2
        /\ Completes(journal') = Completes(journal) \cup {Len(journal) + 2}
        /\ \A i \in DOMAIN journal : journal'[i] = journal[i]
        /\ journal'[Len(journal) + 2] = s[2]
    BY <1>0, <1>2, <1>3, <1>4, PairGood
  <1>6. journal' \in Seq(Record) /\ Len(journal) \in Nat
    BY <1>0, <1>3, <1>4
  <1>7. s[2].status = "complete" /\ Authentic(s[2])
    BY <1>2 DEF FitsPair
  <1>8. \A i \in Completes(journal) : i \in DOMAIN journal
    BY DEF Completes
  <1>9. ManifestBacked'
    BY <1>4, <1>5, <1>7, <1>8 DEF IInv, ManifestBacked, Authentic
  <1>10. PointerBacked'
    <2>1. pointer # None => \E i \in Completes(journal') : journal'[i] = pointer
      BY <1>2, <1>5, <1>8 DEF IInv, PointerBacked
    <2>2. PointerFits(pointer, journal')
      BY <1>5, <1>6, <2>1, PointerAccepted DEF Good, PointerFits
    <2> QED BY <2>1, <2>2, <1>4 DEF PointerBacked
  <1>11. pc' \in [Procs -> {"idle", "fenced", "pointed", "read",
                            "manifest", "append", "replace", "pointer"}]
         /\ pc'[p] = "pointer" /\ \A q \in Procs : q # p => pc'[q] = pc[q]
    BY <1>0, <1>4 DEF TypeOK
  <1>12. drifted' \subseteq Owners
    BY <1>0, <1>4 DEF Published, TypeOK
  <1>13. TypeOK'
    BY <1>0, <1>3, <1>4, <1>6, <1>11, <1>12 DEF TypeOK, locks, count, Writing
  <1>14. \A q \in Procs : WriterOK(q)'
    <2>1. ASSUME NEW q \in Procs, q # p PROVE WriterOK(q)'
      BY <1>3, <1>11, <2>1 DEF WriterOK, Writing
    <2>2. pub'[p] = s
      BY <1>4 DEF s
    <2>3. /\ Len(pub'[p]) = 2 /\ pub'[p][Len(pub'[p])] = s[2]
          /\ Len(journal') > 0 /\ journal'[Len(journal')] = s[2]
      <3>1. Len(pub'[p]) = 2 /\ pub'[p][Len(pub'[p])] = s[2]
        BY <1>2, <2>2
      <3>2. Len(journal') > 0
        BY <1>5, <1>6
      <3>3. journal'[Len(journal')] = s[2]
        BY <1>5
      <3> QED BY <3>1, <3>2, <3>3
    <2>4. WriterOK(p)'
      BY <1>7, <1>11, <2>3 DEF WriterOK
    <2> QED BY <2>1, <2>4
  <1> QED BY <1>4, <1>5, <1>9, <1>10, <1>13, <1>14 DEF IInv

\* The epoch pointer is replaced by the record the journal ends with.
LEMMA PointerStep ==
    ASSUME IInv, NEW p \in Procs, WritePointer(p)
    PROVE  IInv'
  <1>0. TypeOK /\ pc[p] = "pointer" /\ Good(journal) /\ journal \in Seq(Record) /\ WriterOK(p)
    BY DEF IInv, WritePointer, TypeOK
  <1>1. /\ Len(pub[p]) \in {1, 2}
        /\ tail # "broken" => /\ Len(journal) > 0 /\ journal[Len(journal)] = pub[p][Len(pub[p])]
                              /\ journal[Len(journal)].status = "complete"
    BY <1>0 DEF WriterOK
  <1>2. /\ pointer' = pub[p][Len(pub[p])] /\ lock' = None
        /\ pc' = [pc EXCEPT ![p] = "idle"] /\ pub' = [pub EXCEPT ![p] = <<>>]
        /\ UNCHANGED <<journal, tail, manifests, world, runLock, obs, seen, saw, tx, count>>
    BY DEF WritePointer, Unlock, Last
  <1>3. pub[p][Len(pub[p])] \in Record
    <2>1. pub[p] \in Seq(Record)
      BY <1>0 DEF TypeOK
    <2>2. Len(pub[p]) = 1 \/ Len(pub[p]) = 2
      BY <1>1
    <2>3. Len(pub[p]) \in 1 .. Len(pub[p])
      BY <2>2
    <2> QED BY <2>1, <2>3, ElementOfSeq
  <1>4. lock = p /\ \A q \in Procs : pc'[q] \notin Writing
    BY <1>0, <1>2 DEF TypeOK, Writing
  <1>5. TypeOK'
    <2>1. pub' \in [Procs -> Seq(Record)]
      BY <1>0, <1>2 DEF TypeOK
    <2>2. pc' \in [Procs -> {"idle", "fenced", "pointed", "read",
                            "manifest", "append", "replace", "pointer"}]
      BY <1>0, <1>2 DEF TypeOK
    <2> QED BY <1>0, <1>2, <1>3, <1>4, <2>1, <2>2, ConstantsAssumption
            DEF TypeOK, world, count, Writing
  <1>6. PointerBacked'
    <2>1. SUFFICES ASSUME tail # "broken" PROVE PointerBacked'
      BY <1>2 DEF PointerBacked
    <2>2. Len(journal) \in Completes(journal) /\ journal[Len(journal)] = pointer'
      BY <1>0, <1>1, <1>2, <2>1 DEF Completes
    <2>3. PointerFits(pointer', journal)
      BY <1>0, <2>2, PointerAccepted DEF Good
    <2> QED BY <1>2, <2>2, <2>3 DEF PointerBacked
  <1>7. ManifestBacked' /\ Good(journal')
    BY <1>2 DEF IInv, ManifestBacked, Authentic
  <1>8. \A q \in Procs : WriterOK(q)'
    BY <1>4 DEF WriterOK, Writing
  <1> QED BY <1>2, <1>5, <1>6, <1>7, <1>8 DEF IInv

-----------------------------------------------------------------------------
(* Theorems. *)

\* Every step of the specification preserves the inductive invariant.
LEMMA NextIInv == ASSUME IInv, [Next]_vars PROVE IInv'
  <1>1. CASE UNCHANGED vars
    <2>1. TypeOK'
      BY <1>1 DEF IInv, TypeOK, vars, files, world, locks, local, count
    <2> QED BY <1>1, <2>1, FrameStep DEF IInv, vars, files, local
  <1>2. ASSUME NEW p \in Procs, Call(p) PROVE IInv'
    BY <1>2, RecordCalls, RecoveryCalls, RestartStep DEF Call
  <1>3. ASSUME NEW p \in Procs, Write(p) PROVE IInv'
    BY <1>3, ManifestStep, AppendStep, PointerStep, ReplaceStep, QuietSteps DEF Write
  <1>4. ASSUME NEW p \in Procs, Fail(p) PROVE IInv'
    BY <1>4, QuietSteps, AppendFailsStep DEF Fail
  <1> QED BY <1>1, <1>2, <1>3, <1>4, QuietSteps DEF Next

\* The inductive invariant holds in every reachable state.
THEOREM Invariance == Spec => []IInv
  <1>1. Init => IInv
    BY InitIInv
  <1>2. IInv /\ [Next]_vars => IInv'
    BY NextIInv
  <1> QED BY <1>1, <1>2, PTL DEF Spec

\* Type correctness, mutual exclusion of the publication flock included, for
\* any number of processes, faults and crashes.
THEOREM TypeCorrect == Spec => []TypeOK
  <1>1. IInv => TypeOK
    BY DEF IInv
  <1> QED BY <1>1, Invariance, PTL

\* At most one prepare is open, and it is the journal's last record, even
\* when callers do not serialise on FrameworkRunLock.
THEOREM OneFence == Spec => []FenceIsTail
  <1>1. IInv => FenceIsTail
    BY DEF IInv, Good, FenceIsTail
  <1> QED BY <1>1, Invariance, PTL

\* No crash or I/O error separates a complete record from its content
\* manifest.
THEOREM ManifestsDurable == Spec => []ManifestBacked
  <1>1. IInv => ManifestBacked
    BY DEF IInv
  <1> QED BY <1>1, Invariance, PTL

\* Readers never meet a pointer that contradicts the journal.
THEOREM PointerSafe == Spec => []PointerBacked
  <1>1. IInv => PointerBacked
    BY DEF IInv
  <1> QED BY <1>1, Invariance, PTL

\* A key completes at most once, however often its call is retried.
THEOREM Idempotent == Spec => []OncePerKey
  <1>1. ASSUME IInv PROVE OncePerKey
    <2>1. SUFFICES ASSUME NEW i \in Completes(journal), NEW n \in Completes(journal),
                          journal[i].key = journal[n].key, i # n
                   PROVE  FALSE
      BY DEF OncePerKey
    <2>2. i \in DOMAIN journal /\ n \in DOMAIN journal /\ journal \in Seq(Record)
      BY <1>1 DEF Completes, IInv, TypeOK
    <2>3. i < n \/ n < i
      BY <2>1, <2>2
    <2> QED BY <1>1, <2>1, <2>2, <2>3 DEF IInv, Good, Sealed
  <1> QED BY <1>1, Invariance, PTL
=============================================================================
