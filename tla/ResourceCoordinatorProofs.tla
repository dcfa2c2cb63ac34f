----------------------- MODULE ResourceCoordinatorProofs -----------------------
(***************************************************************************)
(* Proofs about ResourceCoordinator for every set of jobs, demands, routes *)
(* and budgets.                                                            *)
(***************************************************************************)
EXTENDS ResourceCoordinator, FiniteSetTheorems, SequenceTheorems,
        WellFoundedInduction, TLAPS

-----------------------------------------------------------------------------
(* Least and greatest elements. *)

\* The lesser and the greater of two numbers.
LEMMA MinMaxPair ==
    ASSUME NEW a \in Int, NEW b \in Int
    PROVE  /\ Min({a, b}) = IF a <= b THEN a ELSE b
           /\ Max({a, b}) = IF a >= b THEN a ELSE b
  BY DEF Min, Max

\* A non-empty set of naturals has a least element.
LEMMA LeastNat ==
    ASSUME NEW T \in SUBSET Nat, T # {}
    PROVE  \E x \in T : \A y \in T : x <= y
  <1>1. \E x \in T : \A y \in T : ~(<<y, x>> \in OpToRel(<, Nat))
    BY NatLessThanWellFounded, WFMin
  <1>2. OpToRel(<, Nat) = {ss \in Nat \X Nat : ss[1] < ss[2]}
    BY Zenon DEF OpToRel
  <1>3. \E x \in T : \A y \in T : <<y, x>> \notin {ss \in Nat \X Nat : ss[1] < ss[2]}
    BY <1>1, <1>2, Zenon
  <1>4. PICK x \in T : \A y \in T : <<y, x>> \notin {ss \in Nat \X Nat : ss[1] < ss[2]}
    BY <1>3, Zenon
  <1>5. ASSUME NEW y \in T PROVE x <= y
    <2>1. <<y, x>> \in Nat \X Nat /\ <<y, x>>[1] = y /\ <<y, x>>[2] = x
      OBVIOUS
    <2>2. ~(<<y, x>>[1] < <<y, x>>[2])
      BY <1>4, <2>1, Zenon
    <2> QED BY <2>1, <2>2
  <1> QED BY <1>5

\* A finite non-empty set of integers has a greatest element.
LEMMA Greatest ==
    ASSUME NEW T \in SUBSET Int, IsFiniteSet(T), T # {}
    PROVE  Max(T) \in T /\ \A y \in T : y <= Max(T)
  <1> DEFINE Above(x) == {y \in T : y >= x}
             D == {Above(x) : x \in T}
  <1>1. D \in SUBSET FiniteSubsetsOf(T)
    BY FS_Subset DEF FiniteSubsetsOf
  <1>2. D # {}
    OBVIOUS
  <1> HIDE DEF D
  <1>3. \E d \in D : \A e \in D : ~(<<e, d>> \in StrictSubsetOrdering(T))
    BY <1>1, <1>2, FS_StrictSubsetOrderingWellFounded, WFMin
  <1> USE DEF D
  <1>4. PICK x \in T : \A y \in T : <<Above(y), Above(x)>> \notin StrictSubsetOrdering(T)
    BY <1>3
  <1>5. ASSUME NEW y \in T, y > x PROVE FALSE
    <2>1. x \in Int /\ \A z \in T : z \in Int /\ (z >= y => z >= x)
      BY <1>5
    <2>2. Above(y) \in SUBSET T /\ Above(x) \in SUBSET T
      OBVIOUS
    <2>3. Above(y) \subseteq Above(x)
      BY <2>1
    <2>4. x \in Above(x)
      BY <2>1
    <2>5. x \notin Above(y)
      BY <1>5, <2>1
    <2> DEFINE p == <<Above(y), Above(x)>>
    <2>6. p \in (SUBSET T) \X (SUBSET T) /\ p[1] = Above(y) /\ p[2] = Above(x)
      BY <2>2
    <2>7. Above(y) # Above(x)
      BY <2>4, <2>5
    <2>8. p \notin StrictSubsetOrdering(T)
      BY <1>4
    <2> HIDE DEF Above, p
    <2> QED BY <2>3, <2>6, <2>7, <2>8 DEF StrictSubsetOrdering
  <1>6. \A y \in T : x >= y
    BY <1>5
  <1> QED BY <1>6 DEF Max

\* Round-robin selects one of the routes it is given.
LEMMA RoundRobinIn ==
    ASSUME CoordinatorConstants, last \in 0 .. NRoutes, NEW S \in SUBSET Routes, S # {}
    PROVE  RoundRobin(S) \in S
  <1> DEFINE T == {(x - last - 1) % NRoutes : x \in S}
  <1>1. \A x \in S : (x - last - 1) % NRoutes \in Nat
    BY DEF CoordinatorConstants, Routes
  <1>2. T \in SUBSET Nat /\ T # {}
    BY <1>1
  <1>3. \E x \in T : \A y \in T : x <= y
    BY <1>2, LeastNat
  <1>4. \E x \in S : \A y \in S : (x - last - 1) % NRoutes <= (y - last - 1) % NRoutes
    BY <1>3
  <1> QED BY <1>4 DEF RoundRobin

-----------------------------------------------------------------------------
(* The inductive invariant. *)

\* What is known of a request besides its type: only an admitted request
\* executes, what does not execute holds no execution, a lease is never a
\* renewal, and a turn holds neither memory nor temporary space.
Good(r, q) ==
    /\ q.active => q.st = "admitted"
    /\ q.st = "admitted" /\ ~q.active => q.cpu = 0 /\ q.native = 0 /\ q.io = 0
    /\ r[2] = "lease" => q.mode = "new"
    /\ r[2] = "turn" => q.transient = 0 /\ q.temp = 0

GoodAll(rq) == rq \in [Requests -> RequestType] /\ \A r \in Requests : Good(r, rq[r])

ReqInv == GoodAll(req)

Elem(s) == {s[i] : i \in 1 .. Len(s)}
Inj(s)  == \A i, k \in 1 .. Len(s) : s[i] = s[k] => i = k

\* A queue holds the waiting requests of its route, each of them once.
Queued(qs, rq) ==
    /\ qs \in [Routes -> Seq(Requests)]
    /\ \A x \in Routes : /\ Inj(qs[x])
                         /\ Elem(qs[x]) = {r \in Requests : rq[r].st = "queued" /\ RouteOf(r) = x}

\* A checkpoint between its two halves has no turn.
QueueInv ==
    /\ Queued(queue, req)
    /\ \A j \in Jobs : step[j] # "none" => req[Turn(j)].st = "idle"

LedgerInv ==
    /\ ledger \in [0 .. NRoutes -> [Accounts -> Nat]]
    /\ LedgerExact
    /\ WithinLimits

ViewType == [mem : BOOLEAN, cpu : BOOLEAN, io : BOOLEAN, eff : 0 .. CpuSlots,
             native : 1 .. CpuSlots, known : BOOLEAN]

RestInv ==
    /\ last \in 0 .. NRoutes /\ view \in ViewType /\ sample \in Samples
    /\ step \in [Jobs -> {"none", "renew", "drain"}]
    /\ done \subseteq Jobs /\ cancelled \subseteq Jobs /\ timed \in HasTimeout
    /\ changes \in 0 .. MaxChanges

\* The inductive invariant.
IInv == ReqInv /\ QueueInv /\ LedgerInv /\ RestInv

-----------------------------------------------------------------------------
(* Counting units. *)

\* The units from m + 1 to n in one name.
LEMMA Column ==
    ASSUME NEW c, NEW m \in Nat, NEW n \in Nat
    PROVE  /\ IsFiniteSet({c} \X (m + 1 .. n))
           /\ Cardinality({c} \X (m + 1 .. n)) = IF n > m THEN n - m ELSE 0
  <1>1. IsFiniteSet({c}) /\ Cardinality({c}) = 1
    BY FS_Singleton
  <1>2. /\ IsFiniteSet(m + 1 .. n)
        /\ Cardinality(m + 1 .. n) = IF m + 1 > n THEN 0 ELSE n - (m + 1) + 1
    BY FS_Interval, m + 1 \in Int, n \in Int
  <1>3. /\ IsFiniteSet({c} \X (m + 1 .. n))
        /\ Cardinality({c} \X (m + 1 .. n)) = Cardinality({c}) * Cardinality(m + 1 .. n)
    BY <1>1, <1>2, FS_Product
  <1> QED BY <1>1, <1>2, <1>3

\* The units of name c in U are the first m.
Filled(U, c, m) == \A k \in Nat : <<c, k>> \in U <=> k \in 1 .. m

\* A name with m units that is raised to n gains the difference.
LEMMA RaiseColumn ==
    ASSUME NEW U, IsFiniteSet(U), NEW c, NEW m \in Nat, NEW n \in Nat,
           Filled(U, c, m)
    PROVE  /\ IsFiniteSet(U \cup ({c} \X (1 .. n)))
           /\ Cardinality(U \cup ({c} \X (1 .. n))) = Cardinality(U) + IF n > m THEN n - m ELSE 0
  <1> DEFINE V == {c} \X (m + 1 .. n)
  <1>1. U \cup ({c} \X (1 .. n)) = U \cup V
    <2>1. ASSUME NEW u \in {c} \X (1 .. n) PROVE u \in U \cup V
      <3>1. PICK k \in 1 .. n : u = <<c, k>>
        OBVIOUS
      <3>2. k \in 1 .. m \/ k \in m + 1 .. n
        OBVIOUS
      <3> QED BY <3>1, <3>2 DEF Filled
    <2>2. V \subseteq {c} \X (1 .. n)
      OBVIOUS
    <2> QED BY <2>1, <2>2
  <1>2. U \cap V = {}
    <2>1. ASSUME NEW u \in V PROVE u \notin U
      <3>1. PICK k \in m + 1 .. n : u = <<c, k>>
        OBVIOUS
      <3>2. k \in Nat /\ k \notin 1 .. m
        OBVIOUS
      <3> QED BY <3>1, <3>2 DEF Filled
    <2> HIDE DEF V
    <2> QED BY <2>1
  <1>3. IsFiniteSet(V) /\ Cardinality(V) = IF n > m THEN n - m ELSE 0
    BY Column
  <1> HIDE DEF V
  <1>4. /\ IsFiniteSet(U \cup V)
        /\ Cardinality(U \cup V) = Cardinality(U) + Cardinality(V) - Cardinality(U \cap V)
    BY <1>3, FS_Union
  <1>5. Cardinality(U) \in Nat /\ Cardinality(U \cap V) = 0
    BY <1>2, FS_CardinalityType, FS_EmptySet, Zenon
  <1>6. Cardinality(U \cup V) = Cardinality(U) + IF n > m THEN n - m ELSE 0
    BY <1>3, <1>4, <1>5
  <1> QED BY <1>1, <1>4, <1>6, Zenon

\* Finitely many requests hold finitely many units.
LEMMA UnitsFinite ==
    ASSUME NEW S, IsFiniteSet(S), NEW h, NEW n, \A r \in S : n[r] \in Nat
    PROVE  IsFiniteSet(Units(S, h, n))
  <1> DEFINE f == [r \in S |-> {h[r]} \X (1 .. n[r])]
             T == {{h[r]} \X (1 .. n[r]) : r \in S}
  <1>1. f \in Surjection(S, T)
    BY DEF Surjection
  <1>2. IsFiniteSet(T)
    BY <1>1, FS_Surjection
  <1>3. ASSUME NEW t \in T PROVE IsFiniteSet(t)
    <2>1. PICK r \in S : t = {h[r]} \X (1 .. n[r])
      OBVIOUS
    <2>2. IsFiniteSet({h[r]} \X (0 + 1 .. n[r]))
      BY Column
    <2> QED BY <2>1, <2>2
  <1>4. IsFiniteSet(UNION T)
    BY <1>2, <1>3, FS_UNION
  <1> QED BY <1>4 DEF Units

Self == [r \in Requests |-> r]

\* The units of f, each request in its own name.
Pile(f) == Units(Requests, Self, f)

LEMMA RequestsFinite ==
    IsFiniteSet(Requests)
  <1>1. IsFiniteSet({"lease", "turn"})
    <2>1. IsFiniteSet({"lease"} \cup {"turn"})
      BY FS_Singleton, FS_AddElement
    <2>2. {"lease"} \cup {"turn"} = {"lease", "turn"}
      OBVIOUS
    <2> QED BY <2>1, <2>2
  <1>2. IsFiniteSet(Jobs)
    BY CoordinatorConstants DEF CoordinatorConstants
  <1> QED BY <1>1, <1>2, FS_Product DEF Requests

\* The units of request s can be set apart.
LEMMA PileSplit ==
    ASSUME NEW f \in [Requests -> Nat], NEW s \in Requests
    PROVE  /\ IsFiniteSet(Pile(f))
           /\ Cardinality(Pile([f EXCEPT ![s] = 0])) \in Nat
           /\ Cardinality(Pile(f)) = Cardinality(Pile([f EXCEPT ![s] = 0])) + f[s]
  <1> DEFINE z == [f EXCEPT ![s] = 0]
  <1>1. z \in [Requests -> Nat] /\ z[s] = 0 /\ \A r \in Requests : r # s => z[r] = f[r]
    OBVIOUS
  <1> HIDE DEF z
  <1>2. IsFiniteSet(Pile(z)) /\ IsFiniteSet(Pile(f))
    BY <1>1, UnitsFinite, RequestsFinite DEF Pile
  <1>3. \A k \in Nat : <<s, k>> \in Pile(z) <=> k \in 1 .. 0
    BY <1>1 DEF Pile, Units, Self
  <1>4. Pile(f) = Pile(z) \cup ({s} \X (1 .. f[s]))
    <2>1. ASSUME NEW u PROVE u \in Pile(f) <=> \E r \in Requests : u \in {r} \X (1 .. f[r])
      BY DEF Pile, Units, Self
    <2>2. ASSUME NEW u PROVE u \in Pile(z) <=> \E r \in Requests : u \in {r} \X (1 .. z[r])
      BY DEF Pile, Units, Self
    <2>3. {s} \X (1 .. z[s]) = {}
      BY <1>1
    <2>4. \A r \in Requests : r # s => {r} \X (1 .. z[r]) = {r} \X (1 .. f[r])
      BY <1>1
    <2>5. ASSUME NEW u PROVE u \in Pile(f) <=> u \in Pile(z) \/ u \in {s} \X (1 .. f[s])
      BY <2>1, <2>2, <2>3, <2>4, Zenon
    <2>6. ASSUME NEW u PROVE u \in Pile(f) <=> u \in Pile(z) \cup ({s} \X (1 .. f[s]))
      BY <2>5, Zenon
    <2> QED BY <2>6, Zenon
  <1>5. Cardinality(Pile(f)) = Cardinality(Pile(z)) + IF f[s] > 0 THEN f[s] - 0 ELSE 0
    <2>1. f[s] \in Nat /\ 0 \in Nat
      OBVIOUS
    <2>2. Filled(Pile(z), s, 0)
      BY <1>3 DEF Filled
    <2>3. Cardinality(Pile(z) \cup ({s} \X (1 .. f[s])))
             = Cardinality(Pile(z)) + IF f[s] > 0 THEN f[s] - 0 ELSE 0
      BY <1>2, <2>1, <2>2, RaiseColumn
    <2> QED BY <1>4, <2>3, Zenon
  <1>6. Cardinality(Pile(z)) \in Nat
    BY <1>2, FS_CardinalityType
  <1>7. f[s] \in Nat
    OBVIOUS
  <1> QED BY <1>2, <1>5, <1>6, <1>7 DEF z

\* Changing one amount changes the count by the difference.
LEMMA PilePoint ==
    ASSUME NEW f \in [Requests -> Nat], NEW s \in Requests, NEW v \in Nat
    PROVE  Cardinality(Pile([f EXCEPT ![s] = v])) = Cardinality(Pile(f)) + v - f[s]
  <1> DEFINE g == [f EXCEPT ![s] = v]
  <1>1. g \in [Requests -> Nat] /\ g[s] = v /\ [g EXCEPT ![s] = 0] = [f EXCEPT ![s] = 0]
    OBVIOUS
  <1> HIDE DEF g
  <1>2. Cardinality(Pile(g)) = Cardinality(Pile([f EXCEPT ![s] = 0])) + v
    BY <1>1, PileSplit
  <1>3. /\ Cardinality(Pile([f EXCEPT ![s] = 0])) \in Nat
        /\ Cardinality(Pile(f)) = Cardinality(Pile([f EXCEPT ![s] = 0])) + f[s]
    BY PileSplit
  <1>4. f[s] \in Nat
    OBVIOUS
  <1> QED BY <1>2, <1>3, <1>4 DEF g

\* Changing what a job holds changes the count by the two differences.
LEMMA PileJob ==
    ASSUME NEW f \in [Requests -> Nat], NEW g \in [Requests -> Nat], NEW j \in Jobs,
           \A r \in Requests : r # Lease(j) /\ r # Turn(j) => g[r] = f[r]
    PROVE  Cardinality(Pile(g)) =
              Cardinality(Pile(f)) + (g[Lease(j)] - f[Lease(j)]) + (g[Turn(j)] - f[Turn(j)])
  <1>1. Lease(j) \in Requests /\ Turn(j) \in Requests /\ Lease(j) # Turn(j)
    BY DEF Lease, Turn, Requests
  <1> DEFINE e == [f EXCEPT ![Lease(j)] = g[Lease(j)]]
  <1>2. e \in [Requests -> Nat] /\ g[Lease(j)] \in Nat /\ g[Turn(j)] \in Nat
    BY <1>1
  <1>3. e[Turn(j)] = f[Turn(j)] /\ g = [e EXCEPT ![Turn(j)] = g[Turn(j)]]
    BY <1>1
  <1>4. Cardinality(Pile(e)) = Cardinality(Pile(f)) + g[Lease(j)] - f[Lease(j)]
    BY <1>1, <1>2, PilePoint
  <1> HIDE DEF e
  <1>5. Cardinality(Pile(g)) = Cardinality(Pile(e)) + g[Turn(j)] - e[Turn(j)]
    BY <1>1, <1>2, <1>3, PilePoint
  <1>6. Cardinality(Pile(f)) \in Nat
    BY <1>1, PileSplit, FS_CardinalityType
  <1>7. f[Lease(j)] \in Nat /\ f[Turn(j)] \in Nat
    BY <1>1
  <1> QED BY <1>2, <1>3, <1>4, <1>5, <1>6, <1>7

-----------------------------------------------------------------------------
(* What the ledger counts, as a function of the requests rq. *)

Plain == Exec \cup {"transient", "temp", "running"}

Admits(rq, r) == rq[r].st = "admitted"

\* What one request holds on an account.
Hold(q, a) ==
    IF q.st # "admitted" THEN 0
    ELSE IF a = "running" THEN (IF q.active THEN 1 ELSE 0) ELSE q[a]

Amounts(rq, x, a) ==
    [r \in Requests |-> IF x \in {0, RouteOf(r)} THEN Hold(rq[r], a) ELSE 0]

In(rq, x) == {r \in Requests : Admits(rq, r) /\ x \in {0, RouteOf(r)}}

ResUnits(rq, x) ==
    Units(In(rq, x), [r \in Requests |-> Holder(r)], [r \in Requests |-> Resident(r)])

Counted(rq, lg) ==
    \A x \in 0 .. NRoutes :
        /\ lg[x]["resident"] = Cardinality(ResUnits(rq, x))
        /\ lg[x]["reserved"] = lg[x]["resident"] + lg[x]["transient"]
        /\ \A a \in Plain : lg[x][a] = Cardinality(Pile(Amounts(rq, x, a)))

LEMMA HoldType ==
    ASSUME NEW q \in RequestType, NEW a \in Plain
    PROVE  Hold(q, a) \in Nat
  <1> USE CoordinatorConstants
  <1>1. /\ q.cpu \in Nat /\ q.native \in Nat /\ q.io \in Nat /\ q.transient \in Nat
        /\ q.temp \in Nat
    BY DEF RequestType, CoordinatorConstants
  <1> QED BY <1>1 DEF Hold, Plain, Exec

LEMMA AmountsType ==
    ASSUME NEW rq \in [Requests -> RequestType], NEW x, NEW a \in Plain
    PROVE  Amounts(rq, x, a) \in [Requests -> Nat]
  <1>1. \A r \in Requests : Hold(rq[r], a) \in Nat
    BY HoldType
  <1> QED BY <1>1 DEF Amounts

\* The units of an amount are those of the requests that are admitted.
LEMMA UnitsArePile ==
    ASSUME NEW rq \in [Requests -> RequestType], NEW x, NEW a \in Exec \cup {"transient", "temp"}
    PROVE  Units(In(rq, x), Self, [r \in Requests |-> rq[r][a]]) = Pile(Amounts(rq, x, a))
  <1> DEFINE f == [r \in Requests |-> rq[r][a]]
             g == Amounts(rq, x, a)
  <1>1. \A r \in Requests : f[r] = rq[r][a] /\ Self[r] = r
    BY DEF Self
  <1>2. \A r \in Requests : r \in In(rq, x) => g[r] = f[r]
    BY DEF Amounts, Hold, In, Admits, Exec
  <1>3. \A r \in Requests : r \notin In(rq, x) => g[r] = 0
    BY DEF Amounts, Hold, In, Admits
  <1>4. In(rq, x) \subseteq Requests
    BY DEF In
  <1> HIDE DEF f, g
  <1>5. \A r \in Requests : r \notin In(rq, x) => {Self[r]} \X (1 .. g[r]) = {}
    BY <1>3
  <1>6. ASSUME NEW u
        PROVE  u \in Units(In(rq, x), Self, f) <=> u \in Units(Requests, Self, g)
    <2>1. u \in Units(In(rq, x), Self, f) <=> \E r \in In(rq, x) : u \in {Self[r]} \X (1 .. f[r])
      BY DEF Units
    <2>2. u \in Units(Requests, Self, g) <=> \E r \in Requests : u \in {Self[r]} \X (1 .. g[r])
      BY DEF Units
    <2>3. \A r \in Requests : r \in In(rq, x) => {Self[r]} \X (1 .. g[r]) = {Self[r]} \X (1 .. f[r])
      BY <1>2
    <2> QED BY <1>4, <1>5, <2>1, <2>2, <2>3, Zenon
  <1>7. Units(In(rq, x), Self, f) = Units(Requests, Self, g)
    BY <1>6, Zenon
  <1> QED BY <1>7 DEF f, g, Pile

\* The requests that execute are one unit each.
LEMMA RunningIsPile ==
    ASSUME NEW rq \in [Requests -> RequestType], NEW x
    PROVE  Cardinality({r \in In(rq, x) : rq[r].active})
              = Cardinality(Pile(Amounts(rq, x, "running")))
  <1> DEFINE S == {r \in In(rq, x) : rq[r].active}
             g == Amounts(rq, x, "running")
  <1>1. \A r \in Requests : g[r] = IF r \in S THEN 1 ELSE 0
    BY DEF Amounts, Hold, In, Admits
  <1>2. S \subseteq Requests
    BY DEF In
  <1> HIDE DEF S, g
  <1>3. ASSUME NEW u PROVE u \in Pile(g) <=> u \in S \X {1}
    <2>1. u \in Pile(g) <=> \E r \in Requests : u \in {r} \X (1 .. g[r])
      BY DEF Pile, Units, Self
    <2>2. \A r \in S : {r} \X (1 .. g[r]) = {r} \X {1}
      BY <1>1, <1>2
    <2>3. \A r \in Requests : r \notin S => {r} \X (1 .. g[r]) = {}
      BY <1>1
    <2>4. u \in S \X {1} <=> \E r \in S : u \in {r} \X {1}
      OBVIOUS
    <2> QED BY <1>2, <2>1, <2>2, <2>3, <2>4, Zenon
  <1>4. Pile(g) = S \X {1}
    BY <1>3, Zenon
  <1>5. IsFiniteSet(S)
    BY <1>2, RequestsFinite, FS_Subset
  <1>6. IsFiniteSet({1}) /\ Cardinality({1}) = 1
    BY FS_Singleton
  <1>7. Cardinality(S \X {1}) = Cardinality(S) * Cardinality({1})
    BY <1>5, <1>6, FS_Product
  <1>8. Cardinality(S) \in Nat
    BY <1>5, FS_CardinalityType
  <1>9. Cardinality(S \X {1}) = Cardinality(S)
    BY <1>6, <1>7, <1>8
  <1> QED BY <1>4, <1>9, Zenon DEF S, g

\* LedgerExact, written with what the requests hold, in a state and the next.
LEMMA ExactIsCounted ==
    ASSUME req \in [Requests -> RequestType]
    PROVE  LedgerExact <=> Counted(req, ledger)
  <1>1. \A x : Held(x) = In(req, x)
    BY DEF Held, Admitted, In, Admits
  <1>2. \A x : ResidentUnits(x) = ResUnits(req, x)
    BY <1>1 DEF ResidentUnits, ResUnits
  <1>3. \A x : \A a \in Exec \cup {"transient", "temp"} : UnitsOf(x, a) = Pile(Amounts(req, x, a))
    BY <1>1, UnitsArePile DEF UnitsOf, Self
  <1>4. \A x : Cardinality({r \in Held(x) : req[r].active})
                 = Cardinality(Pile(Amounts(req, x, "running")))
    BY <1>1, RunningIsPile
  <1>5. Plain = (Exec \cup {"transient", "temp"}) \cup {"running"}
    BY DEF Plain
  <1> QED BY <1>2, <1>3, <1>4, <1>5, Zenon DEF LedgerExact, Counted

LEMMA ExactIsCountedNext ==
    ASSUME req' \in [Requests -> RequestType]
    PROVE  LedgerExact' <=> Counted(req', ledger')
  <1>1. \A x : Held(x)' = In(req', x)
    BY DEF Held, Admitted, In, Admits
  <1>2. \A x : ResidentUnits(x)' = ResUnits(req', x)
    BY <1>1 DEF ResidentUnits, ResUnits
  <1>3. \A x : \A a \in Exec \cup {"transient", "temp"} : UnitsOf(x, a)' = Pile(Amounts(req', x, a))
    BY <1>1, UnitsArePile DEF UnitsOf, Self
  <1>4. \A x : Cardinality({r \in Held(x)' : req'[r].active})
                 = Cardinality(Pile(Amounts(req', x, "running")))
    BY <1>1, RunningIsPile
  <1>5. Plain = (Exec \cup {"transient", "temp"}) \cup {"running"}
    BY DEF Plain
  <1> QED BY <1>2, <1>3, <1>4, <1>5, Zenon DEF LedgerExact, Counted

-----------------------------------------------------------------------------
(* Resident units. *)

\* Sharing and ResidentCharge, as functions of the requests rq.
SharingIn(rq, r) ==
    IF r[2] = "turn" \/ Demand[r[1]].key = None THEN {}
    ELSE {s \in Requests : /\ Admits(rq, s) /\ s # r /\ s[2] = "lease"
                           /\ Demand[s[1]].key = Demand[r[1]].key /\ RouteOf(s) = RouteOf(r)}

Largest(rq, r) == Max({Resident(s) : s \in SharingIn(rq, r)} \cup {0})

LEMMA ChargeIn ==
    ASSUME NEW r \in Requests
    PROVE  ResidentCharge(r) = Max({0, Resident(r) - Largest(req, r)})
  <1>1. Sharing(r) = SharingIn(req, r)
    BY DEF Sharing, SharingIn, Admitted, Admits
  <1> QED BY <1>1, Zenon DEF ResidentCharge, Largest

LEMMA ResidentType ==
    ASSUME NEW r \in Requests
    PROVE  /\ Resident(r) \in Nat /\ RouteOf(r) \in Routes
           /\ r[1] \in Jobs /\ r[2] \in {"lease", "turn"} /\ r = <<r[1], r[2]>>
  BY CoordinatorConstants DEF CoordinatorConstants, Resident, RouteOf, Requests

\* The largest claim is one of them, or nothing.
LEMMA LargestIs ==
    ASSUME NEW rq, NEW r \in Requests
    PROVE  /\ Largest(rq, r) \in Nat
           /\ Largest(rq, r) = 0 \/ \E s \in SharingIn(rq, r) : Resident(s) = Largest(rq, r)
           /\ \A s \in SharingIn(rq, r) : Resident(s) <= Largest(rq, r)
  <1> DEFINE S == SharingIn(rq, r)
             T == {Resident(s) : s \in S}
             f == [s \in S |-> Resident(s)]
  <1>1. S \subseteq Requests
    BY DEF SharingIn
  <1>2. IsFiniteSet(S)
    BY <1>1, RequestsFinite, FS_Subset
  <1>3. f \in Surjection(S, T)
    BY DEF Surjection
  <1>4. IsFiniteSet(T)
    BY <1>2, <1>3, FS_Surjection
  <1>5. IsFiniteSet(T \cup {0})
    BY <1>4, FS_AddElement
  <1>6. \A s \in S : Resident(s) \in Nat
    BY <1>1, ResidentType
  <1> DEFINE W == T \cup {0}
  <1>7. W \in SUBSET Int /\ IsFiniteSet(W) /\ W # {}
    BY <1>5, <1>6
  <1>8. Largest(rq, r) = Max(W)
    BY DEF Largest
  <1> HIDE DEF W
  <1>9. Max(W) \in W /\ \A y \in W : y <= Max(W)
    BY <1>7, Greatest
  <1>10. Max(W) = 0 \/ \E s \in S : Max(W) = Resident(s)
    BY <1>9 DEF W
  <1>11. \A s \in S : Resident(s) \in W
    BY DEF W
  <1> HIDE DEF S
  <1>12. Max(W) \in Nat
    BY <1>6, <1>10
  <1>13. \A s \in S : Resident(s) <= Max(W)
    BY <1>9, <1>11
  <1> QED BY <1>8, <1>10, <1>12, <1>13 DEF S

\* What a newcomer adds to the largest claim.
LEMMA ChargeIs ==
    ASSUME NEW r \in Requests
    PROVE  /\ ResidentCharge(r) \in Nat
           /\ ResidentCharge(r) = IF Resident(r) > Largest(req, r)
                                  THEN Resident(r) - Largest(req, r) ELSE 0
           /\ r[2] = "turn" => ResidentCharge(r) = 0
  <1>1. Resident(r) \in Nat /\ Largest(req, r) \in Nat
    BY ResidentType, LargestIs
  <1> DEFINE d == Resident(r) - Largest(req, r)
  <1>2. d \in Int /\ 0 \in Int /\ ResidentCharge(r) = Max({0, d})
    BY <1>1, ChargeIn
  <1>3. Max({0, d}) = IF 0 >= d THEN 0 ELSE d
    <2> HIDE DEF d
    <2> QED BY <1>2, MinMaxPair
  <1>4. r[2] = "turn" => Resident(r) = 0
    BY DEF Resident
  <1> QED BY <1>1, <1>2, <1>3, <1>4

\* A resident unit is that of an admitted lease.
LEMMA ResUnitsMember ==
    ASSUME NEW rq, NEW x, NEW u
    PROVE  u \in ResUnits(rq, x) <=>
              \E r \in Requests : /\ r[2] = "lease" /\ Admits(rq, r) /\ x \in {0, RouteOf(r)}
                                  /\ u \in {Holder(r)} \X (1 .. Resident(r))
  <1>1. u \in ResUnits(rq, x) <=>
           \E r \in In(rq, x) : u \in {Holder(r)} \X (1 .. Resident(r))
    BY DEF ResUnits, Units, In
  <1>2. \A r \in Requests : r[2] # "lease" => {Holder(r)} \X (1 .. Resident(r)) = {}
    BY DEF Resident
  <1> QED BY <1>1, <1>2 DEF In

LEMMA ResUnitsFinite ==
    ASSUME NEW rq, NEW x
    PROVE  IsFiniteSet(ResUnits(rq, x))
  <1> DEFINE n == [r \in Requests |-> Resident(r)]
  <1>1. In(rq, x) \subseteq Requests /\ IsFiniteSet(In(rq, x))
    BY RequestsFinite, FS_Subset DEF In
  <1>2. \A r \in In(rq, x) : n[r] \in Nat
    BY <1>1, ResidentType
  <1> QED BY <1>1, <1>2, UnitsFinite DEF ResUnits

\* Resident units depend on which leases are admitted only.
LEMMA ResidentSame ==
    ASSUME NEW rq, NEW rq2, NEW x,
           \A r \in Requests : r[2] = "lease" => (Admits(rq, r) <=> Admits(rq2, r))
    PROVE  ResUnits(rq2, x) = ResUnits(rq, x)
  <1>1. ASSUME NEW u PROVE u \in ResUnits(rq2, x) <=> u \in ResUnits(rq, x)
    BY ResUnitsMember
  <1> QED BY <1>1, Zenon

\* The charge of a lease depends on which other leases are admitted only.
LEMMA LargestSame ==
    ASSUME NEW rq, NEW rq2, NEW l \in Requests,
           \A r \in Requests : r[2] = "lease" /\ r # l => (Admits(rq, r) <=> Admits(rq2, r))
    PROVE  Largest(rq2, l) = Largest(rq, l)
  <1>1. SharingIn(rq2, l) = SharingIn(rq, l)
    BY DEF SharingIn
  <1> QED BY <1>1, Zenon DEF Largest

\* A lease that joins adds what it claims beyond the largest claim on its key,
\* in the ledger and in its route, and nothing elsewhere.
LEMMA ResidentJoin ==
    ASSUME NEW rq, NEW rq2, NEW j \in Jobs, ~Admits(rq, Lease(j)), Admits(rq2, Lease(j)),
           \A r \in Requests : r[2] = "lease" /\ r # Lease(j) => (Admits(rq, r) <=> Admits(rq2, r)),
           NEW x
    PROVE  IF x \in {0, RouteOf(Lease(j))}
           THEN Cardinality(ResUnits(rq2, x)) = Cardinality(ResUnits(rq, x))
                   + IF Resident(Lease(j)) > Largest(rq, Lease(j))
                     THEN Resident(Lease(j)) - Largest(rq, Lease(j)) ELSE 0
           ELSE ResUnits(rq2, x) = ResUnits(rq, x)
  <1> DEFINE l == Lease(j)
             n == Resident(l)
             m == Largest(rq, l)
  <1>1. l \in Requests /\ l[2] = "lease" /\ l[1] = j
    BY DEF Lease, Requests
  <1>2. n \in Nat /\ m \in Nat
    BY <1>1, ResidentType, LargestIs
  <1>3. ASSUME x \in {0, RouteOf(l)}
        PROVE  ResUnits(rq2, x) = ResUnits(rq, x) \cup ({Holder(l)} \X (1 .. n))
    <2>1. ASSUME NEW u
          PROVE  u \in ResUnits(rq2, x) <=>
                    u \in ResUnits(rq, x) \/ u \in {Holder(l)} \X (1 .. n)
      <3> HIDE DEF l
      <3> QED BY <1>1, <1>3, ResUnitsMember DEF l
    <2>2. ASSUME NEW u
          PROVE  u \in ResUnits(rq2, x) <=> u \in ResUnits(rq, x) \cup ({Holder(l)} \X (1 .. n))
      BY <2>1, Zenon
    <2> QED BY <2>2, Zenon
  <1>4. ASSUME x \in {0, RouteOf(l)} PROVE Filled(ResUnits(rq, x), Holder(l), m)
    <2>1. SUFFICES ASSUME NEW k \in Nat
                   PROVE  <<Holder(l), k>> \in ResUnits(rq, x) <=> k \in 1 .. m
      BY DEF Filled
    <2>2. <<Holder(l), k>> \in ResUnits(rq, x) <=>
             \E r \in Requests : /\ r[2] = "lease" /\ Admits(rq, r) /\ x \in {0, RouteOf(r)}
                                 /\ <<Holder(l), k>> \in {Holder(r)} \X (1 .. Resident(r))
      BY ResUnitsMember
    <2>3. ASSUME NEW r \in Requests, r[2] = "lease", Admits(rq, r)
          PROVE  Holder(r) = Holder(l) <=> r \in SharingIn(rq, l)
      <3>1. r # l /\ r[1] # j
        BY <1>1, <2>3, ResidentType DEF Lease
      <3> QED BY <1>1, <2>3, <3>1 DEF Holder, SharingIn
    <2>4. ASSUME NEW r \in SharingIn(rq, l)
          PROVE  /\ r \in Requests /\ r[2] = "lease" /\ Admits(rq, r) /\ x \in {0, RouteOf(r)}
                 /\ Resident(r) \in Nat
      <3>1. r \in Requests /\ r[2] = "lease" /\ Admits(rq, r) /\ RouteOf(r) = RouteOf(l)
        BY <2>4 DEF SharingIn
      <3> QED BY <1>4, <3>1, ResidentType
    <2>5. <<Holder(l), k>> \in ResUnits(rq, x) <=> \E r \in SharingIn(rq, l) : k \in 1 .. Resident(r)
      BY <2>2, <2>3, <2>4
    <2>6. /\ m = 0 \/ \E s \in SharingIn(rq, l) : Resident(s) = m
          /\ \A s \in SharingIn(rq, l) : Resident(s) <= m
      BY <1>1, LargestIs
    <2> QED BY <1>2, <2>4, <2>5, <2>6
  <1>5. ASSUME x \in {0, RouteOf(l)}
        PROVE  Cardinality(ResUnits(rq2, x)) = Cardinality(ResUnits(rq, x))
                  + IF n > m THEN n - m ELSE 0
    <2>1. IsFiniteSet(ResUnits(rq, x))
      BY ResUnitsFinite
    <2> HIDE DEF l, n, m
    <2>2. Cardinality(ResUnits(rq, x) \cup ({Holder(l)} \X (1 .. n)))
             = Cardinality(ResUnits(rq, x)) + IF n > m THEN n - m ELSE 0
      BY <1>2, <1>4, <1>5, <2>1, RaiseColumn
    <2> QED BY <1>3, <1>5, <2>2, Zenon
  <1>6. ASSUME x \notin {0, RouteOf(l)} PROVE ResUnits(rq2, x) = ResUnits(rq, x)
    <2>1. ASSUME NEW u PROVE u \in ResUnits(rq2, x) <=> u \in ResUnits(rq, x)
      BY <1>6, ResUnitsMember
    <2> QED BY <2>1, Zenon
  <1> QED BY <1>5, <1>6

-----------------------------------------------------------------------------
(* One change of the ledger. *)

\* The accounts lg after the change c on the route x0, and on the whole.
Changed(lg, x0, c) ==
    [x \in 0 .. NRoutes |-> IF x \in {0, x0} THEN [a \in Accounts |-> lg[x][a] + c[a]] ELSE lg[x]]

\* c is what the step from rq to rq2 changes of what job j holds.
Settles(rq, rq2, j, c) ==
    /\ \A a \in Plain :
          c[a] = (Hold(rq2[Lease(j)], a) - Hold(rq[Lease(j)], a))
                    + (Hold(rq2[Turn(j)], a) - Hold(rq[Turn(j)], a))
    /\ \A r \in Requests : r # Lease(j) /\ r # Turn(j) =>
          \A a \in Plain : Hold(rq2[r], a) = Hold(rq[r], a)
    /\ c["reserved"] = c["resident"] + c["transient"]

\* c is what the step changes of the resident units.
SettlesResident(rq, rq2, j, c) ==
    \A x \in 0 .. NRoutes :
        IF x \in {0, RouteOf(Lease(j))}
        THEN Cardinality(ResUnits(rq2, x)) = Cardinality(ResUnits(rq, x)) + c["resident"]
        ELSE ResUnits(rq2, x) = ResUnits(rq, x)

\* A ledger that is exact stays exact when it is changed by just that.
LEMMA LedgerStep ==
    ASSUME NEW rq \in [Requests -> RequestType], NEW rq2 \in [Requests -> RequestType],
           NEW j \in Jobs, NEW lg \in [0 .. NRoutes -> [Accounts -> Int]], Counted(rq, lg),
           NEW c \in [Accounts -> Int], Settles(rq, rq2, j, c), SettlesResident(rq, rq2, j, c)
    PROVE  Counted(rq2, Changed(lg, RouteOf(Lease(j)), c))
  <1> DEFINE x0 == RouteOf(Lease(j))
             lg2 == Changed(lg, x0, c)
  <1>1. Lease(j) \in Requests /\ Turn(j) \in Requests /\ RouteOf(Turn(j)) = x0
    BY DEF Lease, Turn, Requests, RouteOf
  <1> SUFFICES ASSUME NEW x \in 0 .. NRoutes
               PROVE  /\ lg2[x]["resident"] = Cardinality(ResUnits(rq2, x))
                      /\ lg2[x]["reserved"] = lg2[x]["resident"] + lg2[x]["transient"]
                      /\ \A a \in Plain : lg2[x][a] = Cardinality(Pile(Amounts(rq2, x, a)))
    BY DEF Counted
  <1>2. /\ lg[x]["resident"] = Cardinality(ResUnits(rq, x))
        /\ lg[x]["reserved"] = lg[x]["resident"] + lg[x]["transient"]
        /\ \A a \in Plain : lg[x][a] = Cardinality(Pile(Amounts(rq, x, a)))
    BY DEF Counted
  <1>3. Plain \subseteq Accounts /\ {"resident", "reserved", "transient"} \subseteq Accounts
    BY DEF Plain, Accounts, Exec
  <1>4. CASE x \in {0, x0}
    <2>1. \A a \in Accounts : lg2[x][a] = lg[x][a] + c[a]
      BY <1>4 DEF Changed
    <2>2. \A a \in Accounts : lg[x][a] \in Int /\ c[a] \in Int
      OBVIOUS
    <2>3. lg2[x]["resident"] = Cardinality(ResUnits(rq2, x))
      BY <1>2, <1>3, <1>4, <2>1 DEF SettlesResident
    <2>4. lg2[x]["reserved"] = lg2[x]["resident"] + lg2[x]["transient"]
      BY <1>2, <1>3, <2>1, <2>2 DEF Settles
    <2>5. ASSUME NEW a \in Plain PROVE lg2[x][a] = Cardinality(Pile(Amounts(rq2, x, a)))
      <3> DEFINE f == Amounts(rq, x, a)
                 g == Amounts(rq2, x, a)
      <3>1. f \in [Requests -> Nat] /\ g \in [Requests -> Nat]
        BY AmountsType
      <3>2. \A r \in Requests : r # Lease(j) /\ r # Turn(j) => g[r] = f[r]
        BY DEF Settles, Amounts
      <3>3. /\ f[Lease(j)] = Hold(rq[Lease(j)], a) /\ g[Lease(j)] = Hold(rq2[Lease(j)], a)
            /\ f[Turn(j)] = Hold(rq[Turn(j)], a) /\ g[Turn(j)] = Hold(rq2[Turn(j)], a)
        BY <1>1, <1>4 DEF Amounts
      <3>4. c[a] = (g[Lease(j)] - f[Lease(j)]) + (g[Turn(j)] - f[Turn(j)])
        BY <3>3 DEF Settles
      <3>5. /\ lg[x][a] \in Int /\ lg2[x][a] = lg[x][a] + c[a]
            /\ lg[x][a] = Cardinality(Pile(f))
        BY <1>2, <1>3, <2>1, <2>2
      <3>6. /\ g[Lease(j)] \in Nat /\ f[Lease(j)] \in Nat
            /\ g[Turn(j)] \in Nat /\ f[Turn(j)] \in Nat
        BY <1>1, <3>1
      <3> HIDE DEF f, g, lg2
      <3>7. Cardinality(Pile(g)) =
               Cardinality(Pile(f)) + (g[Lease(j)] - f[Lease(j)]) + (g[Turn(j)] - f[Turn(j)])
        BY <3>1, <3>2, PileJob
      <3>8. lg2[x][a] = Cardinality(Pile(g))
        BY <3>4, <3>5, <3>6, <3>7
      <3> QED BY <3>8 DEF g
    <2> QED BY <2>3, <2>4, <2>5
  <1>5. CASE x \notin {0, x0}
    <2>1. lg2[x] = lg[x]
      BY <1>5 DEF Changed
    <2>2. ResUnits(rq2, x) = ResUnits(rq, x)
      BY <1>5 DEF SettlesResident
    <2>3. ASSUME NEW a \in Plain PROVE Amounts(rq2, x, a) = Amounts(rq, x, a)
      <3>1. \A r \in Requests : x \in {0, RouteOf(r)} => r # Lease(j) /\ r # Turn(j)
        BY <1>1, <1>5
      <3> QED BY <3>1 DEF Settles, Amounts
    <2> QED BY <1>2, <2>1, <2>2, <2>3, Zenon
  <1> QED BY <1>4, <1>5

\* Counts are natural numbers.
LEMMA CountsAreNat ==
    ASSUME NEW rq \in [Requests -> RequestType], NEW lg \in [0 .. NRoutes -> [Accounts -> Int]],
           Counted(rq, lg)
    PROVE  lg \in [0 .. NRoutes -> [Accounts -> Nat]]
  <1>1. ASSUME NEW x \in 0 .. NRoutes, NEW a \in Accounts PROVE lg[x][a] \in Nat
    <2>1. a \in Plain => lg[x][a] \in Nat
      <3>1. ASSUME a \in Plain PROVE IsFiniteSet(Pile(Amounts(rq, x, a)))
        BY <3>1, AmountsType, UnitsFinite, RequestsFinite DEF Pile
      <3> QED BY <3>1, FS_CardinalityType DEF Counted
    <2>2. lg[x]["resident"] \in Nat
      BY ResUnitsFinite, FS_CardinalityType DEF Counted
    <2>3. lg[x]["transient"] \in Nat
      <3>1. "transient" \in Plain
        BY DEF Plain
      <3>2. IsFiniteSet(Pile(Amounts(rq, x, "transient")))
        BY <3>1, AmountsType, UnitsFinite, RequestsFinite DEF Pile
      <3> QED BY <3>1, <3>2, FS_CardinalityType DEF Counted
    <2>4. lg[x]["reserved"] \in Nat
      BY <2>2, <2>3 DEF Counted
    <2> QED BY <2>1, <2>2, <2>4 DEF Accounts, Plain
  <1> QED BY <1>1

-----------------------------------------------------------------------------
(* Observation and selection. *)

\* An observation is within the configured capacity.
LEMMA ObservationType ==
    ASSUME view \in ViewType, sample \in Samples
    PROVE  Observation \in ViewType
  <1> USE CoordinatorConstants
  <1>1. /\ CpuSlots \in Nat \ {0} /\ sample.slots \in Nat \ {0}
        /\ sample.external \in Nat \cup {None} /\ None \notin Nat
    BY DEF CoordinatorConstants, Sample
  <1>2. /\ view.mem \in BOOLEAN /\ view.cpu \in BOOLEAN /\ view.io \in BOOLEAN
        /\ view.eff \in 0 .. CpuSlots /\ view.known \in BOOLEAN
    BY DEF ViewType
  <1> DEFINE capacity == Min({CpuSlots, sample.slots})
             known == sample.external # None
             free == IF known THEN Max({0, capacity - sample.external})
                     ELSE IF view.known THEN Min({capacity, view.eff}) ELSE capacity
  <1>3. capacity \in 1 .. CpuSlots
    <2>1. CpuSlots \in Int /\ sample.slots \in Int
      BY <1>1
    <2> QED BY <1>1, <2>1, MinMaxPair
  <1> HIDE DEF capacity
  <1>4. free \in 0 .. CpuSlots
    <2>1. CASE known
      <3> DEFINE d == capacity - sample.external
      <3>1. d \in Int /\ 0 \in Int /\ d <= CpuSlots
        BY <1>1, <1>3, <2>1
      <3>2. free = Max({0, d})
        BY <2>1
      <3> HIDE DEF d, free
      <3>3. Max({0, d}) = IF 0 >= d THEN 0 ELSE d
        BY <3>1, MinMaxPair
      <3> QED BY <1>1, <3>1, <3>2, <3>3
    <2>2. CASE ~known
      <3>1. capacity \in Int /\ view.eff \in Int
        BY <1>1, <1>2, <1>3
      <3>2. Min({capacity, view.eff}) \in 0 .. CpuSlots
        BY <1>1, <1>2, <1>3, <3>1, MinMaxPair
      <3> QED BY <1>3, <2>2, <3>2
    <2> QED BY <2>1, <2>2
  <1> HIDE DEF free, known
  <1>5. Observation.eff = free /\ Observation.native = capacity
    BY DEF Observation, free, capacity, known
  <1>6. /\ Observation.mem \in BOOLEAN /\ Observation.io \in BOOLEAN
        /\ Observation.cpu \in BOOLEAN /\ Observation.known \in BOOLEAN
    BY <1>2 DEF Observation, Latched, known
  <1>7. Observation = [mem |-> Observation.mem, cpu |-> Observation.cpu, io |-> Observation.io,
                       eff |-> Observation.eff, native |-> Observation.native,
                       known |-> Observation.known]
    BY DEF Observation
  <1> QED BY <1>3, <1>4, <1>5, <1>6, <1>7 DEF ViewType

\* rq differs from the requests in the width of waiting leases only.
Widened(rq) ==
    /\ GoodAll(rq)
    /\ \A r \in Requests :
          /\ ~Waiting(r) => rq[r] = req[r]
          /\ rq[r].st = req[r].st /\ rq[r].mode = req[r].mode
          /\ rq[r].transient = req[r].transient /\ rq[r].temp = req[r].temp

\* The head of a queue waits.
LEMMA HeadWaits ==
    ASSUME QueueInv, NEW x \in Routes, queue[x] # <<>>
    PROVE  /\ queue[x][1] \in Requests /\ Waiting(queue[x][1]) /\ RouteOf(queue[x][1]) = x
           /\ 1 \in 1 .. Len(queue[x])
  <1>1. queue[x] \in Seq(Requests)
    BY DEF QueueInv, Queued
  <1>2. 1 \in 1 .. Len(queue[x]) /\ queue[x][1] \in Requests
    BY <1>1
  <1>3. queue[x][1] \in {r \in Requests : req[r].st = "queued" /\ RouteOf(r) = x}
    BY <1>2 DEF QueueInv, Queued, Elem
  <1> QED BY <1>2, <1>3 DEF Waiting

\* A request with another width is a request.
LEMMA WidthType ==
    ASSUME NEW q \in RequestType, NEW w \in 0 .. CpuSlots
    PROVE  /\ [q EXCEPT !.cpu = w, !.native = w] \in RequestType
           /\ [q EXCEPT !.cpu = w, !.native = w].st = q.st
           /\ [q EXCEPT !.cpu = w, !.native = w].mode = q.mode
           /\ [q EXCEPT !.cpu = w, !.native = w].transient = q.transient
           /\ [q EXCEPT !.cpu = w, !.native = w].temp = q.temp
           /\ [q EXCEPT !.cpu = w, !.native = w].active = q.active
  BY DEF RequestType

\* One pass over the heads keeps the requests in order.
LEMMA AdaptedWidens ==
    ASSUME ReqInv, QueueInv, ledger \in [0 .. NRoutes -> [Accounts -> Nat]],
           NEW v \in ViewType
    PROVE  Widened(Adapted(v))
  <1> USE CoordinatorConstants
  <1> DEFINE free == Min({v.eff - ledger[0]["cpu"], Min({v.native, v.eff}) - ledger[0]["native"]})
             width(j) == Max({1, Min({free, Demand[j].limit})})
             heads == {queue[x][1] : x \in {y \in Routes : queue[y] # <<>>}}
  <1>1. /\ CpuSlots \in Nat \ {0} /\ v.eff \in 0 .. CpuSlots /\ v.native \in 1 .. CpuSlots
        /\ ledger[0]["cpu"] \in Nat /\ ledger[0]["native"] \in Nat
    <2>1. 0 \in 0 .. NRoutes /\ "cpu" \in Accounts /\ "native" \in Accounts
      BY DEF CoordinatorConstants, Accounts, Exec
    <2>2. v.eff \in 0 .. CpuSlots /\ v.native \in 1 .. CpuSlots
      BY DEF ViewType
    <2> QED BY <2>1, <2>2 DEF CoordinatorConstants
  <1>2. free \in Int /\ free <= CpuSlots
    <2>1. v.eff - ledger[0]["cpu"] \in Int /\ v.eff \in Int /\ v.native \in Int
      BY <1>1
    <2>2. Min({v.native, v.eff}) = IF v.native <= v.eff THEN v.native ELSE v.eff
      BY <2>1, MinMaxPair
    <2> DEFINE b == Min({v.native, v.eff}) - ledger[0]["native"]
               a == v.eff - ledger[0]["cpu"]
    <2>3. b \in Int /\ b <= CpuSlots /\ a \in Int /\ a <= CpuSlots
      BY <1>1, <2>2
    <2> HIDE DEF a, b
    <2>4. Min({a, b}) = IF a <= b THEN a ELSE b
      BY <2>3, MinMaxPair
    <2>5. Min({a, b}) \in Int /\ Min({a, b}) <= CpuSlots
      BY <1>1, <2>3, <2>4
    <2> QED BY <2>5 DEF a, b
  <1> HIDE DEF free
  <1>3. ASSUME NEW j \in Jobs PROVE width(j) \in 0 .. CpuSlots
    <2>1. Demand[j].limit \in Nat
      BY DEF CoordinatorConstants
    <2> DEFINE a == Min({free, Demand[j].limit})
    <2>2. a = IF free <= Demand[j].limit THEN free ELSE Demand[j].limit
      <3> DEFINE n == Demand[j].limit
      <3>1. n \in Int
        BY <2>1
      <3> HIDE DEF n
      <3>2. Min({free, n}) = IF free <= n THEN free ELSE n
        BY <1>2, <3>1, MinMaxPair
      <3> QED BY <3>2 DEF n
    <2>3. a \in Int /\ 1 \in Int /\ a <= CpuSlots
      BY <1>1, <1>2, <2>1, <2>2
    <2> HIDE DEF a
    <2>4. Max({1, a}) = IF 1 >= a THEN 1 ELSE a
      BY <2>3, MinMaxPair
    <2>5. Max({1, a}) \in 0 .. CpuSlots
      BY <1>1, <2>3, <2>4
    <2> QED BY <2>5 DEF a
  <1>4. \A r \in heads : r \in Requests /\ Waiting(r)
    BY HeadWaits
  <1>5. ASSUME NEW r \in Requests
        PROVE  Adapted(v)[r] = IF r \in heads /\ r[2] = "lease" /\ Demand[r[1]].adaptive
                               THEN [req[r] EXCEPT !.cpu = width(r[1]), !.native = width(r[1])]
                               ELSE req[r]
    BY DEF Adapted, free
  <1> HIDE DEF heads, width
  <1>6. ASSUME NEW r \in Requests
        PROVE  /\ Adapted(v)[r] \in RequestType /\ Good(r, Adapted(v)[r])
               /\ ~Waiting(r) => Adapted(v)[r] = req[r]
               /\ Adapted(v)[r].st = req[r].st /\ Adapted(v)[r].mode = req[r].mode
               /\ Adapted(v)[r].transient = req[r].transient /\ Adapted(v)[r].temp = req[r].temp
    <2>1. req[r] \in RequestType /\ Good(r, req[r]) /\ r[1] \in Jobs
      BY ResidentType DEF ReqInv, GoodAll
    <2>2. CASE r \in heads /\ r[2] = "lease" /\ Demand[r[1]].adaptive
      <3> DEFINE q == [req[r] EXCEPT !.cpu = width(r[1]), !.native = width(r[1])]
      <3>1. /\ q \in RequestType /\ q.st = req[r].st /\ q.mode = req[r].mode
            /\ q.transient = req[r].transient /\ q.temp = req[r].temp /\ q.active = req[r].active
        BY <1>3, <2>1, WidthType
      <3>2. Adapted(v)[r] = q
        BY <1>5, <2>2
      <3>3. req[r].st = "queued" /\ Waiting(r)
        BY <1>4, <2>2 DEF Waiting
      <3> HIDE DEF q
      <3>4. Good(r, q)
        BY <2>1, <3>1, <3>3 DEF Good
      <3> QED BY <3>1, <3>2, <3>3, <3>4
    <2>3. CASE ~(r \in heads /\ r[2] = "lease" /\ Demand[r[1]].adaptive)
      <3>1. Adapted(v)[r] = req[r]
        BY <1>5, <2>3
      <3> QED BY <2>1, <3>1
    <2> QED BY <2>2, <2>3
  <1>7. Adapted(v) = [r \in Requests |-> Adapted(v)[r]]
    BY DEF Adapted
  <1> QED BY <1>6, <1>7 DEF Widened, GoodAll

\* The selected route, if any, is one of those that fit.
LEMMA PreferredIn ==
    ASSUME last \in 0 .. NRoutes, ledger \in [0 .. NRoutes -> [Accounts -> Nat]],
           NEW S \in SUBSET Routes, NEW q
    PROVE  Preferred(S, q) \in S \cup {None}
  <1> USE CoordinatorConstants
  <1> DEFINE D == {x \in S : q[queue[x][1]].mode = "drain"}
             F == {x \in S : ledger[x]["cpu"] = 0}
             drains == \E x \in S : q[queue[x][1]].mode = "drain"
             busy == \A x \in S : q[queue[x][1]].mode # "drain" /\ ledger[x]["cpu"] > 0
  <1>1. Preferred(S, q) = CASE drains -> RoundRobin(D)
                            [] busy -> (IF S = {} THEN None ELSE RoundRobin(S))
                            [] OTHER -> RoundRobin(F)
    BY DEF Preferred
  <1>2. CASE drains
    <2>1. D \in SUBSET Routes /\ D # {} /\ D \subseteq S
      BY <1>2
    <2>2. ~(drains /\ busy)
      OBVIOUS
    <2> HIDE DEF D, drains, busy
    <2>3. RoundRobin(D) \in D
      BY <2>1, RoundRobinIn
    <2>4. Preferred(S, q) = RoundRobin(D)
      BY <1>1, <1>2, <2>2
    <2> QED BY <2>1, <2>3, <2>4
  <1>3. CASE ~drains /\ busy
    <2>1. S # {} => RoundRobin(S) \in S
      BY RoundRobinIn
    <2> HIDE DEF drains, busy
    <2> QED BY <1>1, <1>3, <2>1
  <1>4. CASE ~drains /\ ~busy
    <2>1. \A x \in S : ledger[x]["cpu"] \in Nat
      BY DEF Routes, Accounts, Exec
    <2>2. F \in SUBSET Routes /\ F # {} /\ F \subseteq S
      BY <1>4, <2>1
    <2> HIDE DEF F, drains, busy
    <2>3. RoundRobin(F) \in F
      BY <2>2, RoundRobinIn
    <2>4. Preferred(S, q) = RoundRobin(F)
      BY <1>1, <1>4
    <2> QED BY <2>2, <2>3, <2>4
  <1> QED BY <1>2, <1>3, <1>4

\* Whoever is chosen fits.
LEMMA ChosenFits ==
    ASSUME QueueInv, last \in 0 .. NRoutes, ledger \in [0 .. NRoutes -> [Accounts -> Nat]],
           NEW r \in Requests, NEW p, Waiting(r), Chosen(r, p)
    PROVE  /\ queue[RouteOf(r)] # <<>> /\ queue[RouteOf(r)][1] = r
           /\ Fits(r, p.req[r], p.view)
  <1> USE CoordinatorConstants
  <1> DEFINE T == {x \in Routes : /\ queue[x] # <<>>
                                  /\ Fits(queue[x][1], p.req[queue[x][1]], p.view)}
  <1>1. NextRoute(p.req, p.view) = Preferred(T, p.req)
    BY DEF NextRoute
  <1>2. T \in SUBSET Routes
    OBVIOUS
  <1>3. RouteOf(r) \in Routes /\ None \notin Routes
    BY ResidentType DEF CoordinatorConstants, Routes
  <1>4. queue[RouteOf(r)][1] = r /\ NextRoute(p.req, p.view) = RouteOf(r)
    BY DEF Chosen
  <1> HIDE DEF T
  <1>5. RouteOf(r) \in T
    BY <1>1, <1>2, <1>3, <1>4, PreferredIn
  <1> QED BY <1>4, <1>5 DEF T

-----------------------------------------------------------------------------
(* Queues. *)

LEMMA TailElem ==
    ASSUME NEW T, NEW s \in Seq(T), s # <<>>, Inj(s)
    PROVE  Tail(s) \in Seq(T) /\ Inj(Tail(s)) /\ Elem(Tail(s)) = Elem(s) \ {s[1]}
  <1> DEFINE t == Tail(s)
  <1>1. t \in Seq(T) /\ Len(t) = Len(s) - 1 /\ Len(s) \in Nat \ {0}
        /\ \A i \in 1 .. Len(t) : t[i] = s[i + 1]
    OBVIOUS
  <1> HIDE DEF t
  <1>2. Inj(t)
    <2>1. \A i \in 1 .. Len(t) : i \in Int /\ i + 1 \in 1 .. Len(s)
      BY <1>1
    <2> QED BY <1>1, <2>1 DEF Inj
  <1>3. ASSUME NEW u PROVE u \in Elem(t) <=> u \in Elem(s) /\ u # s[1]
    <2>1. ASSUME u \in Elem(t) PROVE u \in Elem(s) /\ u # s[1]
      <3>1. PICK i \in 1 .. Len(t) : u = t[i]
        BY <2>1 DEF Elem
      <3>2. u = s[i + 1] /\ i + 1 \in 1 .. Len(s) /\ 1 \in 1 .. Len(s) /\ i + 1 # 1
        BY <1>1, <3>1
      <3> QED BY <3>2 DEF Elem, Inj
    <2>2. ASSUME u \in Elem(s), u # s[1] PROVE u \in Elem(t)
      <3>1. PICK i \in 1 .. Len(s) : u = s[i]
        BY <2>2 DEF Elem
      <3>2. i - 1 \in 1 .. Len(t) /\ (i - 1) + 1 = i
        BY <1>1, <2>2, <3>1
      <3>3. t[i - 1] = u
        BY <1>1, <3>1, <3>2
      <3> QED BY <3>2, <3>3 DEF Elem
    <2> QED BY <2>1, <2>2
  <1>4. Elem(t) = Elem(s) \ {s[1]}
    BY <1>3
  <1> QED BY <1>1, <1>2, <1>4 DEF t

LEMMA AppendElem ==
    ASSUME NEW T, NEW s \in Seq(T), NEW r \in T, Inj(s), r \notin Elem(s)
    PROVE  Append(s, r) \in Seq(T) /\ Inj(Append(s, r)) /\ Elem(Append(s, r)) = Elem(s) \cup {r}
  <1> DEFINE t == Append(s, r)
             n == Len(s)
  <1>1. /\ t \in Seq(T) /\ Len(t) = n + 1 /\ n \in Nat /\ t[n + 1] = r
        /\ \A i \in 1 .. n : t[i] = s[i]
    OBVIOUS
  <1>2. \A i \in 1 .. n : s[i] # r
    BY DEF Elem
  <1> HIDE DEF t
  <1>3. \A i \in 1 .. Len(t) : i \in 1 .. n \/ i = n + 1
    BY <1>1
  <1>4. Inj(t)
    BY <1>1, <1>2, <1>3 DEF Inj
  <1>5. ASSUME NEW u PROVE u \in Elem(t) <=> u \in Elem(s) \/ u = r
    <2>1. \A i \in 1 .. n : i \in 1 .. Len(t)
      BY <1>1
    <2>2. n + 1 \in 1 .. Len(t)
      BY <1>1
    <2> QED BY <1>1, <1>3, <2>1, <2>2 DEF Elem
  <1>6. Elem(t) = Elem(s) \cup {r}
    BY <1>5
  <1> QED BY <1>1, <1>4, <1>6 DEF t

LEMMA PrependElem ==
    ASSUME NEW T, NEW s \in Seq(T), NEW r \in T, Inj(s), r \notin Elem(s)
    PROVE  /\ <<r>> \o s \in Seq(T) /\ Inj(<<r>> \o s) /\ Elem(<<r>> \o s) = Elem(s) \cup {r}
  <1> DEFINE t == <<r>> \o s
             n == Len(s)
  <1>1. /\ t \in Seq(T) /\ Len(t) = n + 1 /\ n \in Nat /\ t[1] = r
        /\ \A i \in 2 .. n + 1 : t[i] = s[i - 1]
    OBVIOUS
  <1>2. \A i \in 1 .. n : s[i] # r
    BY DEF Elem
  <1> HIDE DEF t
  <1>3. \A i \in 1 .. Len(t) : i = 1 \/ (i \in 2 .. n + 1 /\ i - 1 \in 1 .. n)
    BY <1>1
  <1>4. Inj(t)
    BY <1>1, <1>2, <1>3 DEF Inj
  <1>5. ASSUME NEW u PROVE u \in Elem(t) <=> u \in Elem(s) \/ u = r
    <2>1. ASSUME u \in Elem(t) PROVE u \in Elem(s) \/ u = r
      BY <1>1, <1>3, <2>1 DEF Elem
    <2>2. ASSUME u \in Elem(s) PROVE u \in Elem(t)
      <3>1. PICK i \in 1 .. n : u = s[i]
        BY <2>2 DEF Elem
      <3>2. i + 1 \in 1 .. Len(t) /\ i + 1 \in 2 .. n + 1 /\ (i + 1) - 1 = i
        BY <1>1
      <3>3. t[i + 1] = u
        BY <1>1, <3>1, <3>2
      <3> QED BY <3>2, <3>3 DEF Elem
    <2>3. 1 \in 1 .. Len(t)
      BY <1>1
    <2> QED BY <1>1, <2>1, <2>2, <2>3 DEF Elem
  <1>6. Elem(t) = Elem(s) \cup {r}
    BY <1>5
  <1> QED BY <1>1, <1>4, <1>6 DEF t

LEMMA RemoveElem ==
    ASSUME NEW T, NEW s \in Seq(T), NEW i \in 1 .. Len(s), Inj(s)
    PROVE  LET t == SubSeq(s, 1, i - 1) \o SubSeq(s, i + 1, Len(s))
           IN  t \in Seq(T) /\ Inj(t) /\ Elem(t) = Elem(s) \ {s[i]}
  <1> DEFINE a == SubSeq(s, 1, i - 1)
             b == SubSeq(s, i + 1, Len(s))
             t == a \o b
             n == Len(s)
  <1>1. n \in Nat /\ i \in Nat /\ i >= 1 /\ i <= n
    OBVIOUS
  <1>2. a \in Seq(T) /\ Len(a) = i - 1 /\ \A k \in 1 .. i - 1 : a[k] = s[k]
    BY <1>1
  <1>3. b \in Seq(T) /\ Len(b) = n - i /\ \A k \in 1 .. n - i : b[k] = s[k + i]
    BY <1>1
  <1> HIDE DEF a, b
  <1>4. t \in Seq(T) /\ Len(t) = n - 1
    <2>1. t \in Seq(T) /\ Len(t) = Len(a) + Len(b)
      BY <1>2, <1>3, ConcatProperties
    <2> HIDE DEF t, n
    <2> QED BY <1>1, <1>2, <1>3, <2>1
  <1>5. ASSUME NEW k \in 1 .. n - 1 PROVE t[k] = IF k < i THEN s[k] ELSE s[k + 1]
    <2>1. CASE k < i
      <3>1. k \in 1 .. Len(a) /\ t[k] = a[k]
        BY <1>1, <1>2, <1>3, <2>1
      <3> QED BY <1>2, <2>1, <3>1
    <2>2. CASE k >= i
      <3>1. k - Len(a) \in 1 .. Len(b) /\ t[k] = b[k - Len(a)]
        BY <1>1, <1>2, <1>3, <2>2
      <3>2. k - Len(a) = k - i + 1 /\ (k - i + 1) + i = k + 1 /\ k - i + 1 \in 1 .. n - i
        BY <1>1, <1>2, <2>2
      <3>3. b[k - i + 1] = s[(k - i + 1) + i]
        BY <1>3, <3>2
      <3> QED BY <1>1, <2>2, <3>1, <3>2, <3>3
    <2>3. k < i \/ k >= i
      BY <1>1
    <2> QED BY <2>1, <2>2, <2>3, Zenon
  <1> HIDE DEF t
  <1>6. ASSUME NEW k \in 1 .. Len(t)
        PROVE  \E m \in 1 .. n : m # i /\ t[k] = s[m] /\ m = IF k < i THEN k ELSE k + 1
    BY <1>1, <1>4, <1>5
  <1>7. Inj(t)
    <2>1. SUFFICES ASSUME NEW k \in 1 .. Len(t), NEW l \in 1 .. Len(t), t[k] = t[l] PROVE k = l
      BY DEF Inj
    <2>2. PICK m \in 1 .. n : m # i /\ t[k] = s[m] /\ m = IF k < i THEN k ELSE k + 1
      BY <1>6
    <2>3. PICK o \in 1 .. n : o # i /\ t[l] = s[o] /\ o = IF l < i THEN l ELSE l + 1
      BY <1>6
    <2>4. m = o
      BY <2>1, <2>2, <2>3 DEF Inj
    <2> QED BY <1>1, <1>4, <2>2, <2>3, <2>4
  <1>8. ASSUME NEW u PROVE u \in Elem(t) <=> u \in Elem(s) /\ u # s[i]
    <2>1. ASSUME u \in Elem(t) PROVE u \in Elem(s) /\ u # s[i]
      <3>1. PICK k \in 1 .. Len(t) : u = t[k]
        BY <2>1 DEF Elem
      <3>2. PICK m \in 1 .. n : m # i /\ t[k] = s[m]
        BY <1>6
      <3> QED BY <3>1, <3>2 DEF Elem, Inj
    <2>2. ASSUME u \in Elem(s), u # s[i] PROVE u \in Elem(t)
      <3>1. PICK m \in 1 .. n : u = s[m]
        BY <2>2 DEF Elem
      <3> DEFINE k == IF m < i THEN m ELSE m - 1
      <3>2. m # i /\ m \in Int
        BY <2>2, <3>1
      <3>3. k \in 1 .. n - 1 /\ m = IF k < i THEN k ELSE k + 1
        BY <1>1, <3>2
      <3> HIDE DEF k
      <3>4. t[k] = u /\ k \in 1 .. Len(t)
        BY <1>4, <1>5, <3>1, <3>3
      <3> QED BY <3>4 DEF Elem
    <2> QED BY <2>1, <2>2
  <1>9. Elem(t) = Elem(s) \ {s[i]}
    BY <1>8
  <1> QED BY <1>4, <1>7, <1>9 DEF t, a, b

\* A request leaves its queue.
LEMMA QueueLeave ==
    ASSUME NEW qs, NEW rq, Queued(qs, rq), NEW rq2, NEW r \in Requests,
           NEW t \in Seq(Requests), Inj(t), Elem(t) = Elem(qs[RouteOf(r)]) \ {r},
           rq2[r].st # "queued",
           \A s \in Requests : s # r => (rq2[s].st = "queued" <=> rq[s].st = "queued")
    PROVE  Queued([qs EXCEPT ![RouteOf(r)] = t], rq2)
  <1> DEFINE qs2 == [qs EXCEPT ![RouteOf(r)] = t]
  <1>1. RouteOf(r) \in Routes
    BY ResidentType
  <1>2. /\ qs2 \in [Routes -> Seq(Requests)] /\ qs2[RouteOf(r)] = t
        /\ \A x \in Routes : x # RouteOf(r) => qs2[x] = qs[x]
    BY <1>1 DEF Queued
  <1> HIDE DEF qs2
  <1>3. ASSUME NEW x \in Routes
        PROVE  /\ Inj(qs2[x])
               /\ Elem(qs2[x]) = {s \in Requests : rq2[s].st = "queued" /\ RouteOf(s) = x}
    <2>1. Inj(qs[x]) /\ Elem(qs[x]) = {s \in Requests : rq[s].st = "queued" /\ RouteOf(s) = x}
      BY DEF Queued
    <2>2. CASE x = RouteOf(r)
      BY <1>2, <2>1, <2>2
    <2>3. CASE x # RouteOf(r)
      BY <1>2, <2>1, <2>3
    <2> QED BY <2>2, <2>3
  <1> QED BY <1>2, <1>3 DEF Queued, qs2

\* The queue s with r in it.
Grows(t, s, r) == t \in Seq(Requests) /\ Inj(t) /\ Elem(t) = Elem(s) \cup {r}

\* r, and nobody else, has begun to wait.
Joins(rq, rq2, r) ==
    /\ rq2[r].st = "queued"
    /\ \A s \in Requests : s # r => (rq2[s].st = "queued" <=> rq[s].st = "queued")

\* A request joins its queue.
LEMMA QueueJoin ==
    ASSUME NEW qs, NEW rq, Queued(qs, rq), NEW rq2, NEW r \in Requests,
           NEW t, Grows(t, qs[RouteOf(r)], r),
           Joins(rq, rq2, r)
    PROVE  Queued([qs EXCEPT ![RouteOf(r)] = t], rq2)
  <1> DEFINE qs2 == [qs EXCEPT ![RouteOf(r)] = t]
  <1>1. RouteOf(r) \in Routes
    BY ResidentType
  <1>2. /\ qs2 \in [Routes -> Seq(Requests)] /\ qs2[RouteOf(r)] = t
        /\ \A x \in Routes : x # RouteOf(r) => qs2[x] = qs[x]
    BY <1>1 DEF Queued, Grows
  <1> HIDE DEF qs2
  <1>3. ASSUME NEW x \in Routes
        PROVE  /\ Inj(qs2[x])
               /\ Elem(qs2[x]) = {s \in Requests : rq2[s].st = "queued" /\ RouteOf(s) = x}
    <2>1. Inj(qs[x]) /\ Elem(qs[x]) = {s \in Requests : rq[s].st = "queued" /\ RouteOf(s) = x}
      BY DEF Queued
    <2>2. CASE x = RouteOf(r)
      BY <1>2, <2>1, <2>2 DEF Grows, Joins
    <2>3. CASE x # RouteOf(r)
      BY <1>2, <2>1, <2>3 DEF Joins
    <2> QED BY <2>2, <2>3
  <1> QED BY <1>2, <1>3 DEF Queued, qs2

\* Nobody joins or leaves.
LEMMA QueueSame ==
    ASSUME NEW qs, NEW rq, Queued(qs, rq), NEW rq2,
           \A s \in Requests : rq2[s].st = "queued" <=> rq[s].st = "queued"
    PROVE  Queued(qs, rq2)
  <1>1. \A x : {s \in Requests : rq2[s].st = "queued" /\ RouteOf(s) = x}
                 = {s \in Requests : rq[s].st = "queued" /\ RouteOf(s) = x}
    OBVIOUS
  <1> QED BY <1>1, Zenon DEF Queued

\* Whoever gives up leaves its queue, wherever it was.
LEMMA DiscardedLeaves ==
    ASSUME NEW r \in Requests, Queued(queue, req), Waiting(r), NEW rq2, rq2[r].st # "queued",
           \A s \in Requests : s # r => (rq2[s].st = "queued" <=> req[s].st = "queued")
    PROVE  Queued(Discarded(r), rq2)
  <1> DEFINE q == queue[RouteOf(r)]
             Is(k) == q[k] = r /\ \A n \in 1 .. k - 1 : q[n] # r
             i == CHOOSE k \in 1 .. Len(q) : Is(k)
             t == SubSeq(q, 1, i - 1) \o SubSeq(q, i + 1, Len(q))
  <1>1. q \in Seq(Requests) /\ Inj(q) /\ r \in Elem(q)
    BY ResidentType DEF Queued, Waiting
  <1>2. PICK k \in 1 .. Len(q) : q[k] = r
    BY <1>1 DEF Elem
  <1>3. Is(k)
    <2>1. \A n \in 1 .. k - 1 : n \in 1 .. Len(q) /\ n # k
      BY <1>1
    <2> QED BY <1>2, <2>1, <1>1 DEF Inj
  <1>4. i \in 1 .. Len(q) /\ q[i] = r
    BY <1>3
  <1>5. Discarded(r) = [queue EXCEPT ![RouteOf(r)] = t]
    BY <1>2 DEF Discarded
  <1> HIDE DEF i, q
  <1>6. t \in Seq(Requests) /\ Inj(t) /\ Elem(t) = Elem(q) \ {q[i]}
    BY <1>1, <1>4, RemoveElem
  <1>7. t \in Seq(Requests) /\ Inj(t) /\ Elem(t) = Elem(queue[RouteOf(r)]) \ {r}
    BY <1>4, <1>6 DEF q
  <1> HIDE DEF t
  <1>8. Queued([queue EXCEPT ![RouteOf(r)] = t], rq2)
    BY <1>7, QueueLeave
  <1> QED BY <1>5, <1>8, Zenon

-----------------------------------------------------------------------------
(* The ledger, step by step. *)

Minus(c) == [a \in Accounts |-> -c[a]]

LEMMA BookedIsChanged ==
    ASSUME NEW r, NEW c \in [Accounts -> Int]
    PROVE  /\ Booked(r, 1, c) = Changed(ledger, RouteOf(r), c)
           /\ Booked(r, -1, c) = Changed(ledger, RouteOf(r), Minus(c))
  <1>1. \A a \in Accounts : c[a] \in Int /\ 1 * c[a] = c[a] /\ (-1) * c[a] = Minus(c)[a]
    BY DEF Minus
  <1>2. \A x : [a \in Accounts |-> ledger[x][a] + 1 * c[a]] = [a \in Accounts |-> ledger[x][a] + c[a]]
    BY <1>1
  <1>3. \A x : [a \in Accounts |-> ledger[x][a] + (-1) * c[a]]
                 = [a \in Accounts |-> ledger[x][a] + Minus(c)[a]]
    BY <1>1
  <1> QED BY <1>2, <1>3, Zenon DEF Booked, Changed

LEMMA ChangedType ==
    ASSUME NEW lg \in [0 .. NRoutes -> [Accounts -> Int]], NEW x0, NEW c \in [Accounts -> Int]
    PROVE  Changed(lg, x0, c) \in [0 .. NRoutes -> [Accounts -> Int]]
  BY DEF Changed

LEMMA LedgerTypes ==
    ASSUME ledger \in [0 .. NRoutes -> [Accounts -> Nat]]
    PROVE  /\ ledger \in [0 .. NRoutes -> [Accounts -> Int]]
           /\ 0 \in 0 .. NRoutes /\ Routes \subseteq 0 .. NRoutes
           /\ {"reserved", "temp", "cpu", "native", "io"} \subseteq Accounts
  <1>1. \A x \in 0 .. NRoutes : \A a \in Accounts : ledger[x][a] \in Int
    OBVIOUS
  <1>2. 0 \in 0 .. NRoutes /\ Routes \subseteq 0 .. NRoutes
    BY CoordinatorConstants DEF CoordinatorConstants, Routes
  <1>3. {"reserved", "temp", "cpu", "native", "io"} \subseteq Accounts
    BY DEF Accounts, Exec
  <1> QED BY <1>1, <1>2, <1>3

\* A step that leaves what is admitted alone leaves the ledger right.
LEMMA LedgerKeep ==
    ASSUME ReqInv, LedgerInv, req' \in [Requests -> RequestType], ledger' = ledger,
           \A r \in Requests : \/ req'[r] = req[r]
                               \/ req[r].st # "admitted" /\ req'[r].st # "admitted"
    PROVE  LedgerInv'
  <1>1. Counted(req, ledger)
    BY ExactIsCounted DEF ReqInv, GoodAll, LedgerInv
  <1>2. \A x : ResUnits(req', x) = ResUnits(req, x)
    BY ResidentSame DEF Admits
  <1>3. \A r \in Requests : \A a : Hold(req'[r], a) = Hold(req[r], a)
    BY DEF Hold
  <1>4. \A x, a : Amounts(req', x, a) = Amounts(req, x, a)
    BY <1>3 DEF Amounts
  <1>5. Counted(req', ledger')
    BY <1>1, <1>2, <1>4, Zenon DEF Counted
  <1>6. LedgerExact'
    BY <1>5, ExactIsCountedNext
  <1>7. WithinLimits'
    BY DEF LedgerInv, WithinLimits
  <1> QED BY <1>6, <1>7 DEF LedgerInv

\* A step that changes the ledger by what it changes of the requests leaves it
\* right if it keeps the limits.
LEMMA LedgerChange ==
    ASSUME ReqInv, LedgerInv, req' \in [Requests -> RequestType],
           NEW j \in Jobs, NEW c \in [Accounts -> Int],
           ledger' = Changed(ledger, RouteOf(Lease(j)), c),
           Settles(req, req', j, c), SettlesResident(req, req', j, c), WithinLimits'
    PROVE  LedgerInv'
  <1>1. req \in [Requests -> RequestType] /\ Counted(req, ledger)
    BY ExactIsCounted DEF ReqInv, GoodAll, LedgerInv
  <1>2. ledger \in [0 .. NRoutes -> [Accounts -> Int]]
    BY LedgerTypes DEF LedgerInv
  <1>3. Counted(req', ledger')
    BY <1>1, <1>2, LedgerStep
  <1>4. ledger' \in [0 .. NRoutes -> [Accounts -> Int]]
    BY <1>2, ChangedType
  <1>5. ledger' \in [0 .. NRoutes -> [Accounts -> Nat]]
    BY <1>3, <1>4, CountsAreNat
  <1>6. LedgerExact'
    BY <1>3, ExactIsCountedNext
  <1> QED BY <1>5, <1>6 DEF LedgerInv

\* What is given back keeps the limits.
LEMMA LedgerRelease ==
    ASSUME ReqInv, LedgerInv, req' \in [Requests -> RequestType],
           NEW j \in Jobs, NEW c \in [Accounts -> Nat],
           ledger' = Booked(Lease(j), -1, c),
           Settles(req, req', j, Minus(c)), SettlesResident(req, req', j, Minus(c))
    PROVE  LedgerInv'
  <1> USE CoordinatorConstants
  <1>1. c \in [Accounts -> Int] /\ Minus(c) \in [Accounts -> Int]
    BY DEF Minus
  <1>2. ledger' = Changed(ledger, RouteOf(Lease(j)), Minus(c))
    BY <1>1, BookedIsChanged
  <1>3. ASSUME NEW x \in 0 .. NRoutes, NEW a \in Accounts
        PROVE  ledger'[x][a] \in Int /\ ledger'[x][a] <= ledger[x][a]
    <2>1. ledger[x][a] \in Int /\ c[a] \in Nat /\ Minus(c)[a] = -c[a]
      BY DEF LedgerInv, Minus
    <2>2. ledger'[x][a] = IF x \in {0, RouteOf(Lease(j))} THEN ledger[x][a] + Minus(c)[a]
                          ELSE ledger[x][a]
      BY <1>2 DEF Changed
    <2> QED BY <2>1, <2>2
  <1>4. /\ 0 \in 0 .. NRoutes /\ Routes \subseteq 0 .. NRoutes
        /\ {"reserved", "temp", "cpu", "native", "io"} \subseteq Accounts
    BY LedgerTypes DEF LedgerInv
  <1>5. /\ Budget \in Int /\ \A x \in Routes : RouteBudget[x] \in Int
        /\ TempBudget \in Int /\ CpuSlots \in Int /\ IoSlots \in Int
    BY DEF CoordinatorConstants
  <1>6. \A x \in 0 .. NRoutes : \A a \in Accounts : ledger[x][a] \in Int
    BY DEF LedgerInv
  <1>7. /\ ledger[0]["reserved"] <= Budget
        /\ \A x \in Routes : ledger[x]["reserved"] <= RouteBudget[x]
        /\ ledger[0]["temp"] <= TempBudget /\ ledger[0]["cpu"] <= CpuSlots
        /\ ledger[0]["native"] <= CpuSlots /\ ledger[0]["io"] <= IoSlots
    BY DEF LedgerInv, WithinLimits
  <1>8. WithinLimits'
    BY <1>3, <1>4, <1>5, <1>6, <1>7 DEF WithinLimits
  <1> QED BY <1>1, <1>2, <1>8, LedgerChange

-----------------------------------------------------------------------------
(* Requests, step by step. *)

LEMMA IdleGood ==
    ASSUME NEW r
    PROVE  Idle \in RequestType /\ Good(r, Idle)
  <1>1. CpuSlots \in Nat /\ IoSlots \in Nat /\ Budget \in Nat /\ TempBudget \in Nat
    BY CoordinatorConstants DEF CoordinatorConstants
  <1>2. Idle \in RequestType
    BY <1>1 DEF Idle, RequestType
  <1>3. Good(r, Idle)
    BY DEF Good, Idle
  <1> QED BY <1>2, <1>3

LEMMA GoodChange ==
    ASSUME NEW rq, GoodAll(rq), NEW r \in Requests, NEW q \in RequestType, Good(r, q)
    PROVE  GoodAll([rq EXCEPT ![r] = q])
  <1> DEFINE rq2 == [rq EXCEPT ![r] = q]
  <1>1. /\ rq2 \in [Requests -> RequestType] /\ rq2[r] = q
        /\ \A s \in Requests : s # r => rq2[s] = rq[s]
    BY DEF GoodAll
  <1> HIDE DEF rq2
  <1>2. \A s \in Requests : Good(s, rq2[s])
    BY <1>1 DEF GoodAll
  <1>3. GoodAll(rq2)
    BY <1>1, <1>2 DEF GoodAll
  <1> QED BY <1>3 DEF rq2

Fields == {"st", "mode", "cpu", "native", "io", "transient", "temp", "active", "width", "blocked"}

\* A request is known by its fields.
LEMMA RequestFields ==
    ASSUME NEW k, DOMAIN k = Fields, k = [f \in DOMAIN k |-> k[f]],
           k.st \in {"idle", "queued", "admitted"}, k.mode \in {"new", "renew", "drain"},
           k.cpu \in 0 .. CpuSlots, k.native \in 0 .. CpuSlots, k.io \in 0 .. IoSlots,
           k.transient \in 0 .. Budget, k.temp \in 0 .. TempBudget, k.active \in BOOLEAN,
           k.width \in (0 .. CpuSlots) \X (0 .. CpuSlots) \X (0 .. IoSlots),
           k.blocked \in BOOLEAN
    PROVE  k \in RequestType
  <1>1. k = [f \in Fields |-> k[f]]
    OBVIOUS
  <1> QED BY <1>1 DEF RequestType, Fields

\* What is known of the fields of a request.
LEMMA FieldsOf ==
    ASSUME NEW k \in RequestType
    PROVE  /\ DOMAIN k = Fields /\ k = [f \in DOMAIN k |-> k[f]]
           /\ k.st \in {"idle", "queued", "admitted"} /\ k.mode \in {"new", "renew", "drain"}
           /\ k.cpu \in 0 .. CpuSlots /\ k.native \in 0 .. CpuSlots /\ k.io \in 0 .. IoSlots
           /\ k.transient \in 0 .. Budget /\ k.temp \in 0 .. TempBudget /\ k.active \in BOOLEAN
           /\ k.width \in (0 .. CpuSlots) \X (0 .. CpuSlots) \X (0 .. IoSlots)
           /\ k.blocked \in BOOLEAN
  BY DEF RequestType, Fields

LEMMA StoppedGood ==
    ASSUME NEW r, NEW q \in RequestType, Good(r, q)
    PROVE  /\ Stopped(q) \in RequestType /\ Good(r, Stopped(q))
           /\ Stopped(q).st = q.st /\ Stopped(q).cpu = 0 /\ Stopped(q).native = 0
           /\ Stopped(q).io = 0 /\ Stopped(q).active = FALSE
           /\ Stopped(q).transient = q.transient /\ Stopped(q).temp = q.temp
  <1>1. CpuSlots \in Nat /\ IoSlots \in Nat
    BY CoordinatorConstants DEF CoordinatorConstants
  <1> DEFINE k == Stopped(q)
  <1>2. /\ k.st = q.st /\ k.mode = q.mode /\ k.cpu = 0 /\ k.native = 0 /\ k.io = 0
        /\ k.active = FALSE /\ k.transient = q.transient /\ k.temp = q.temp
    BY DEF Stopped, RequestType
  <1>3. k \in RequestType
    <2>1. /\ DOMAIN k = Fields /\ k = [f \in DOMAIN k |-> k[f]]
          /\ k.width = q.width /\ k.blocked = q.blocked
      BY FieldsOf DEF Stopped, Fields
    <2>2. 0 \in 0 .. CpuSlots /\ 0 \in 0 .. IoSlots
      BY <1>1
    <2> HIDE DEF k
    <2> QED BY <1>2, <2>1, <2>2, FieldsOf, RequestFields
  <1> HIDE DEF k
  <1>4. Good(r, k)
    BY <1>2 DEF Good
  <1> QED BY <1>2, <1>3, <1>4 DEF k

\* What a request gives back is the execution it holds.
LEMMA ExecutionIs ==
    ASSUME NEW r \in Requests, req[r] \in RequestType, Good(r, req[r])
    PROVE  /\ Execution(r) \in [Accounts -> Nat]
           /\ \A a \in Exec \cup {"running"} : Execution(r)[a] = Hold(req[r], a)
           /\ \A a \in {"reserved", "resident", "transient", "temp"} : Execution(r)[a] = 0
  <1>1. /\ req[r]["cpu"] \in Nat /\ req[r]["native"] \in Nat /\ req[r]["io"] \in Nat
    BY CoordinatorConstants DEF CoordinatorConstants, RequestType
  <1>2. CASE req[r].active
    <2>1. \A a \in Accounts : Execution(r)[a] = CASE a \in Exec -> req[r][a]
                                                   [] a = "running" -> 1 [] OTHER -> 0
      BY <1>2 DEF Execution
    <2>2. Execution(r) = [a \in Accounts |-> Execution(r)[a]]
      BY <1>2 DEF Execution
    <2>3. req[r].st = "admitted"
      BY <1>2 DEF Good
    <2>4. \A a \in Accounts : Execution(r)[a] \in Nat
      BY <1>1, <2>1 DEF Exec
    <2>5. \A a \in Exec \cup {"running"} : Execution(r)[a] = Hold(req[r], a)
      BY <1>2, <2>1, <2>3 DEF Hold, Exec, Accounts
    <2>6. \A a \in {"reserved", "resident", "transient", "temp"} : Execution(r)[a] = 0
      BY <2>1 DEF Exec, Accounts
    <2> QED BY <2>2, <2>4, <2>5, <2>6
  <1>3. CASE ~req[r].active
    <2>1. Execution(r) = [a \in Accounts |-> 0]
      BY <1>3 DEF Execution
    <2>2. \A a \in Exec \cup {"running"} : Hold(req[r], a) = 0
      BY <1>3 DEF Hold, Exec, Good
    <2> QED BY <2>1, <2>2 DEF Accounts
  <1> QED BY <1>2, <1>3

LEMMA HoldOf ==
    ASSUME NEW q \in RequestType, NEW r, Good(r, q)
    PROVE  /\ \A a \in Plain : Hold(Idle, a) = 0
           /\ \A a \in Exec \cup {"running"} : Hold(Stopped(q), a) = 0
           /\ \A a \in {"transient", "temp"} : Hold(Stopped(q), a) = Hold(q, a)
           /\ r[2] = "turn" => \A a \in {"transient", "temp"} : Hold(q, a) = 0
           /\ q.st = "admitted" => Hold(q, "transient") = q.transient /\ Hold(q, "temp") = q.temp
  <1>1. \A a \in Plain : Hold(Idle, a) = 0
    BY DEF Hold, Idle
  <1> DEFINE k == Stopped(q)
  <1>2. /\ k.st = q.st /\ k.cpu = 0 /\ k.native = 0 /\ k.io = 0 /\ k.active = FALSE
        /\ k.transient = q.transient /\ k.temp = q.temp
    BY StoppedGood
  <1> HIDE DEF k
  <1>3. \A a \in Exec \cup {"running"} : Hold(k, a) = 0
    BY <1>2 DEF Hold, Exec
  <1>4. \A a \in {"transient", "temp"} : Hold(k, a) = Hold(q, a)
    BY <1>2 DEF Hold
  <1>5. r[2] = "turn" => \A a \in {"transient", "temp"} : Hold(q, a) = 0
    BY DEF Hold, Good
  <1>6. q.st = "admitted" => Hold(q, "transient") = q.transient /\ Hold(q, "temp") = q.temp
    BY DEF Hold
  <1> QED BY <1>1, <1>3, <1>4, <1>5, <1>6 DEF k

LEMMA JobRequests ==
    ASSUME NEW j \in Jobs
    PROVE  /\ Lease(j) \in Requests /\ Turn(j) \in Requests /\ Lease(j) # Turn(j)
           /\ Lease(j)[2] = "lease" /\ Turn(j)[2] = "turn"
           /\ Lease(j)[1] = j /\ Turn(j)[1] = j
           /\ RouteOf(Lease(j)) = Demand[j].route /\ RouteOf(Turn(j)) = Demand[j].route
           /\ Demand[j].route \in Routes
           /\ \A r \in Requests : r = Lease(r[1]) \/ r = Turn(r[1])
           /\ \A r \in Requests : r[2] = "lease" /\ r # Lease(j) => r[1] # j
  BY CoordinatorConstants DEF Lease, Turn, Requests, RouteOf, CoordinatorConstants

LEMMA CpuOfIs ==
    ASSUME ReqInv, NEW j \in Jobs
    PROVE  /\ CpuOf(j) \in [Accounts -> Nat]
           /\ \A a \in Exec \cup {"running"} :
                 CpuOf(j)[a] = Hold(req[Lease(j)], a) + Hold(req[Turn(j)], a)
           /\ \A a \in {"reserved", "resident", "transient", "temp"} : CpuOf(j)[a] = 0
  <1>1. Lease(j) \in Requests /\ Turn(j) \in Requests
    BY JobRequests
  <1>2. \A r \in Requests : req[r] \in RequestType /\ Good(r, req[r])
    BY DEF ReqInv, GoodAll
  <1> DEFINE e == Execution(Lease(j))
             f == Execution(Turn(j))
  <1>3. /\ e \in [Accounts -> Nat]
        /\ \A a \in Exec \cup {"running"} : e[a] = Hold(req[Lease(j)], a)
        /\ \A a \in {"reserved", "resident", "transient", "temp"} : e[a] = 0
    BY <1>1, <1>2, ExecutionIs
  <1>4. /\ f \in [Accounts -> Nat]
        /\ \A a \in Exec \cup {"running"} : f[a] = Hold(req[Turn(j)], a)
        /\ \A a \in {"reserved", "resident", "transient", "temp"} : f[a] = 0
    BY <1>1, <1>2, ExecutionIs
  <1>5. CpuOf(j) = [a \in Accounts |-> e[a] + f[a]]
    BY DEF CpuOf, Plus
  <1> HIDE DEF e, f
  <1>6. Exec \cup {"running"} \subseteq Accounts
        /\ {"reserved", "resident", "transient", "temp"} \subseteq Accounts
    BY DEF Accounts
  <1> QED BY <1>3, <1>4, <1>5, <1>6

\* The requests after release_cpu.
LEMMA CpuReleasedIs ==
    ASSUME ReqInv, NEW j \in Jobs
    PROVE  /\ GoodAll(CpuReleased(j))
           /\ CpuReleased(j)[Lease(j)] = Stopped(req[Lease(j)]) /\ CpuReleased(j)[Turn(j)] = Idle
           /\ \A r \in Requests : r # Lease(j) /\ r # Turn(j) => CpuReleased(j)[r] = req[r]
  <1>1. Lease(j) \in Requests /\ Turn(j) \in Requests /\ Lease(j) # Turn(j)
    BY JobRequests
  <1>2. GoodAll(req) /\ req[Lease(j)] \in RequestType /\ Good(Lease(j), req[Lease(j)])
    BY <1>1 DEF ReqInv, GoodAll
  <1> DEFINE q == Stopped(req[Lease(j)])
             rq == [req EXCEPT ![Lease(j)] = q]
  <1>3. q \in RequestType /\ Good(Lease(j), q)
    BY <1>2, StoppedGood
  <1>4. CpuReleased(j) = [rq EXCEPT ![Turn(j)] = Idle]
    BY <1>1 DEF CpuReleased
  <1>5. rq[Lease(j)] = q /\ \A r \in Requests : r # Lease(j) => rq[r] = req[r]
    BY <1>1, <1>2 DEF GoodAll
  <1>6. GoodAll(rq)
    BY <1>1, <1>2, <1>3, GoodChange
  <1> HIDE DEF rq, q
  <1>7. GoodAll(CpuReleased(j))
    BY <1>1, <1>4, <1>6, IdleGood, GoodChange
  <1>8. /\ CpuReleased(j)[Turn(j)] = Idle
        /\ \A r \in Requests : r # Turn(j) => CpuReleased(j)[r] = rq[r]
    BY <1>1, <1>4, <1>6 DEF GoodAll
  <1> QED BY <1>1, <1>5, <1>7, <1>8 DEF q

\* release_cpu gives back just what it takes from the requests.
LEMMA CpuSettles ==
    ASSUME ReqInv, NEW j \in Jobs
    PROVE  /\ Settles(req, CpuReleased(j), j, Minus(CpuOf(j)))
           /\ SettlesResident(req, CpuReleased(j), j, Minus(CpuOf(j)))
  <1> DEFINE c == Minus(CpuOf(j))
             l == req[Lease(j)]
             t == req[Turn(j)]
             rq == CpuReleased(j)
  <1>1. Lease(j) \in Requests /\ Turn(j) \in Requests /\ Turn(j)[2] = "turn"
    BY JobRequests
  <1>2. l \in RequestType /\ Good(Lease(j), l) /\ t \in RequestType /\ Good(Turn(j), t)
    BY <1>1 DEF ReqInv, GoodAll
  <1>3. /\ GoodAll(rq) /\ rq[Lease(j)] = Stopped(l) /\ rq[Turn(j)] = Idle
        /\ \A r \in Requests : r # Lease(j) /\ r # Turn(j) => rq[r] = req[r]
    BY CpuReleasedIs
  <1>4. /\ \A a \in Plain : Hold(Idle, a) = 0
        /\ \A a \in Exec \cup {"running"} : Hold(Stopped(l), a) = 0
        /\ \A a \in {"transient", "temp"} : Hold(Stopped(l), a) = Hold(l, a)
        /\ \A a \in {"transient", "temp"} : Hold(t, a) = 0
    BY <1>1, <1>2, HoldOf
  <1>5. \A a \in Plain : Hold(l, a) \in Nat /\ Hold(t, a) \in Nat
    BY <1>2, HoldType
  <1>6. \A a \in Exec \cup {"running"} : c[a] = -(Hold(l, a) + Hold(t, a))
    BY CpuOfIs DEF Minus, Accounts
  <1>7. \A a \in {"reserved", "resident", "transient", "temp"} : c[a] = 0
    BY CpuOfIs DEF Minus, Accounts
  <1>8. Plain = (Exec \cup {"running"}) \cup {"transient", "temp"}
    BY DEF Plain
  <1> HIDE DEF c, l, t, rq
  <1>9. ASSUME NEW a \in Plain
        PROVE  c[a] = (Hold(Stopped(l), a) - Hold(l, a)) + (Hold(Idle, a) - Hold(t, a))
    <2>1. CASE a \in Exec \cup {"running"}
      BY <1>4, <1>5, <1>6, <2>1
    <2>2. CASE a \in {"transient", "temp"}
      BY <1>4, <1>5, <1>7, <2>2
    <2> QED BY <1>8, <2>1, <2>2
  <1>10. Settles(req, rq, j, c)
    BY <1>3, <1>7, <1>9 DEF Settles, l, t
  <1>11. \A r \in Requests : r[2] = "lease" => (Admits(req, r) <=> Admits(rq, r))
    <2>1. Stopped(l).st = l.st
      BY <1>2, StoppedGood
    <2> QED BY <1>1, <1>3, <2>1 DEF Admits, l
  <1>12. \A x : ResUnits(rq, x) = ResUnits(req, x)
    BY <1>11, ResidentSame
  <1>13. \A x : Cardinality(ResUnits(req, x)) \in Nat
    BY ResUnitsFinite, FS_CardinalityType
  <1>14. SettlesResident(req, rq, j, c)
    BY <1>7, <1>12, <1>13 DEF SettlesResident
  <1> QED BY <1>10, <1>14 DEF rq, c

\* What ends with a lease: the requests of the job, unless its turn waits.
EndedReq(j) ==
    [req EXCEPT ![Lease(j)] = Idle, ![Turn(j)] = IF Waiting(Turn(j)) THEN req[Turn(j)] ELSE Idle]

LEMMA EndedReqIs ==
    ASSUME ReqInv, NEW j \in Jobs
    PROVE  /\ GoodAll(EndedReq(j)) /\ EndedReq(j)[Lease(j)] = Idle
           /\ EndedReq(j)[Turn(j)] = IF Waiting(Turn(j)) THEN req[Turn(j)] ELSE Idle
           /\ \A r \in Requests : r # Lease(j) /\ r # Turn(j) => EndedReq(j)[r] = req[r]
  <1>1. Lease(j) \in Requests /\ Turn(j) \in Requests /\ Lease(j) # Turn(j)
    BY JobRequests
  <1>2. GoodAll(req) /\ req[Turn(j)] \in RequestType /\ Good(Turn(j), req[Turn(j)])
    BY <1>1 DEF ReqInv, GoodAll
  <1> DEFINE q == IF Waiting(Turn(j)) THEN req[Turn(j)] ELSE Idle
             rq == [req EXCEPT ![Lease(j)] = Idle]
  <1>3. q \in RequestType /\ Good(Turn(j), q)
    BY <1>2, IdleGood
  <1>4. EndedReq(j) = [rq EXCEPT ![Turn(j)] = q]
    BY <1>1 DEF EndedReq
  <1>5. rq[Lease(j)] = Idle /\ \A r \in Requests : r # Lease(j) => rq[r] = req[r]
    BY <1>1, <1>2 DEF GoodAll
  <1>6. GoodAll(rq)
    BY <1>1, <1>2, IdleGood, GoodChange
  <1> HIDE DEF rq, q
  <1>7. GoodAll(EndedReq(j))
    BY <1>1, <1>3, <1>4, <1>6, GoodChange
  <1>8. /\ EndedReq(j)[Turn(j)] = q
        /\ \A r \in Requests : r # Turn(j) => EndedReq(j)[r] = rq[r]
    BY <1>1, <1>4, <1>6 DEF GoodAll
  <1> QED BY <1>1, <1>5, <1>7, <1>8 DEF q

\* The charge of a request, account by account.
LEMMA CostIs ==
    ASSUME NEW q \in RequestType, NEW n \in Nat
    PROVE  /\ Cost(q, n) \in [Accounts -> Nat]
           /\ Cost(q, n)["reserved"] = n + q.transient /\ Cost(q, n)["resident"] = n
           /\ Cost(q, n)["transient"] = q.transient /\ Cost(q, n)["temp"] = q.temp
           /\ Cost(q, n)["running"] = IF Executes(q) THEN 1 ELSE 0
           /\ Cost(q, n)["cpu"] = q.cpu /\ Cost(q, n)["native"] = q.native
           /\ Cost(q, n)["io"] = q.io
  <1>1. /\ q.cpu \in Nat /\ q.native \in Nat /\ q.io \in Nat /\ q.transient \in Nat
        /\ q.temp \in Nat
    BY CoordinatorConstants DEF CoordinatorConstants, RequestType
  <1>2. /\ Cost(q, n)["reserved"] = n + q.transient /\ Cost(q, n)["resident"] = n
        /\ Cost(q, n)["transient"] = q.transient /\ Cost(q, n)["temp"] = q.temp
        /\ Cost(q, n)["running"] = IF Executes(q) THEN 1 ELSE 0
        /\ Cost(q, n)["cpu"] = q.cpu /\ Cost(q, n)["native"] = q.native
        /\ Cost(q, n)["io"] = q.io
    BY DEF Cost, Accounts, Exec
  <1>3. \A a \in Accounts : Cost(q, n)[a] \in Nat
    BY <1>1, <1>2 DEF Accounts, Exec
  <1>4. Cost(q, n) = [a \in Accounts |-> Cost(q, n)[a]]
    BY DEF Cost
  <1> QED BY <1>2, <1>3, <1>4

\* The end of a lease gives back just what it takes from the requests: of a
\* shared residence, what nobody else claims.
LEMMA EndSettles ==
    ASSUME ReqInv, NEW j \in Jobs, Live(j)
    PROVE  /\ Ended(j) \in [Accounts -> Nat]
           /\ Settles(req, EndedReq(j), j, Minus(Ended(j)))
           /\ SettlesResident(req, EndedReq(j), j, Minus(Ended(j)))
  <1> DEFINE l == req[Lease(j)]
             t == req[Turn(j)]
             rq == EndedReq(j)
             n == ResidentCharge(Lease(j))
             k == Cost(Stopped(l), n)
             b == CpuOf(j)
             c == Minus(Ended(j))
  <1>1. /\ Lease(j) \in Requests /\ Turn(j) \in Requests /\ Turn(j)[2] = "turn"
        /\ Lease(j)[2] = "lease"
    BY JobRequests
  <1>2. l \in RequestType /\ Good(Lease(j), l) /\ t \in RequestType /\ Good(Turn(j), t)
    BY <1>1 DEF ReqInv, GoodAll
  <1>3. /\ GoodAll(rq) /\ rq[Lease(j)] = Idle
        /\ rq[Turn(j)] = IF Waiting(Turn(j)) THEN t ELSE Idle
        /\ \A r \in Requests : r # Lease(j) /\ r # Turn(j) => rq[r] = req[r]
    BY EndedReqIs
  <1>4. l.st = "admitted"
    BY DEF Live
  <1>5. n \in Nat /\ n = IF Resident(Lease(j)) > Largest(req, Lease(j))
                         THEN Resident(Lease(j)) - Largest(req, Lease(j)) ELSE 0
    BY <1>1, ChargeIs
  <1>6. /\ b \in [Accounts -> Nat]
        /\ \A a \in Exec \cup {"running"} : b[a] = Hold(l, a) + Hold(t, a)
        /\ \A a \in {"reserved", "resident", "transient", "temp"} : b[a] = 0
    BY CpuOfIs
  <1>7. /\ k \in [Accounts -> Nat] /\ k["reserved"] = n + l.transient /\ k["resident"] = n
        /\ k["transient"] = l.transient /\ k["temp"] = l.temp
        /\ k["running"] = 0 /\ k["cpu"] = 0 /\ k["native"] = 0 /\ k["io"] = 0
    <2> DEFINE q == Stopped(l)
    <2>1. /\ q \in RequestType /\ q.cpu = 0 /\ q.native = 0 /\ q.io = 0
          /\ q.transient = l.transient /\ q.temp = l.temp
      BY <1>2, StoppedGood
    <2> HIDE DEF q, n
    <2>2. ~Executes(q)
      BY <2>1 DEF Executes
    <2> QED BY <1>5, <2>1, <2>2, CostIs DEF q
  <1>8. Ended(j) = [a \in Accounts |-> b[a] + k[a]]
    BY DEF Ended, Plus
  <1>9. /\ \A a \in Plain : Hold(Idle, a) = 0 /\ Hold(l, a) \in Nat /\ Hold(t, a) \in Nat
        /\ \A a \in {"transient", "temp"} : Hold(t, a) = 0
        /\ Hold(l, "transient") = l.transient /\ Hold(l, "temp") = l.temp
    BY <1>1, <1>2, <1>4, HoldOf, HoldType
  <1>10. Plain \subseteq Accounts /\ {"reserved", "resident", "transient", "temp"} \subseteq Accounts
    BY DEF Plain, Accounts, Exec
  <1>11. \A a \in Plain : Hold(rq[Turn(j)], a) = 0
    <2>1. Waiting(Turn(j)) => \A a \in Plain : Hold(t, a) = 0
      BY DEF Waiting, Hold
    <2> QED BY <1>3, <1>9, <2>1
  <1>12. l.transient \in Nat /\ l.temp \in Nat
    BY <1>2, CoordinatorConstants DEF RequestType, CoordinatorConstants
  <1>13. \A a \in Accounts : b[a] \in Nat /\ k[a] \in Nat /\ c[a] = -(b[a] + k[a])
    BY <1>6, <1>7, <1>8 DEF Minus
  <1> HIDE DEF l, t, rq, n, k, b, c
  <1>14. Ended(j) \in [Accounts -> Nat]
    BY <1>8, <1>13
  <1>15. ASSUME NEW a \in Plain
         PROVE  c[a] = (Hold(rq[Lease(j)], a) - Hold(l, a)) + (Hold(rq[Turn(j)], a) - Hold(t, a))
    <2>1. CASE a \in Exec \cup {"running"}
      <3>1. k[a] = 0
        BY <1>7, <2>1 DEF Exec
      <3> QED BY <1>3, <1>6, <1>9, <1>10, <1>11, <1>13, <2>1, <3>1
    <2>2. CASE a \in {"transient", "temp"}
      <3>1. k[a] = Hold(l, a) /\ b[a] = 0
        BY <1>6, <1>7, <1>9, <2>2
      <3>2. /\ Hold(rq[Lease(j)], a) = 0 /\ Hold(rq[Turn(j)], a) = 0 /\ Hold(t, a) = 0
            /\ Hold(l, a) \in Nat /\ c[a] = -(b[a] + k[a])
        BY <1>3, <1>9, <1>10, <1>11, <1>13, <2>2
      <3> QED BY <3>1, <3>2
    <2> QED BY <2>1, <2>2 DEF Plain
  <1>16. c["reserved"] = c["resident"] + c["transient"]
    BY <1>5, <1>6, <1>7, <1>10, <1>12, <1>13
  <1>17. Settles(req, rq, j, c)
    BY <1>3, <1>15, <1>16 DEF Settles, l, t
  <1>18. /\ ~Admits(rq, Lease(j)) /\ Admits(req, Lease(j))
         /\ \A r \in Requests : r[2] = "lease" /\ r # Lease(j) => (Admits(rq, r) <=> Admits(req, r))
    <2>1. Idle.st # "admitted"
      BY DEF Idle
    <2> QED BY <1>1, <1>3, <1>4, <2>1 DEF Admits, l
  <1>19. Largest(rq, Lease(j)) = Largest(req, Lease(j))
    BY <1>1, <1>18, LargestSame
  <1>20. ASSUME NEW x
         PROVE  IF x \in {0, RouteOf(Lease(j))}
                THEN Cardinality(ResUnits(req, x)) = Cardinality(ResUnits(rq, x)) + n
                ELSE ResUnits(req, x) = ResUnits(rq, x)
    BY <1>5, <1>18, <1>19, ResidentJoin
  <1>21. c["resident"] = -n
    BY <1>5, <1>6, <1>7, <1>10, <1>13
  <1>22. \A x : Cardinality(ResUnits(rq, x)) \in Nat
    BY ResUnitsFinite, FS_CardinalityType
  <1>23. SettlesResident(req, rq, j, c)
    BY <1>5, <1>20, <1>21, <1>22 DEF SettlesResident
  <1> QED BY <1>14, <1>17, <1>23 DEF rq, c

\* A request that is granted.
Admitting(q) ==
    [q EXCEPT !.st = "admitted", !.active = Executes(q), !.blocked = FALSE,
              !.width = <<q.cpu, q.native, q.io>>]

LEMMA AdmittingGood ==
    ASSUME NEW r, NEW q \in RequestType, Good(r, q)
    PROVE  /\ Admitting(q) \in RequestType /\ Good(r, Admitting(q))
           /\ Admitting(q).st = "admitted"
           /\ \A n \in Nat : \A a \in Plain : Hold(Admitting(q), a) = Cost(q, n)[a]
  <1>1. /\ q.cpu \in Nat /\ q.native \in Nat /\ q.io \in Nat
    BY CoordinatorConstants DEF CoordinatorConstants, RequestType
  <1> DEFINE k == Admitting(q)
  <1>2. /\ k.st = "admitted" /\ k.mode = q.mode /\ k.cpu = q.cpu /\ k.native = q.native
        /\ k.io = q.io /\ k.active = Executes(q) /\ k.transient = q.transient /\ k.temp = q.temp
    BY FieldsOf DEF Admitting, Fields
  <1>3. k \in RequestType
    <2>1. /\ DOMAIN k = Fields /\ k = [f \in DOMAIN k |-> k[f]]
          /\ k.width = <<q.cpu, q.native, q.io>> /\ k.blocked = FALSE
      BY FieldsOf DEF Admitting, Fields
    <2>2. k.width \in (0 .. CpuSlots) \X (0 .. CpuSlots) \X (0 .. IoSlots)
      BY <2>1, FieldsOf
    <2>3. Executes(q) \in BOOLEAN
      BY DEF Executes
    <2> HIDE DEF k
    <2> QED BY <1>2, <2>1, <2>2, <2>3, FieldsOf, RequestFields
  <1> HIDE DEF k
  <1>4. Good(r, k)
    <2>1. ~Executes(q) => q.cpu = 0 /\ q.native = 0 /\ q.io = 0
      BY <1>1 DEF Executes
    <2> QED BY <1>2, <2>1 DEF Good
  <1>5. ASSUME NEW n \in Nat, NEW a \in Plain PROVE Hold(k, a) = Cost(q, n)[a]
    <2>1. /\ Cost(q, n)["transient"] = q.transient /\ Cost(q, n)["temp"] = q.temp
          /\ Cost(q, n)["running"] = IF Executes(q) THEN 1 ELSE 0
          /\ Cost(q, n)["cpu"] = q.cpu /\ Cost(q, n)["native"] = q.native
          /\ Cost(q, n)["io"] = q.io
      BY CostIs
    <2> QED BY <1>2, <2>1 DEF Hold, Plain, Exec
  <1> QED BY <1>2, <1>3, <1>4, <1>5 DEF k

\* A grant books just what it adds to the requests.
LEMMA GrantSettles ==
    ASSUME ReqInv, NEW r \in Requests, Waiting(r), NEW rq, Widened(rq)
    PROVE  LET rq2 == [rq EXCEPT ![r] = Admitting(rq[r])]
               c == Cost(rq[r], ResidentCharge(r))
           IN  /\ GoodAll(rq2) /\ c \in [Accounts -> Nat]
               /\ Settles(req, rq2, r[1], c) /\ SettlesResident(req, rq2, r[1], c)
               /\ rq2[r].st = "admitted" /\ \A s \in Requests : s # r => rq2[s].st = req[s].st
  <1> DEFINE q == rq[r]
             rq2 == [rq EXCEPT ![r] = Admitting(q)]
             n == ResidentCharge(r)
             c == Cost(q, n)
             j == r[1]
  <1>1. /\ j \in Jobs /\ Lease(j) \in Requests /\ Turn(j) \in Requests /\ Lease(j) # Turn(j)
        /\ r = Lease(j) \/ r = Turn(j)
        /\ Lease(j)[2] = "lease" /\ Turn(j)[2] = "turn"
    BY JobRequests, ResidentType
  <1>2. GoodAll(rq) /\ q \in RequestType /\ Good(r, q)
    BY DEF Widened, GoodAll
  <1>3. /\ Admitting(q) \in RequestType /\ Good(r, Admitting(q)) /\ Admitting(q).st = "admitted"
        /\ \A m \in Nat : \A a \in Plain : Hold(Admitting(q), a) = Cost(q, m)[a]
    BY <1>2, AdmittingGood
  <1>4. rq2[r] = Admitting(q) /\ \A s \in Requests : s # r => rq2[s] = rq[s]
    BY <1>2 DEF GoodAll
  <1> HIDE DEF q
  <1>5. GoodAll(rq2)
    BY <1>2, <1>3, GoodChange DEF q
  <1>6. /\ n \in Nat /\ (r[2] = "turn" => n = 0)
        /\ n = IF Resident(r) > Largest(req, r) THEN Resident(r) - Largest(req, r) ELSE 0
    BY ChargeIs
  <1>7. c \in [Accounts -> Nat] /\ c["reserved"] = n + q.transient /\ c["resident"] = n
        /\ c["transient"] = q.transient
    BY <1>2, <1>6, CostIs
  <1>8. \A s \in Requests : s # r => \A a : Hold(rq2[s], a) = Hold(req[s], a)
    <2>1. \A s \in Requests : rq[s] = req[s] \/ (rq[s].st # "admitted" /\ req[s].st # "admitted")
      BY DEF Widened, Waiting
    <2> QED BY <1>4, <2>1 DEF Hold
  <1>9. \A a : Hold(req[r], a) = 0
    BY DEF Waiting, Hold
  <1>10. \A a \in Plain : Hold(rq2[r], a) = c[a]
    BY <1>3, <1>4, <1>6
  <1>11. rq2[r].st = "admitted" /\ \A s \in Requests : s # r => rq2[s].st = req[s].st
    BY <1>3, <1>4 DEF Widened
  <1>12. \A a \in Plain : c[a] \in Nat
    BY <1>7 DEF Plain, Accounts
  <1>13. \A s \in Requests : \A a \in Plain : Hold(req[s], a) \in Nat
    BY HoldType DEF ReqInv, GoodAll
  <1> HIDE DEF rq2, c, n
  <1>14. ASSUME NEW a \in Plain
         PROVE  c[a] = (Hold(rq2[Lease(j)], a) - Hold(req[Lease(j)], a))
                          + (Hold(rq2[Turn(j)], a) - Hold(req[Turn(j)], a))
    <2>1. /\ Hold(req[Lease(j)], a) \in Nat /\ Hold(req[Turn(j)], a) \in Nat /\ c[a] \in Nat
          /\ Hold(rq2[r], a) = c[a] /\ Hold(req[r], a) = 0
      BY <1>1, <1>9, <1>10, <1>12, <1>13
    <2>2. CASE r = Lease(j)
      <3>1. Hold(rq2[Turn(j)], a) = Hold(req[Turn(j)], a)
        BY <1>1, <1>8, <2>2
      <3> QED BY <2>1, <2>2, <3>1
    <2>3. CASE r = Turn(j)
      <3>1. Hold(rq2[Lease(j)], a) = Hold(req[Lease(j)], a)
        BY <1>1, <1>8, <2>3
      <3> QED BY <2>1, <2>3, <3>1
    <2> QED BY <1>1, <2>2, <2>3
  <1>15. Settles(req, rq2, j, c)
    <2>1. \A s \in Requests : s # Lease(j) /\ s # Turn(j) =>
             \A a \in Plain : Hold(rq2[s], a) = Hold(req[s], a)
      BY <1>1, <1>8
    <2> HIDE DEF j
    <2> QED BY <1>7, <1>14, <2>1 DEF Settles
  <1>16. SettlesResident(req, rq2, j, c)
    <2>1. CASE r = Lease(j)
      <3>1. /\ ~Admits(req, Lease(j)) /\ Admits(rq2, Lease(j))
            /\ \A s \in Requests : s[2] = "lease" /\ s # Lease(j) =>
                  (Admits(req, s) <=> Admits(rq2, s))
        BY <1>11, <2>1 DEF Admits, Waiting
      <3> HIDE DEF j
      <3>2. ASSUME NEW x
            PROVE  IF x \in {0, RouteOf(Lease(j))}
                   THEN Cardinality(ResUnits(rq2, x)) = Cardinality(ResUnits(req, x)) + n
                   ELSE ResUnits(rq2, x) = ResUnits(req, x)
        BY <1>1, <1>6, <2>1, <3>1, ResidentJoin
      <3> QED BY <1>7, <3>2 DEF SettlesResident
    <2>2. CASE r = Turn(j)
      <3>1. \A s \in Requests : s[2] = "lease" => (Admits(req, s) <=> Admits(rq2, s))
        BY <1>1, <1>11, <2>2 DEF Admits
      <3>2. \A x : ResUnits(rq2, x) = ResUnits(req, x)
        BY <3>1, ResidentSame
      <3>3. \A x : Cardinality(ResUnits(req, x)) \in Nat
        BY ResUnitsFinite, FS_CardinalityType
      <3>4. c["resident"] = 0
        BY <1>1, <1>6, <1>7, <2>2
      <3> QED BY <3>2, <3>3, <3>4 DEF SettlesResident
    <2> QED BY <1>1, <2>1, <2>2
  <1> QED BY <1>5, <1>7, <1>11, <1>15, <1>16 DEF rq2, c, n, q

\* What fits keeps the limits.
LEMMA FitsLimits ==
    ASSUME LedgerInv, NEW r \in Requests, NEW q \in RequestType, Good(r, q),
           NEW v \in ViewType, Fits(r, q, v),
           ledger' = Booked(r, 1, Cost(q, ResidentCharge(r)))
    PROVE  WithinLimits'
  <1> USE CoordinatorConstants
  <1> DEFINE n == ResidentCharge(r)
             c == Cost(q, n)
  <1>1. n \in Nat /\ (r[2] = "turn" => n = 0)
    BY ChargeIs
  <1> HIDE DEF n
  <1>2. /\ c \in [Accounts -> Nat] /\ c["reserved"] = n + q.transient /\ c["temp"] = q.temp
        /\ c["cpu"] = q.cpu /\ c["native"] = q.native /\ c["io"] = q.io
    BY <1>1, CostIs
  <1>3. ledger' = Changed(ledger, RouteOf(r), c)
    <2>1. c \in [Accounts -> Int]
      BY <1>2
    <2> HIDE DEF c
    <2> QED BY <2>1, BookedIsChanged DEF c, n
  <1>4. /\ 0 \in 0 .. NRoutes /\ Routes \subseteq 0 .. NRoutes /\ 0 \notin Routes
        /\ {"reserved", "temp", "cpu", "native", "io"} \subseteq Accounts
    BY LedgerTypes DEF LedgerInv, Routes
  <1>5. RouteOf(r) \in Routes
    BY ResidentType
  <1> HIDE DEF c
  <1>6. \A a \in {"reserved", "temp", "cpu", "native", "io"} :
           ledger'[0][a] = ledger[0][a] + c[a] /\ ledger[0][a] \in Nat
    BY <1>3, <1>4 DEF Changed, LedgerInv
  <1>7. \A x \in Routes :
           ledger'[x]["reserved"] = IF x = RouteOf(r) THEN ledger[x]["reserved"] + c["reserved"]
                                    ELSE ledger[x]["reserved"]
    BY <1>3, <1>4 DEF Changed
  <1>8. /\ q.cpu \in Nat /\ q.native \in Nat /\ q.io \in Nat /\ q.transient \in Nat
        /\ q.temp \in Nat
    BY DEF CoordinatorConstants, RequestType
  <1>9. /\ CpuSlots \in Nat \ {0} /\ v.eff \in 0 .. CpuSlots /\ v.native \in 1 .. CpuSlots
    BY DEF CoordinatorConstants, ViewType
  <1>10. SlotsFor(q, v) \in Int /\ SlotsFor(q, v) <= CpuSlots
    <2> DEFINE e == v.eff
    <2>1. e \in Int /\ 1 \in Int
      BY <1>9
    <2>2. Max({1, e}) = IF 1 >= e THEN 1 ELSE e
      <3> HIDE DEF e
      <3> QED BY <2>1, MinMaxPair
    <2> QED BY <1>9, <2>2 DEF SlotsFor
  <1>11. Min({v.native, SlotsFor(q, v)}) \in Int /\ Min({v.native, SlotsFor(q, v)}) <= CpuSlots
    <2> DEFINE m == v.native
               s == SlotsFor(q, v)
    <2>1. m \in Int /\ s \in Int /\ m <= CpuSlots /\ s <= CpuSlots
      BY <1>9, <1>10
    <2> HIDE DEF m, s
    <2>2. Min({m, s}) = IF m <= s THEN m ELSE s
      BY <2>1, MinMaxPair
    <2>3. Min({m, s}) \in Int /\ Min({m, s}) <= CpuSlots
      BY <2>1, <2>2
    <2> QED BY <2>3 DEF m, s
  <1>12. /\ ledger[0]["cpu"] + q.cpu <= SlotsFor(q, v)
         /\ ledger[0]["native"] + q.native <= Min({v.native, SlotsFor(q, v)})
         /\ ledger[0]["temp"] + q.temp <= TempBudget
         /\ q.io > 0 => ledger[0]["io"] + q.io <= IoSlots
    BY DEF Fits
  <1>13. /\ ledger[0]["reserved"] <= Budget
         /\ \A x \in Routes : ledger[x]["reserved"] <= RouteBudget[x]
         /\ ledger[0]["io"] <= IoSlots
    BY DEF LedgerInv, WithinLimits
  <1>14. /\ ledger[0]["reserved"] + c["reserved"] <= Budget
         /\ ledger[RouteOf(r)]["reserved"] + c["reserved"] <= RouteBudget[RouteOf(r)]
    <2>1. CASE q.mode = "drain"
      <3>1. r[2] = "turn"
        BY <2>1, ResidentType DEF Good
      <3>2. c["reserved"] = 0
        BY <1>1, <1>2, <3>1 DEF Good
      <3>3. ledger[0]["reserved"] \in Nat /\ ledger[RouteOf(r)]["reserved"] \in Nat
        BY <1>4, <1>5 DEF LedgerInv
      <3> QED BY <1>5, <1>13, <3>2, <3>3
    <2>2. CASE q.mode # "drain"
      <3>1. FitsMemory(r, q)
        BY <2>2 DEF Fits
      <3> QED BY <1>2, <3>1 DEF FitsMemory, n
    <2> QED BY <2>1, <2>2
  <1>15. /\ ledger'[0]["cpu"] <= CpuSlots /\ ledger'[0]["native"] <= CpuSlots
    BY <1>2, <1>6, <1>8, <1>9, <1>10, <1>11, <1>12
  <1>16. ledger'[0]["temp"] <= TempBudget
    BY <1>2, <1>6, <1>12
  <1>17. ledger'[0]["io"] <= IoSlots
    BY <1>2, <1>6, <1>8, <1>12, <1>13 DEF CoordinatorConstants
  <1>18. ledger'[0]["reserved"] <= Budget
    BY <1>6, <1>14
  <1>19. \A x \in Routes : ledger'[x]["reserved"] <= RouteBudget[x]
    BY <1>7, <1>13, <1>14
  <1> QED BY <1>15, <1>16, <1>17, <1>18, <1>19 DEF WithinLimits

-----------------------------------------------------------------------------
(* One lemma per action. *)

LEMMA ObservedIs ==
    ASSUME IInv, NEW p \in Observed
    PROVE  p.view \in ViewType /\ Widened(p.req)
  <1>1. Observation \in ViewType
    BY ObservationType DEF IInv, RestInv
  <1>2. Widened(Adapted(Observation))
    BY <1>1, AdaptedWidens DEF IInv, LedgerInv
  <1>3. p.view = Observation /\ p.req = Adapted(Observation)
    BY DEF Observed
  <1> QED BY <1>1, <1>2, <1>3

\* No turn appears between the two halves of a checkpoint.
LEMMA StepKeep ==
    ASSUME QueueInv, step' = step,
           \A s \in Requests : req'[s].st = req[s].st \/ Waiting(s) \/ req'[s].st = "idle"
    PROVE  \A j \in Jobs : step'[j] # "none" => req'[Turn(j)].st = "idle"
  <1>1. \A j \in Jobs : Turn(j) \in Requests
    BY JobRequests
  <1> QED BY <1>1 DEF QueueInv, Waiting

LEMMA GrantStep ==
    ASSUME IInv, NEW r \in Requests, Grant(r)
    PROVE  IInv'
  <1> DEFINE j == r[1]
  <1>1. PICK p \in Observed :
           /\ Chosen(r, p) /\ view' = p.view
           /\ req' = [p.req EXCEPT ![r] = Admitting(p.req[r])]
           /\ ledger' = Booked(r, 1, Cost(p.req[r], ResidentCharge(r)))
    BY DEF Grant, Admitting
  <1>2. Waiting(r) /\ queue' = [queue EXCEPT ![RouteOf(r)] = Tail(queue[RouteOf(r)])]
    BY DEF Grant, Polls
  <1>3. p.view \in ViewType /\ Widened(p.req)
    BY ObservedIs
  <1> DEFINE rq == p.req
             c == Cost(rq[r], ResidentCharge(r))
  <1>4. /\ GoodAll(req') /\ c \in [Accounts -> Nat]
        /\ Settles(req, req', j, c) /\ SettlesResident(req, req', j, c)
        /\ req'[r].st = "admitted" /\ \A s \in Requests : s # r => req'[s].st = req[s].st
    BY <1>1, <1>2, <1>3, GrantSettles DEF IInv
  <1>5. /\ queue[RouteOf(r)] # <<>> /\ queue[RouteOf(r)][1] = r
        /\ Fits(r, rq[r], p.view)
    BY <1>1, <1>2, ChosenFits DEF IInv, RestInv, LedgerInv
  <1>6. /\ j \in Jobs /\ RouteOf(r) \in Routes /\ RouteOf(Lease(j)) = RouteOf(r)
    BY ResidentType, JobRequests DEF RouteOf
  <1>7. rq[r] \in RequestType /\ Good(r, rq[r])
    BY <1>3 DEF Widened, GoodAll
  <1>8. WithinLimits'
    BY <1>1, <1>3, <1>5, <1>7, FitsLimits DEF IInv
  <1>9. ledger' = Changed(ledger, RouteOf(Lease(j)), c)
    <2>1. c \in [Accounts -> Int]
      BY <1>4
    <2>2. ledger' = Booked(r, 1, c)
      BY <1>1
    <2> HIDE DEF c
    <2> QED BY <1>6, <2>1, <2>2, BookedIsChanged
  <1> HIDE DEF c
  <1>10. LedgerInv'
    <2>1. c \in [Accounts -> Int] /\ req' \in [Requests -> RequestType]
      BY <1>4 DEF GoodAll
    <2> HIDE DEF j
    <2> QED BY <1>4, <1>6, <1>8, <1>9, <2>1, LedgerChange DEF IInv
  <1>11. Queued(queue', req')
    <2> DEFINE s == queue[RouteOf(r)]
               t == Tail(s)
    <2>1. s \in Seq(Requests) /\ Inj(s) /\ s # <<>> /\ s[1] = r
      BY <1>5, <1>6 DEF IInv, QueueInv, Queued
    <2>2. t \in Seq(Requests) /\ Inj(t) /\ Elem(t) = Elem(s) \ {r}
      BY <2>1, TailElem
    <2>3. Queued(queue, req)
      BY DEF IInv, QueueInv
    <2> HIDE DEF t
    <2>4. Queued([queue EXCEPT ![RouteOf(r)] = t], req')
      BY <1>4, <2>2, <2>3, QueueLeave
    <2> QED BY <1>2, <2>4 DEF t
  <1>12. QueueInv'
    <2>1. step' = step
      BY DEF Grant
    <2>2. \A k \in Jobs : step'[k] # "none" => req'[Turn(k)].st = "idle"
      BY <1>2, <1>4, <2>1, StepKeep DEF IInv
    <2> QED BY <1>11, <2>2 DEF QueueInv
  <1>13. RestInv'
    <2>1. last' \in 0 .. NRoutes
      BY <1>6 DEF Grant, Routes
    <2> QED BY <1>1, <1>3, <2>1 DEF Grant, IInv, RestInv
  <1> QED BY <1>4, <1>10, <1>12, <1>13 DEF IInv, ReqInv

\* The requests leave what is admitted alone.
LEMMA WaitStep ==
    ASSUME IInv, NEW r \in Requests, Wait(r)
    PROVE  IInv'
  <1>1. PICK p \in Observed : /\ req' = [p.req EXCEPT ![r].blocked = Stalled(p)]
                              /\ view' = p.view
    BY DEF Wait
  <1>2. Waiting(r)
    BY DEF Wait, Polls
  <1>3. p.view \in ViewType /\ Widened(p.req)
    BY ObservedIs
  <1> DEFINE rq == p.req
             q == [rq[r] EXCEPT !.blocked = Stalled(p)]
  <1>4. GoodAll(rq) /\ rq[r] \in RequestType /\ Good(r, rq[r])
    BY <1>3 DEF Widened, GoodAll
  <1>5. Stalled(p) \in BOOLEAN
    <2>1. timed \in BOOLEAN
      BY CoordinatorConstants DEF IInv, RestInv, CoordinatorConstants
    <2> QED BY <2>1 DEF Stalled
  <1>6. q \in RequestType /\ q.st = rq[r].st /\ Good(r, q)
    <2>1. q \in RequestType
      BY <1>4, <1>5 DEF RequestType
    <2>2. /\ q.st = rq[r].st /\ q.mode = rq[r].mode /\ q.cpu = rq[r].cpu
          /\ q.native = rq[r].native /\ q.io = rq[r].io /\ q.transient = rq[r].transient
          /\ q.temp = rq[r].temp /\ q.active = rq[r].active
      BY <1>4 DEF RequestType
    <2> HIDE DEF q
    <2> QED BY <1>4, <2>1, <2>2 DEF Good
  <1>7. req' = [rq EXCEPT ![r] = q]
    BY <1>1, <1>4 DEF GoodAll
  <1>8. req'[r] = q /\ \A s \in Requests : s # r => req'[s] = rq[s]
    BY <1>4, <1>7 DEF GoodAll
  <1> HIDE DEF q
  <1>9. GoodAll(req')
    BY <1>4, <1>6, <1>7, GoodChange
  <1>10. \A s \in Requests : req'[s].st = req[s].st
    BY <1>3, <1>6, <1>8 DEF Widened
  <1>11. \A s \in Requests : \/ req'[s] = req[s]
                             \/ req[s].st # "admitted" /\ req'[s].st # "admitted"
    BY <1>2, <1>3, <1>8, <1>10 DEF Widened, Waiting
  <1>12. LedgerInv'
    BY <1>9, <1>11, LedgerKeep DEF Wait, IInv, GoodAll
  <1>13. QueueInv'
    <2>1. queue' = queue /\ step' = step
      BY DEF Wait
    <2>2. Queued(queue', req')
      BY <1>10, <2>1, QueueSame DEF IInv, QueueInv
    <2>3. \A k \in Jobs : step'[k] # "none" => req'[Turn(k)].st = "idle"
      BY <1>10, <2>1, StepKeep DEF IInv
    <2> QED BY <2>2, <2>3 DEF QueueInv
  <1>14. RestInv'
    BY <1>1, <1>3 DEF Wait, IInv, RestInv
  <1> QED BY <1>9, <1>12, <1>13, <1>14 DEF IInv, ReqInv

\* Whoever waited in vain is idle again.
LEMMA GivesUp ==
    ASSUME IInv, NEW r \in Requests, Waiting(r), NEW rq, Widened(rq),
           req' = [rq EXCEPT ![r] = Idle], queue' = Discarded(r), ledger' = ledger, step' = step
    PROVE  ReqInv' /\ QueueInv' /\ LedgerInv'
  <1>1. GoodAll(rq)
    BY DEF Widened
  <1>2. GoodAll(req')
    BY <1>1, IdleGood, GoodChange
  <1>3. req'[r] = Idle /\ \A s \in Requests : s # r => req'[s] = rq[s]
    BY <1>1 DEF GoodAll
  <1>4. req'[r].st = "idle"
    BY <1>3 DEF Idle
  <1>5. \A s \in Requests : s # r => req'[s].st = req[s].st
    BY <1>3 DEF Widened
  <1>6. \A s \in Requests : \/ req'[s] = req[s]
                            \/ req[s].st # "admitted" /\ req'[s].st # "admitted"
    BY <1>3, <1>4 DEF Widened, Waiting
  <1>7. LedgerInv'
    BY <1>2, <1>6, LedgerKeep DEF IInv, GoodAll
  <1>8. Queued(queue', req')
    <2>1. Queued(queue, req) /\ req'[r].st # "queued"
      BY <1>4 DEF IInv, QueueInv
    <2>2. \A s \in Requests : s # r => (req'[s].st = "queued" <=> req[s].st = "queued")
      BY <1>5
    <2>3. Queued(Discarded(r), req')
      BY <2>1, <2>2, DiscardedLeaves
    <2> QED BY <2>3
  <1>9. \A k \in Jobs : step'[k] # "none" => req'[Turn(k)].st = "idle"
    BY <1>4, <1>5, StepKeep DEF IInv
  <1> QED BY <1>2, <1>7, <1>8, <1>9 DEF ReqInv, QueueInv

LEMMA GivenUpIn ==
    ASSUME IInv, NEW r \in Requests
    PROVE  GivenUp(r) \subseteq Jobs
  BY ResidentType DEF GivenUp, IInv, RestInv

LEMMA TimeOutStep ==
    ASSUME IInv, NEW r \in Requests, TimeOut(r)
    PROVE  IInv'
  <1>1. PICK p \in Observed : req' = [p.req EXCEPT ![r] = Idle] /\ view' = p.view
    BY DEF TimeOut
  <1>2. Waiting(r) /\ queue' = Discarded(r) /\ ledger' = ledger /\ step' = step
    BY DEF TimeOut, Polls
  <1>3. p.view \in ViewType /\ Widened(p.req)
    BY ObservedIs
  <1>4. ReqInv' /\ QueueInv' /\ LedgerInv'
    BY <1>1, <1>2, <1>3, GivesUp
  <1>5. RestInv'
    BY <1>1, <1>3, GivenUpIn DEF TimeOut, IInv, RestInv
  <1> QED BY <1>4, <1>5 DEF IInv

LEMMA AbandonStep ==
    ASSUME IInv, NEW r \in Requests, Abandon(r)
    PROVE  IInv'
  <1>1. /\ req' = [req EXCEPT ![r] = Idle]
        /\ Waiting(r) /\ queue' = Discarded(r) /\ ledger' = ledger /\ step' = step
    BY DEF Abandon
  <1>2. Widened(req)
    BY DEF Widened, IInv, ReqInv
  <1>3. ReqInv' /\ QueueInv' /\ LedgerInv'
    BY <1>1, <1>2, GivesUp
  <1>4. RestInv'
    BY GivenUpIn DEF Abandon, IInv, RestInv
  <1> QED BY <1>3, <1>4 DEF IInv

\* A request joins its queue.
LEMMA JoinsQueue ==
    ASSUME IInv, NEW r \in Requests, req[r].st = "idle", NEW q \in RequestType, Good(r, q),
           q.st = "queued", req' = [req EXCEPT ![r] = q], ledger' = ledger,
           NEW t, Grows(t, queue[RouteOf(r)], r),
           queue' = [queue EXCEPT ![RouteOf(r)] = t]
    PROVE  ReqInv' /\ Queued(queue', req') /\ LedgerInv'
  <1>1. GoodAll(req)
    BY DEF IInv, ReqInv
  <1>2. GoodAll(req')
    BY <1>1, GoodChange
  <1>3. req'[r] = q /\ \A s \in Requests : s # r => req'[s] = req[s]
    BY <1>1 DEF GoodAll
  <1>4. \A s \in Requests : \/ req'[s] = req[s]
                            \/ req[s].st # "admitted" /\ req'[s].st # "admitted"
    BY <1>3
  <1>5. LedgerInv'
    BY <1>2, <1>4, LedgerKeep DEF IInv, GoodAll
  <1>6. Queued(queue', req')
    <2>1. Queued(queue, req)
      BY DEF IInv, QueueInv
    <2>2. Joins(req, req', r)
      BY <1>3 DEF Joins
    <2>3. Queued([queue EXCEPT ![RouteOf(r)] = t], req')
      BY <2>1, <2>2, QueueJoin
    <2> QED BY <2>3
  <1> QED BY <1>2, <1>5, <1>6 DEF ReqInv

\* The queue of a request that does not wait.
LEMMA NotInQueue ==
    ASSUME IInv, NEW r \in Requests, req[r].st = "idle"
    PROVE  /\ queue[RouteOf(r)] \in Seq(Requests) /\ Inj(queue[RouteOf(r)])
           /\ r \notin Elem(queue[RouteOf(r)])
  BY ResidentType DEF IInv, QueueInv, Queued

LEMMA AdmitStep ==
    ASSUME IInv, NEW j \in Jobs, Admit(j)
    PROVE  IInv'
  <1> USE CoordinatorConstants
  <1> DEFINE d == Demand[j]
             r == Lease(j)
             q == [Idle EXCEPT !.st = "queued", !.cpu = d.cpu, !.native = d.native,
                               !.io = d.io, !.transient = d.transient, !.temp = d.temp]
             s == queue[RouteOf(r)]
             t == Append(s, r)
  <1>1. r \in Requests /\ RouteOf(r) = d.route /\ d.route \in Routes /\ r[2] = "lease"
    BY JobRequests
  <1>2. /\ req[r].st = "idle" /\ step[j] = "none"
        /\ d.resident + d.transient <= RouteBudget[d.route]
        /\ d.cpu <= CpuSlots /\ d.native <= CpuSlots /\ d.io <= IoSlots /\ d.temp <= TempBudget
        /\ req' = [req EXCEPT ![r] = q] /\ queue' = [queue EXCEPT ![RouteOf(r)] = t]
        /\ ledger' = ledger /\ step' = step
    BY <1>1 DEF Admit
  <1>3. /\ d.cpu \in 0 .. CpuSlots /\ d.native \in 0 .. CpuSlots /\ d.io \in 0 .. IoSlots
        /\ d.temp \in 0 .. TempBudget /\ d.transient \in 0 .. Budget
    <2>1. RouteBudget[d.route] \in 1 .. Budget /\ Budget \in Nat
      BY <1>1 DEF CoordinatorConstants
    <2>2. /\ d.cpu \in Nat /\ d.native \in Nat /\ d.io \in Nat /\ d.resident \in Nat
          /\ d.transient \in Nat /\ d.temp \in Nat
      BY DEF CoordinatorConstants
    <2>3. CpuSlots \in Nat /\ IoSlots \in Nat /\ TempBudget \in Nat
      BY DEF CoordinatorConstants
    <2> HIDE DEF d, CoordinatorConstants
    <2> QED BY <1>2, <2>1, <2>2, <2>3
  <1>4. /\ q.st = "queued" /\ q.mode = "new" /\ q.cpu = d.cpu /\ q.native = d.native
        /\ q.io = d.io /\ q.transient = d.transient /\ q.temp = d.temp
        /\ q.active = FALSE /\ q.width = <<0, 0, 0>> /\ q.blocked = FALSE
        /\ DOMAIN q = Fields /\ q = [f \in DOMAIN q |-> q[f]]
    BY DEF Idle, Fields
  <1> HIDE DEF q, d, r
  <1>5. q \in RequestType
    <2>1. q.width \in (0 .. CpuSlots) \X (0 .. CpuSlots) \X (0 .. IoSlots)
      BY <1>4 DEF CoordinatorConstants
    <2> QED BY <1>3, <1>4, <2>1, RequestFields
  <1>6. Good(r, q)
    BY <1>1, <1>4 DEF Good
  <1>7. s \in Seq(Requests) /\ Inj(s) /\ r \notin Elem(s)
    BY <1>1, <1>2, NotInQueue
  <1> HIDE DEF s
  <1>8. Grows(t, s, r)
    BY <1>1, <1>7, AppendElem DEF Grows
  <1> HIDE DEF t
  <1>9. ReqInv' /\ Queued(queue', req') /\ LedgerInv'
    BY <1>1, <1>2, <1>4, <1>5, <1>6, <1>8, JoinsQueue DEF s
  <1>10. \A k \in Jobs : step'[k] # "none" => req'[Turn(k)].st = "idle"
    <2>1. \A k \in Jobs : Turn(k) \in Requests /\ Turn(k) # r
      BY JobRequests DEF r
    <2>2. \A k \in Jobs : req'[Turn(k)] = req[Turn(k)]
      BY <1>2, <2>1 DEF IInv, ReqInv, GoodAll
    <2> QED BY <1>2, <2>2 DEF IInv, QueueInv
  <1>11. RestInv'
    BY DEF Admit, IInv, RestInv
  <1> QED BY <1>9, <1>10, <1>11 DEF IInv, QueueInv

LEMMA RenewStep ==
    ASSUME IInv, NEW j \in Jobs, Renew(j)
    PROVE  IInv'
  <1> USE CoordinatorConstants
  <1> DEFINE w == IF step[j] = "drain" THEN <<1, 1, 1>> ELSE req[Lease(j)].width
             r == Turn(j)
             q == [Idle EXCEPT !.st = "queued", !.mode = step[j], !.cpu = w[1],
                               !.native = w[2], !.io = w[3]]
             s == queue[RouteOf(r)]
             t == <<r>> \o s
  <1>1. r \in Requests /\ RouteOf(r) = Demand[j].route /\ r[2] = "turn" /\ Lease(j) \in Requests
    BY JobRequests
  <1>2. /\ step[j] # "none" /\ step' = [step EXCEPT ![j] = "none"] /\ ledger' = ledger
        /\ step \in [Jobs -> {"none", "renew", "drain"}]
    BY DEF Renew, IInv, RestInv
  <1>3. RestInv'
    BY <1>2 DEF Renew, IInv, RestInv
  <1>4. CASE UNCHANGED <<req, queue>>
    <2>1. \A k \in Jobs : step'[k] # "none" => req'[Turn(k)].st = "idle"
      BY <1>2, <1>4 DEF IInv, QueueInv
    <2>2. Queued(queue', req') /\ GoodAll(req')
      BY <1>4 DEF IInv, QueueInv, ReqInv
    <2>3. LedgerInv'
      BY <1>2, <1>4, <2>2, LedgerKeep DEF IInv, GoodAll
    <2> QED BY <1>3, <2>1, <2>2, <2>3 DEF IInv, QueueInv, ReqInv
  <1>5. CASE /\ req' = [req EXCEPT ![r] = q]
             /\ queue' = [queue EXCEPT ![RouteOf(r)] = t]
    <2>1. w \in (0 .. CpuSlots) \X (0 .. CpuSlots) \X (0 .. IoSlots)
      <3>1. req[Lease(j)].width \in (0 .. CpuSlots) \X (0 .. CpuSlots) \X (0 .. IoSlots)
        BY <1>1, FieldsOf DEF IInv, ReqInv, GoodAll
      <3>2. <<1, 1, 1>> \in (0 .. CpuSlots) \X (0 .. CpuSlots) \X (0 .. IoSlots)
        BY DEF CoordinatorConstants
      <3> QED BY <3>1, <3>2
    <2>2. w[1] \in 0 .. CpuSlots /\ w[2] \in 0 .. CpuSlots /\ w[3] \in 0 .. IoSlots
      BY <2>1
    <2> HIDE DEF w
    <2>3. /\ q.st = "queued" /\ q.mode = step[j] /\ q.cpu = w[1] /\ q.native = w[2]
          /\ q.io = w[3] /\ q.transient = 0 /\ q.temp = 0
          /\ q.active = FALSE /\ q.width = <<0, 0, 0>> /\ q.blocked = FALSE
          /\ DOMAIN q = Fields /\ q = [f \in DOMAIN q |-> q[f]]
      BY DEF Idle, Fields
    <2> HIDE DEF q, r
    <2>4. q \in RequestType
      <3>1. q.width \in (0 .. CpuSlots) \X (0 .. CpuSlots) \X (0 .. IoSlots)
        BY <2>3 DEF CoordinatorConstants
      <3>2. q.mode \in {"new", "renew", "drain"}
        BY <1>2, <2>3
      <3>3. q.transient \in 0 .. Budget /\ q.temp \in 0 .. TempBudget
        BY <2>3 DEF CoordinatorConstants
      <3> QED BY <2>2, <2>3, <3>1, <3>2, <3>3, RequestFields
    <2>5. Good(r, q)
      BY <1>1, <2>3 DEF Good
    <2>6. req[r].st = "idle"
      BY <1>2 DEF IInv, QueueInv, r
    <2>7. s \in Seq(Requests) /\ Inj(s) /\ r \notin Elem(s)
      BY <1>1, <2>6, NotInQueue
    <2> HIDE DEF s
    <2>8. Grows(t, s, r)
      BY <1>1, <2>7, PrependElem DEF Grows
    <2> HIDE DEF t
    <2>9. ReqInv' /\ Queued(queue', req') /\ LedgerInv'
      BY <1>1, <1>2, <1>5, <2>3, <2>4, <2>5, <2>6, <2>8, JoinsQueue DEF s
    <2>10. \A k \in Jobs : step'[k] # "none" => req'[Turn(k)].st = "idle"
      <3>1. \A k \in Jobs : Turn(k) \in Requests /\ (k # j => Turn(k) # r)
        BY JobRequests DEF r
      <3>2. \A k \in Jobs : k # j => req'[Turn(k)] = req[Turn(k)]
        BY <1>5, <3>1 DEF IInv, ReqInv, GoodAll
      <3> QED BY <1>2, <3>2 DEF IInv, QueueInv
    <2> QED BY <1>3, <2>9, <2>10 DEF IInv, QueueInv
  <1>6. \/ UNCHANGED <<req, queue>>
        \/ /\ req' = [req EXCEPT ![r] = q]
           /\ queue' = [queue EXCEPT ![RouteOf(r)] = t]
    BY <1>1 DEF Renew
  <1> QED BY <1>4, <1>5, <1>6

\* Execution is given back, with or without a checkpoint that goes on.
LEMMA GivesBackCpu ==
    ASSUME IInv, NEW j \in Jobs, ~Waiting(Turn(j)), req' = CpuReleased(j),
           ledger' = Booked(Lease(j), -1, CpuOf(j)), queue' = queue,
           \A k \in Jobs : k # j => step'[k] = step[k]
    PROVE  ReqInv' /\ QueueInv' /\ LedgerInv'
  <1>1. ReqInv
    BY DEF IInv
  <1>2. /\ GoodAll(req') /\ req'[Lease(j)] = Stopped(req[Lease(j)]) /\ req'[Turn(j)] = Idle
        /\ \A r \in Requests : r # Lease(j) /\ r # Turn(j) => req'[r] = req[r]
    BY <1>1, CpuReleasedIs
  <1>3. LedgerInv'
    <2>1. CpuOf(j) \in [Accounts -> Nat]
      BY <1>1, CpuOfIs
    <2>2. Settles(req, req', j, Minus(CpuOf(j))) /\ SettlesResident(req, req', j, Minus(CpuOf(j)))
      BY <1>1, CpuSettles
    <2> QED BY <1>1, <1>2, <2>1, <2>2, LedgerRelease DEF IInv, GoodAll
  <1>4. Lease(j) \in Requests /\ Turn(j) \in Requests /\ Lease(j) # Turn(j)
    BY JobRequests
  <1>5. req'[Lease(j)].st = req[Lease(j)].st /\ req'[Turn(j)].st = "idle"
    <2>1. Stopped(req[Lease(j)]).st = req[Lease(j)].st
      BY <1>1, <1>4, StoppedGood DEF ReqInv, GoodAll
    <2> QED BY <1>2, <2>1 DEF Idle
  <1>6. \A r \in Requests : req'[r].st = "queued" <=> req[r].st = "queued"
    BY <1>2, <1>5 DEF Waiting
  <1>7. Queued(queue', req')
    BY <1>6, QueueSame DEF IInv, QueueInv
  <1>8. ASSUME NEW k \in Jobs, step'[k] # "none" PROVE req'[Turn(k)].st = "idle"
    <2>1. CASE k = j
      BY <1>5, <2>1
    <2>2. CASE k # j
      <3>1. Turn(k) \in Requests /\ Turn(k) # Lease(j) /\ Turn(k) # Turn(j)
        BY <2>2, JobRequests DEF Lease, Turn
      <3> QED BY <1>2, <1>8, <2>2, <3>1 DEF IInv, QueueInv
    <2> QED BY <2>1, <2>2
  <1> QED BY <1>2, <1>3, <1>7, <1>8 DEF ReqInv, QueueInv

LEMMA ReleaseCpuStep ==
    ASSUME IInv, NEW j \in Jobs, ReleaseCpu(j)
    PROVE  IInv'
  <1>1. /\ ~Waiting(Turn(j)) /\ req' = CpuReleased(j) /\ queue' = queue
        /\ ledger' = Booked(Lease(j), -1, CpuOf(j)) /\ step' = step
    BY DEF ReleaseCpu, Runs
  <1>2. ReqInv' /\ QueueInv' /\ LedgerInv'
    BY <1>1, GivesBackCpu
  <1>3. RestInv'
    BY DEF ReleaseCpu, IInv, RestInv
  <1> QED BY <1>2, <1>3 DEF IInv

LEMMA YieldStep ==
    ASSUME IInv, NEW j \in Jobs, NEW mode \in {"renew", "drain"}, Yield(j, mode)
    PROVE  IInv'
  <1>1. /\ ~Waiting(Turn(j)) /\ req' = CpuReleased(j) /\ queue' = queue
        /\ ledger' = Booked(Lease(j), -1, CpuOf(j)) /\ step' = [step EXCEPT ![j] = mode]
    BY DEF Yield, Runs
  <1>2. step \in [Jobs -> {"none", "renew", "drain"}]
    BY DEF IInv, RestInv
  <1>3. ReqInv' /\ QueueInv' /\ LedgerInv'
    BY <1>1, <1>2, GivesBackCpu
  <1>4. RestInv'
    BY <1>1, <1>2 DEF Yield, IInv, RestInv
  <1> QED BY <1>3, <1>4 DEF IInv

LEMMA EndLeaseStep ==
    ASSUME IInv, NEW j \in Jobs, EndLease(j)
    PROVE  IInv'
  <1>1. Lease(j) \in Requests /\ Turn(j) \in Requests /\ Lease(j) # Turn(j)
    BY JobRequests
  <1>2. ReqInv /\ Live(j)
    BY DEF IInv, EndLease
  <1>3. /\ req' = EndedReq(j) /\ ledger' = Booked(Lease(j), -1, Ended(j))
        /\ queue' = queue /\ step' = step
    BY <1>1 DEF EndLease, EndedReq
  <1>4. /\ GoodAll(req') /\ req'[Lease(j)] = Idle
        /\ req'[Turn(j)] = IF Waiting(Turn(j)) THEN req[Turn(j)] ELSE Idle
        /\ \A r \in Requests : r # Lease(j) /\ r # Turn(j) => req'[r] = req[r]
    BY <1>2, <1>3, EndedReqIs
  <1>5. LedgerInv'
    <2>1. /\ Ended(j) \in [Accounts -> Nat]
          /\ Settles(req, req', j, Minus(Ended(j))) /\ SettlesResident(req, req', j, Minus(Ended(j)))
      BY <1>2, <1>3, EndSettles
    <2> QED BY <1>2, <1>3, <1>4, <2>1, LedgerRelease DEF IInv, GoodAll
  <1>6. Idle.st = "idle"
    BY DEF Idle
  <1>7. \A r \in Requests : req'[r].st = req[r].st \/ (~Waiting(r) /\ req'[r].st = "idle")
    <2>1. ~Waiting(Lease(j))
      BY <1>2 DEF Live, Waiting
    <2> QED BY <1>4, <1>6, <2>1
  <1>8. Queued(queue', req')
    BY <1>3, <1>7, QueueSame DEF IInv, QueueInv, Waiting
  <1>9. \A k \in Jobs : step'[k] # "none" => req'[Turn(k)].st = "idle"
    BY <1>3, <1>7, StepKeep DEF IInv
  <1>10. RestInv'
    BY DEF EndLease, IInv, RestInv
  <1> QED BY <1>4, <1>5, <1>8, <1>9, <1>10 DEF IInv, ReqInv, QueueInv

\* A lease changes what it retains.
LEMMA Retains ==
    ASSUME IInv, NEW j \in Jobs, Live(j), NEW q \in RequestType,
           q.st = "admitted", q.mode = req[Lease(j)].mode, q.active = req[Lease(j)].active,
           q.cpu = req[Lease(j)].cpu, q.native = req[Lease(j)].native, q.io = req[Lease(j)].io,
           req' = [req EXCEPT ![Lease(j)] = q], queue' = queue, step' = step,
           NEW c \in [Accounts -> Int], \A a \in Exec \cup {"running", "resident"} : c[a] = 0,
           c["transient"] = q.transient - req[Lease(j)].transient,
           c["temp"] = q.temp - req[Lease(j)].temp, c["reserved"] = c["transient"]
    PROVE  /\ ReqInv' /\ QueueInv'
           /\ Settles(req, req', j, c) /\ SettlesResident(req, req', j, c)
  <1> DEFINE l == req[Lease(j)]
  <1>1. /\ Lease(j) \in Requests /\ Turn(j) \in Requests /\ Lease(j) # Turn(j)
        /\ Lease(j)[2] = "lease"
    BY JobRequests
  <1>2. GoodAll(req) /\ l \in RequestType /\ Good(Lease(j), l) /\ l.st = "admitted"
    BY <1>1 DEF IInv, ReqInv, GoodAll, Live
  <1>3. Good(Lease(j), q)
    BY <1>1, <1>2 DEF Good
  <1>4. GoodAll(req')
    BY <1>1, <1>2, <1>3, GoodChange
  <1>5. req'[Lease(j)] = q /\ \A r \in Requests : r # Lease(j) => req'[r] = req[r]
    BY <1>1, <1>2 DEF GoodAll
  <1>6. \A r \in Requests : req'[r].st = req[r].st
    BY <1>2, <1>5
  <1>7. QueueInv'
    <2>1. Queued(queue', req')
      <3>1. Queued(queue, req)
        BY DEF IInv, QueueInv
      <3>2. \A s \in Requests : req'[s].st = "queued" <=> req[s].st = "queued"
        BY <1>6, Zenon
      <3>3. Queued(queue, req')
        <4>1. \A x : {s \in Requests : req'[s].st = "queued" /\ RouteOf(s) = x}
                       = {s \in Requests : req[s].st = "queued" /\ RouteOf(s) = x}
          BY <3>2
        <4> QED BY <3>1, <4>1, Zenon DEF Queued
      <3> QED BY <3>3, queue' = queue
    <2>2. \A k \in Jobs : step'[k] # "none" => req'[Turn(k)].st = "idle"
      BY <1>6, StepKeep DEF IInv
    <2> QED BY <2>1, <2>2 DEF QueueInv
  <1>8. \A a \in Plain : Hold(l, a) \in Nat /\ Hold(q, a) \in Nat /\ Hold(req[Turn(j)], a) \in Nat
    BY <1>1, <1>2, HoldType DEF GoodAll
  <1>9. ASSUME NEW a \in Plain PROVE c[a] = Hold(q, a) - Hold(l, a)
    <2>1. CASE a \in Exec \cup {"running"}
      <3>1. Hold(q, a) = Hold(l, a)
        BY <1>2, <2>1 DEF Hold, Exec
      <3> QED BY <1>8, <2>1, <3>1
    <2>2. CASE a \in {"transient", "temp"}
      BY <1>2, <2>2 DEF Hold
    <2> QED BY <2>1, <2>2 DEF Plain
  <1> HIDE DEF l
  <1>10. \A a \in Plain : Hold(req'[Turn(j)], a) = Hold(req[Turn(j)], a)
    BY <1>1, <1>5
  <1>11. ASSUME NEW a \in Plain
         PROVE  c[a] = (Hold(req'[Lease(j)], a) - Hold(l, a))
                          + (Hold(req'[Turn(j)], a) - Hold(req[Turn(j)], a))
    BY <1>5, <1>8, <1>9, <1>10
  <1>12. c["reserved"] = c["resident"] + c["transient"]
    <2>1. c["resident"] = 0 /\ c["transient"] \in Int
      BY DEF Accounts
    <2> QED BY <2>1
  <1>13. Settles(req, req', j, c)
    BY <1>5, <1>11, <1>12 DEF Settles, l
  <1>14. \A x : ResUnits(req', x) = ResUnits(req, x)
    <2>1. \A r \in Requests : r[2] = "lease" => (Admits(req, r) <=> Admits(req', r))
      BY <1>6, Zenon DEF Admits
    <2> QED BY <2>1, ResidentSame
  <1>15. \A x : Cardinality(ResUnits(req, x)) \in Nat
    BY ResUnitsFinite, FS_CardinalityType
  <1>16. SettlesResident(req, req', j, c)
    <2>1. c["resident"] = 0
      OBVIOUS
    <2>2. \A x : Cardinality(ResUnits(req', x)) = Cardinality(ResUnits(req, x))
      BY <1>14, Zenon
    <2>3. \A n \in Nat : n = n + c["resident"]
      BY <2>1
    <2>4. \A x : Cardinality(ResUnits(req', x)) = Cardinality(ResUnits(req, x)) + c["resident"]
      BY <1>15, <2>2, <2>3, Zenon
    <2> QED BY <1>14, <2>4, Zenon DEF SettlesResident
  <1> QED BY <1>4, <1>7, <1>13, <1>16 DEF ReqInv

LEMMA ShrinkStep ==
    ASSUME IInv, NEW j \in Jobs, Shrink(j)
    PROVE  IInv'
  <1> DEFINE l == req[Lease(j)]
             Back(n) == [a \in Accounts |-> IF a \in {"reserved", "transient"}
                                            THEN l.transient - n ELSE 0]
  <1>1. PICK n \in 0 .. l.transient - 1 :
           /\ req' = [req EXCEPT ![Lease(j)].transient = n]
           /\ ledger' = Booked(Lease(j), -1, Back(n))
    BY DEF Shrink
  <1>2. /\ Live(j) /\ queue' = queue /\ step' = step
    BY DEF Shrink, Runs
  <1>3. Lease(j) \in Requests /\ l \in RequestType /\ l.st = "admitted"
    BY <1>2, JobRequests DEF IInv, ReqInv, GoodAll, Live
  <1>4. l.transient \in 0 .. Budget /\ Budget \in Nat
    BY <1>3, CoordinatorConstants, FieldsOf DEF CoordinatorConstants
  <1>5. n \in 0 .. Budget /\ l.transient - n \in Nat
    BY <1>1, <1>4
  <1> DEFINE q == [l EXCEPT !.transient = n]
             c == Back(n)
  <1>6. /\ q \in RequestType /\ q.st = "admitted" /\ q.mode = l.mode /\ q.active = l.active
        /\ q.cpu = l.cpu /\ q.native = l.native /\ q.io = l.io /\ q.transient = n
        /\ q.temp = l.temp
    BY <1>3, <1>5 DEF RequestType
  <1>7. req' = [req EXCEPT ![Lease(j)] = q]
    BY <1>1, <1>3
  <1>8. /\ c \in [Accounts -> Nat] /\ Minus(c) \in [Accounts -> Int]
        /\ \A a \in Exec \cup {"running", "resident", "temp"} : Minus(c)[a] = 0
        /\ Minus(c)["transient"] = n - l.transient /\ Minus(c)["reserved"] = n - l.transient
    <2>1. \A a \in Accounts : c[a] = IF a \in {"reserved", "transient"} THEN l.transient - n ELSE 0
      OBVIOUS
    <2>2. \A a \in Accounts : c[a] \in Nat
      BY <1>5, <2>1
    <2>3. c \in [Accounts -> Nat]
      BY <2>2
    <2> HIDE DEF c, l
    <2>4. /\ Minus(c) \in [Accounts -> Int]
          /\ \A a \in Accounts : Minus(c)[a] = -c[a]
      BY <2>3 DEF Minus
    <2>5. \A a \in Exec \cup {"running", "resident", "temp"} :
             a \in Accounts /\ a \notin {"reserved", "transient"}
      BY DEF Accounts, Exec
    <2>6. "reserved" \in Accounts /\ "transient" \in Accounts
      BY DEF Accounts
    <2>7. \A a \in Exec \cup {"running", "resident", "temp"} : Minus(c)[a] = 0
      BY <2>1, <2>4, <2>5
    <2>8. Minus(c)["transient"] = n - l.transient /\ Minus(c)["reserved"] = n - l.transient
      BY <1>1, <1>4, <2>1, <2>4, <2>6
    <2> QED BY <2>3, <2>4, <2>7, <2>8
  <1>9. l.temp \in Nat
    BY <1>3, CoordinatorConstants, FieldsOf DEF CoordinatorConstants
  <1> HIDE DEF q, c
  <1>10. /\ ReqInv' /\ QueueInv'
         /\ Settles(req, req', j, Minus(c)) /\ SettlesResident(req, req', j, Minus(c))
    <2>1. Minus(c)["temp"] = q.temp - l.temp
      BY <1>6, <1>8, <1>9
    <2> QED BY <1>2, <1>6, <1>7, <1>8, <2>1, Retains
  <1>11. LedgerInv'
    BY <1>1, <1>8, <1>10, LedgerRelease DEF IInv, ReqInv, GoodAll, c
  <1>12. RestInv'
    BY DEF Shrink, IInv, RestInv
  <1> QED BY <1>10, <1>11, <1>12 DEF IInv


LEMMA ResizeTempStep ==
    ASSUME IInv, NEW j \in Jobs, ResizeTemp(j)
    PROVE  IInv'
  <1> DEFINE l == req[Lease(j)]
             Delta(n) == [a \in Accounts |-> IF a = "temp" THEN n - l.temp ELSE 0]
  <1>1. PICK n \in (0 .. TempBudget) \ {l.temp} :
           /\ ledger[0]["temp"] + (n - l.temp) <= TempBudget \/ n - l.temp < 0
           /\ req' = [req EXCEPT ![Lease(j)].temp = n]
           /\ ledger' = Booked(Lease(j), 1, Delta(n))
    BY DEF ResizeTemp
  <1>2. /\ Live(j) /\ queue' = queue /\ step' = step
    BY DEF ResizeTemp, Runs
  <1>3. Lease(j) \in Requests /\ l \in RequestType /\ l.st = "admitted"
    BY <1>2, JobRequests DEF IInv, ReqInv, GoodAll, Live
  <1>4. /\ l.temp \in 0 .. TempBudget /\ TempBudget \in Nat
        /\ l.transient \in 0 .. Budget /\ Budget \in Nat
    BY <1>3, CoordinatorConstants, FieldsOf DEF CoordinatorConstants
  <1> DEFINE q == [l EXCEPT !.temp = n]
             c == Delta(n)
  <1>5. /\ q \in RequestType /\ q.st = "admitted" /\ q.mode = l.mode /\ q.active = l.active
        /\ q.cpu = l.cpu /\ q.native = l.native /\ q.io = l.io /\ q.temp = n
        /\ q.transient = l.transient
    BY <1>3 DEF RequestType
  <1>6. req' = [req EXCEPT ![Lease(j)] = q]
    BY <1>1, <1>3
  <1>7. \A a \in Accounts : c[a] = IF a = "temp" THEN n - l.temp ELSE 0
    OBVIOUS
  <1>8. c \in [Accounts -> Int]
    BY <1>1, <1>4
  <1>9. ledger' = Booked(Lease(j), 1, c)
    BY <1>1
  <1> HIDE DEF l, q, c
  <1>10. ledger' = Changed(ledger, RouteOf(Lease(j)), c)
    BY <1>8, <1>9, BookedIsChanged
  <1>11. {"reserved", "temp", "cpu", "native", "io", "transient", "running", "resident"} = Accounts
    BY DEF Accounts, Exec
  <1>12. /\ \A a \in Exec \cup {"running", "resident"} : c[a] = 0
         /\ c["transient"] = 0 /\ c["reserved"] = 0 /\ c["temp"] = n - l.temp
    BY <1>7, <1>11 DEF Exec
  <1>13. /\ ReqInv' /\ QueueInv'
         /\ Settles(req, req', j, c) /\ SettlesResident(req, req', j, c)
    <2>1. c["transient"] = q.transient - l.transient /\ c["temp"] = q.temp - l.temp
      BY <1>4, <1>5, <1>12
    <2> QED BY <1>2, <1>5, <1>6, <1>8, <1>12, <2>1, Retains DEF l
  <1>14. WithinLimits'
    <2>1. /\ ledger \in [0 .. NRoutes -> [Accounts -> Nat]] /\ WithinLimits
          /\ 0 \in 0 .. NRoutes /\ Routes \subseteq 0 .. NRoutes
      BY LedgerTypes DEF IInv, LedgerInv
    <2>2. ASSUME NEW x \in 0 .. NRoutes, NEW a \in Accounts, a # "temp"
          PROVE  ledger'[x][a] = ledger[x][a]
      <3>1. c[a] = 0 /\ ledger[x][a] \in Nat
        BY <1>7, <2>1, <2>2
      <3> QED BY <1>10, <3>1 DEF Changed
    <2>3. ledger'[0]["temp"] <= TempBudget
      <3>1. ledger'[0]["temp"] = ledger[0]["temp"] + (n - l.temp)
        BY <1>10, <1>11, <1>12, <2>1 DEF Changed
      <3>2. ledger[0]["temp"] \in Nat /\ ledger[0]["temp"] <= TempBudget
        BY <1>11, <2>1 DEF WithinLimits
      <3>3. ledger[0]["temp"] + (n - l.temp) <= TempBudget
        BY <1>1, <1>4, <3>2
      <3> QED BY <3>1, <3>3
    <2>4. /\ \A x \in 0 .. NRoutes : ledger'[x]["reserved"] = ledger[x]["reserved"]
          /\ ledger'[0]["cpu"] = ledger[0]["cpu"] /\ ledger'[0]["native"] = ledger[0]["native"]
          /\ ledger'[0]["io"] = ledger[0]["io"]
      BY <1>11, <2>1, <2>2
    <2> QED BY <2>1, <2>3, <2>4 DEF WithinLimits
  <1>15. LedgerInv'
    BY <1>8, <1>10, <1>13, <1>14, LedgerChange DEF IInv, ReqInv, GoodAll
  <1>16. RestInv'
    BY DEF ResizeTemp, IInv, RestInv
  <1> QED BY <1>13, <1>15, <1>16 DEF IInv

\* What concerns neither requests nor queues nor the ledger.
LEMMA RestStep ==
    ASSUME IInv, UNCHANGED <<req, queue, ledger, step>>, RestInv'
    PROVE  IInv'
  <1>1. ReqInv'
    BY DEF IInv, ReqInv
  <1>2. QueueInv'
    BY DEF IInv, QueueInv
  <1>3. LedgerInv'
    BY <1>1, LedgerKeep DEF IInv, ReqInv, GoodAll
  <1> QED BY <1>1, <1>2, <1>3 DEF IInv

LEMMA MonitorStep ==
    ASSUME IInv, Monitor
    PROVE  IInv'
  <1>1. view' \in ViewType
    BY ObservationType DEF IInv, RestInv, Monitor
  <1>2. RestInv'
    BY <1>1 DEF IInv, RestInv, Monitor
  <1> QED BY <1>2, RestStep DEF Monitor

LEMMA EnvironmentStep ==
    ASSUME IInv, Environment
    PROVE  IInv'
  <1>1. changes' \in 0 .. MaxChanges
    BY CoordinatorConstants DEF CoordinatorConstants, IInv, RestInv, Environment
  <1>2. RestInv'
    BY <1>1 DEF IInv, RestInv, Environment
  <1> QED BY <1>2, RestStep DEF Environment

LEMMA CancelStep ==
    ASSUME IInv, NEW S \in SUBSET Jobs, Cancel(S)
    PROVE  IInv'
  <1>1. changes' \in 0 .. MaxChanges
    BY CoordinatorConstants DEF CoordinatorConstants, IInv, RestInv, Cancel
  <1>2. RestInv'
    BY <1>1 DEF IInv, RestInv, Cancel
  <1> QED BY <1>2, RestStep DEF Cancel

-----------------------------------------------------------------------------
(* The theorems. *)

\* At the beginning nobody asks, waits or holds anything.
LEMMA InitInv == Init => IInv
  <1> SUFFICES ASSUME Init PROVE IInv
    OBVIOUS
  <1> USE CoordinatorConstants
  <1>1. /\ CpuSlots \in Nat \ {0} /\ IoSlots \in Nat /\ Budget \in Nat /\ TempBudget \in Nat
        /\ NRoutes \in Nat /\ MaxChanges \in Nat /\ RouteBudget \in [Routes -> 1 .. Budget]
    BY DEF CoordinatorConstants
  <1>2. \A r \in Requests : req[r] = Idle
    BY DEF Init
  <1>3. ReqInv
    <2>1. \A r : Idle \in RequestType /\ Good(r, Idle)
      BY IdleGood
    <2> QED BY <1>2, <2>1 DEF ReqInv, GoodAll, Init
  <1>4. \A r \in Requests : req[r].st = "idle"
    BY <1>2 DEF Idle
  <1>5. QueueInv
    <2>1. queue = [x \in Routes |-> <<>>]
      BY DEF Init
    <2>2. \A x \in Routes : queue[x] = <<>> /\ Len(queue[x]) = 0
      BY <2>1
    <2>3. queue \in [Routes -> Seq(Requests)]
      BY <2>1
    <2>4. \A x \in Routes : Inj(queue[x]) /\ Elem(queue[x]) = {}
      BY <2>2 DEF Inj, Elem
    <2>5. \A x : {r \in Requests : req[r].st = "queued" /\ RouteOf(r) = x} = {}
      BY <1>4
    <2>6. Queued(queue, req)
      BY <2>3, <2>4, <2>5, Zenon DEF Queued
    <2>7. \A j \in Jobs : step[j] = "none"
      BY DEF Init
    <2> QED BY <2>6, <2>7 DEF QueueInv
  <1>6. ledger \in [0 .. NRoutes -> [Accounts -> Nat]]
    BY DEF Init
  <1>7. \A x \in 0 .. NRoutes : \A a \in Accounts : ledger[x][a] = 0
    BY DEF Init
  <1>8. /\ \A a \in Plain : a \in Accounts
        /\ {"resident", "reserved", "transient", "temp", "cpu", "native", "io"} \subseteq Accounts
    BY DEF Plain, Accounts, Exec
  <1>9. Counted(req, ledger)
    <2>1. Cardinality({}) = 0
      BY FS_EmptySet
    <2>2. \A x : ResUnits(req, x) = {}
      <3>1. \A x : \A u : u \notin ResUnits(req, x)
        BY <1>4, ResUnitsMember DEF Admits
      <3> QED BY <3>1, Zenon
    <2>3. \A x : \A a \in Plain : Pile(Amounts(req, x, a)) = {}
      <3>1. \A x : \A a \in Plain : \A r \in Requests : Amounts(req, x, a)[r] = 0
        BY <1>4 DEF Amounts, Hold
      <3>2. \A x : \A a \in Plain : \A r \in Requests : 1 .. Amounts(req, x, a)[r] = {}
        BY <3>1
      <3> QED BY <3>2 DEF Pile, Units
    <2>4. ASSUME NEW x \in 0 .. NRoutes
          PROVE  /\ ledger[x]["resident"] = Cardinality(ResUnits(req, x))
                 /\ ledger[x]["reserved"] = ledger[x]["resident"] + ledger[x]["transient"]
      <3>1. ledger[x]["resident"] = 0 /\ ledger[x]["reserved"] = 0 /\ ledger[x]["transient"] = 0
        BY <1>7, <1>8
      <3>2. Cardinality(ResUnits(req, x)) = 0
        BY <2>1, <2>2, Zenon
      <3> QED BY <3>1, <3>2
    <2>5. ASSUME NEW x \in 0 .. NRoutes, NEW a \in Plain
          PROVE  ledger[x][a] = Cardinality(Pile(Amounts(req, x, a)))
      <3>1. ledger[x][a] = 0
        BY <1>7, <1>8
      <3> QED BY <2>1, <2>3, <3>1, Zenon
    <2> QED BY <2>4, <2>5 DEF Counted
  <1>10. WithinLimits
    <2>1. 0 \in 0 .. NRoutes /\ \A x \in Routes : x \in 0 .. NRoutes /\ RouteBudget[x] \in Nat
      BY <1>1 DEF Routes
    <2>2. \A x \in 0 .. NRoutes : ledger[x]["reserved"] = 0
      BY <1>7, <1>8
    <2>3. /\ ledger[0]["temp"] = 0 /\ ledger[0]["cpu"] = 0 /\ ledger[0]["native"] = 0
          /\ ledger[0]["io"] = 0
      BY <1>7, <1>8, <2>1
    <2> QED BY <1>1, <2>1, <2>2, <2>3 DEF WithinLimits
  <1>11. LedgerInv
    BY <1>3, <1>6, <1>9, <1>10, ExactIsCounted DEF ReqInv, GoodAll, LedgerInv
  <1>12. view \in ViewType
    BY <1>1 DEF Init, InitView, ViewType
  <1>13. RestInv
    BY <1>1, <1>12 DEF Init, RestInv
  <1> QED BY <1>3, <1>5, <1>11, <1>13 DEF IInv

LEMMA NextInv == IInv /\ [Next]_vars => IInv'
  <1> SUFFICES ASSUME IInv, [Next]_vars PROVE IInv'
    OBVIOUS
  <1>1. CASE \E r \in Requests : Grant(r) \/ Wait(r) \/ TimeOut(r) \/ Abandon(r)
    BY <1>1, GrantStep, WaitStep, TimeOutStep, AbandonStep
  <1>2. ASSUME NEW j \in Jobs,
               Admit(j) \/ Renew(j) \/ ReleaseCpu(j) \/ Exit(j) \/ Shrink(j) \/ ResizeTemp(j)
        PROVE  IInv'
    <2>1. Exit(j) => EndLease(j)
      BY DEF Exit
    <2> QED BY <1>2, <2>1, AdmitStep, RenewStep, ReleaseCpuStep, EndLeaseStep, ShrinkStep,
               ResizeTempStep
  <1>3. CASE \E j \in Jobs, mode \in {"renew", "drain"} : Yield(j, mode)
    BY <1>3, YieldStep
  <1>4. CASE Monitor
    BY <1>4, MonitorStep
  <1>5. CASE Environment
    BY <1>5, EnvironmentStep
  <1>6. CASE Cancel(Jobs \ cancelled)
    BY <1>6, CancelStep
  <1>7. CASE \E j \in Jobs : Cancel({j})
    BY <1>7, CancelStep
  <1>8. CASE UNCHANGED vars
    <2>1. UNCHANGED <<req, queue, ledger, step>> /\ RestInv'
      BY <1>8 DEF vars, IInv, RestInv
    <2> QED BY <2>1, RestStep
  <1> QED BY <1>1, <1>2, <1>3, <1>4, <1>5, <1>6, <1>7, <1>8 DEF Next

\* The four parts of the invariant hold together in every reachable state:
\* requests are well formed, queues hold the waiting requests once, the
\* ledger is exact and within its limits, and the rest has its type.
THEOREM Invariance == Spec => []IInv
  BY InitInv, NextInv, PTL DEF Spec

\* A sequence without repetitions is as long as the set of its elements.
LEMMA InjLength ==
    ASSUME NEW s \in Seq(Requests), Inj(s)
    PROVE  Cardinality(Elem(s)) = Len(s)
  <1> DEFINE f == [i \in 1 .. Len(s) |-> s[i]]
  <1>1. Len(s) \in Nat
    OBVIOUS
  <1>2. f \in Bijection(1 .. Len(s), Elem(s))
    <2>1. f \in [1 .. Len(s) -> Elem(s)]
      BY DEF Elem
    <2>2. \A i, k \in 1 .. Len(s) : f[i] = f[k] => i = k
      BY DEF Inj
    <2>3. \A e \in Elem(s) : \E i \in 1 .. Len(s) : f[i] = e
      BY DEF Elem
    <2> HIDE DEF f
    <2> QED BY <2>1, <2>2, <2>3 DEF Bijection, Injection, IsInjective, Surjection
  <1>3. IsFiniteSet(1 .. Len(s)) /\ Cardinality(1 .. Len(s)) = Len(s)
    BY <1>1, FS_Interval, 1 \in Int
  <1>4. Cardinality(1 .. Len(s)) = Cardinality(Elem(s))
    BY <1>2, <1>3, FS_Bijection DEF ExistsBijection
  <1> QED BY <1>3, <1>4, Zenon

\* Every variable has its type, and a request is in the queue of its route,
\* once, exactly while it is marked queued, whoever was granted, timed out,
\* was cancelled or asked once more in between (_discard_queued_request_locked,
\* _grant_request_locked).
THEOREM TypeCorrect == Spec => []TypeOK
  <1>1. IInv => TypeOK
    <2> SUFFICES ASSUME IInv PROVE TypeOK
      OBVIOUS
    <2>1. req \in [Requests -> RequestType]
      BY DEF IInv, ReqInv, GoodAll
    <2>2. queue \in [Routes -> Seq(Requests)]
      BY DEF IInv, QueueInv, Queued
    <2>3. ASSUME NEW x \in Routes
          PROVE  /\ Elem(queue[x]) = {r \in Requests : Waiting(r) /\ RouteOf(r) = x}
                 /\ Inj(queue[x])
      BY Zenon DEF IInv, QueueInv, Queued, Waiting
    <2>4. ASSUME NEW x \in Routes
          PROVE  Len(queue[x]) = Cardinality({r \in Requests : Waiting(r) /\ RouteOf(r) = x})
      <3>1. Cardinality(Elem(queue[x])) = Len(queue[x])
        BY <2>2, <2>3, InjLength
      <3> QED BY <2>3, <3>1, Zenon
    <2>5. \A x \in Routes : {queue[x][i] : i \in 1 .. Len(queue[x])}
                              = {r \in Requests : Waiting(r) /\ RouteOf(r) = x}
      BY <2>3, Zenon DEF Elem
    <2>6. ledger \in [0 .. NRoutes -> [Accounts -> Nat]] /\ RestInv
      BY DEF IInv, LedgerInv
    <2> QED BY <2>1, <2>4, <2>5, <2>6, Zenon DEF TypeOK, RestInv, ViewType
  <1> QED BY <1>1, Invariance, PTL

\* The counters of the coordinator and of every route are exactly what the
\* admitted requests hold, for any number of jobs, demands and routes: whatever
\* the order in which leases that share a residence come and go, no byte, slot
\* or thread is given back twice or never (_grant_request_locked, release,
\* release_cpu, shrink_transient_bytes, resize_temp_bytes).
THEOREM LedgerIsExact == Spec => []LedgerExact
  <1>1. IInv => LedgerExact
    BY DEF IInv, LedgerInv
  <1> QED BY <1>1, Invariance, PTL

\* What is admitted never exceeds the memory budget of the run or of a route,
\* the temporary space, the CPU slots or the I/O slots (_fits_locked): the
\* widths of adaptive batches and the slot set aside for a drain included.
THEOREM LimitsKept == Spec => []WithinLimits
  <1>1. IInv => WithinLimits
    BY DEF IInv, LedgerInv
  <1> QED BY <1>1, Invariance, PTL
==============================================================================
