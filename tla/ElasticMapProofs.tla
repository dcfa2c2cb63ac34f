--------------------------- MODULE ElasticMapProofs ---------------------------
(***************************************************************************)
(* Proofs about ElasticMap for every number of maps, items, workers and    *)
(* faults, on a coordinator with any budgets.  The invariant of the        *)
(* coordinator is carried along; what is added to it is which request of   *)
(* the coordinator belongs to which thread of a map.                       *)
(***************************************************************************)
EXTENDS ElasticMap, ResourceCoordinatorProofs

\* The iteration of map m is over.
Over(m) == owner[m] \in {"closing", "stopping", "closed"}

\* The taken item of m was not handed to the caller yet.
Turning(m) == owner[m] \in {"draining", "waiting"}

MapTypes ==
    /\ size \in Sizes
    /\ owner \in [Maps -> {"fill", "handoff", "pick", "probing", "probed", "draining", "waiting",
                           "consuming", "joining", "closing", "stopping", "closed"}]
    /\ sup \in [Works -> {"none", "start", "asking", "holding", "running", "ready", "leaving",
                          "finished"}]
    /\ current \in [Maps -> Nat] /\ pulled \in [Maps -> Nat]
    /\ pending \in [Maps -> Seq(Nat)] /\ out \in [Maps -> Seq(Nat)]
    /\ outcome \in [Maps -> {"none", "done", "failed", "left"}]

\* What the source has yielded bounds what is pending, taken or started.
PullOf(m) ==
    /\ pulled[m] <= size[m]
    /\ owner[m] \in {"probing", "probed"} => pulled[m] < size[m]
    /\ \A k \in 1 .. Len(pending[m]) : pending[m][k] \in 1 .. pulled[m]
    /\ \A k \in 1 .. Len(out[m]) : out[m][k] \in 1 .. pulled[m]
    /\ current[m] <= pulled[m]
    /\ Turning(m) \/ owner[m] \in {"consuming", "joining"} => current[m] > 0

PullInv ==
    /\ \A m \in Maps : PullOf(m)
    /\ \A w \in Works : w[2] > pulled[w[1]] => sup[w] = "none"
    /\ \A w \in freed : w \in Works /\ w[2] <= pulled[w[1]]

\* The state of a lease, from where its thread is.
WorkLease(s) ==
    IF s = "asking" THEN "queued"
    ELSE IF s \in {"holding", "running", "ready", "leaving"} THEN "admitted" ELSE "idle"
ProbeLease(o) ==
    IF o = "probing" THEN "queued" ELSE IF o = "probed" THEN "admitted" ELSE "idle"

\* The owner of w's map is in state o with w as its current item.
At(w, o) == owner[w[1]] = o /\ current[w[1]] = w[2]

\* A work has the lease its supervisor is at, and a turn or a checkpoint
\* under way only as the current item of its map.
WorkOK(w) ==
    /\ req[Lease(w)].st = WorkLease(sup[w])
    /\ step[w] = IF At(w, "draining") THEN "drain" ELSE "none"
    /\ req[Turn(w)].st = "queued" <=> At(w, "waiting")
    /\ req[Turn(w)].st = "admitted" => At(w, "consuming") \/ At(w, "closing")
    /\ req[Turn(w)].st # "idle" => req[Turn(w)].mode = "drain"

ProbeOK(m) ==
    /\ req[Lease(Probe(m))].st = ProbeLease(owner[m])
    /\ req[Turn(Probe(m))].st = "idle" /\ step[Probe(m)] = "none"

ThreadInv == (\A w \in Works : WorkOK(w)) /\ (\A m \in Maps : ProbeOK(m))

\* A map is cancelled as a whole; an item that is pending, or that was taken
\* and not asked to go, is not released; an item that is drained or consumed
\* is held by its supervisor, unless the map stops.
HoldOK(m) ==
    /\ Stop(m) \/ JobsOf(m) \cap cancelled = {}
    /\ \A w \in freed : w[1] = m /\ owner[m] \notin {"stopping", "closed"} =>
          /\ \A k \in 1 .. Len(pending[m]) : pending[m][k] # w[2]
          /\ current[m] = w[2] => owner[m] = "joining"
    /\ Turning(m) \/ owner[m] = "consuming" => Stop(m) \/ sup[Current(m)] = "ready"
    /\ owner[m] = "consuming" => Stop(m) \/ req[Turn(Current(m))].st = "admitted"
    /\ owner[m] = "closed" => Drained(m)

HoldInv == \A m \in Maps : HoldOK(m)

\* Sequences: together without repetition; without c; 1, 2, ...; the last
\* numbers up to n.
Distinct(o, p) ==
    /\ Inj(o) /\ Inj(p)
    /\ \A i \in 1 .. Len(o), k \in 1 .. Len(p) : o[i] # p[k]
Absent(c, s)  == \A k \in 1 .. Len(s) : s[k] # c
InOrder(s)    == \A k \in 1 .. Len(s) : s[k] = k
Latest(s, n)  == \A k \in 1 .. Len(s) : s[k] = n - Len(s) + k

\* The items pulled so far are the delivered ones, the one in the owner's
\* hands and the pending ones, each once, in input order unless the map asked
\* for completion order.
DeliverOf(m) ==
    /\ Distinct(out[m], pending[m])
    /\ Turning(m) => Absent(current[m], out[m])
    /\ Turning(m) \/ owner[m] \in {"consuming", "joining"} => Absent(current[m], pending[m])
    /\ Turning(m) => Len(out[m]) + Len(pending[m]) + 1 = pulled[m]
    /\ ~Turning(m) /\ ~Over(m) => Len(out[m]) + Len(pending[m]) = pulled[m]
    /\ m \notin Completion =>
          /\ InOrder(out[m])
          /\ ~Over(m) => Latest(pending[m], pulled[m])
          /\ Turning(m) => current[m] = Len(out[m]) + 1
    /\ outcome[m] = "done" => Over(m) /\ Len(out[m]) = size[m]

DeliverInv == \A m \in Maps : DeliverOf(m)

\* The inductive invariant.
MInv == IInv /\ MapTypes /\ PullInv /\ ThreadInv /\ HoldInv /\ DeliverInv

-----------------------------------------------------------------------------
(* Names. *)

LEMMA LongestBounds ==
    ASSUME NEW m \in Maps
    PROVE  Longest \in Nat /\ \A s \in Sizes : s[m] \in Nat /\ s[m] <= Longest
  <1> DEFINE L == {s[k] : s \in Sizes, k \in Maps}
             P == Sizes \X Maps
             f == [p \in P |-> p[1][p[2]]]
  <1>1. \A s \in Sizes : \A k \in Maps : s[k] \in L /\ s[k] \in Nat
    BY MapConstants DEF MapConstants
  <1>2. \A y \in L : \E s \in Sizes : \E k \in Maps : y = s[k]
    OBVIOUS
  <1>3. IsFiniteSet(P) /\ Sizes # {}
    BY MapConstants, FS_Product DEF MapConstants
  <1>4. Longest = Max(L)
    BY DEF Longest
  <1>5. \A s \in Sizes : \A k \in Maps : <<s, k>> \in P /\ f[<<s, k>>] = s[k]
    OBVIOUS
  <1>6. \A p \in P : p[1] \in Sizes /\ p[2] \in Maps /\ f[p] = p[1][p[2]]
    OBVIOUS
  <1>7. f \in [P -> L]
    <2> HIDE DEF L
    <2> QED BY <1>1
  <1> HIDE DEF L, f, P
  <1>8. IsFiniteSet(L)
    <2>1. \A y \in L : \E p \in P : f[p] = y
      <3> SUFFICES ASSUME NEW y \in L PROVE \E p \in P : f[p] = y
        OBVIOUS
      <3>1. PICK s \in Sizes, k \in Maps : y = s[k]
        BY <1>2
      <3>2. <<s, k>> \in P /\ f[<<s, k>>] = y
        BY <1>5, <3>1
      <3> QED BY <3>2, Zenon
    <2>2. f \in Surjection(P, L)
      BY <1>7, <2>1 DEF Surjection
    <2> QED BY <1>3, <2>2, FS_Surjection
  <1>9. L # {} /\ L \in SUBSET Int /\ L \subseteq Nat
    <2>1. \A y \in L : y \in Nat
      BY <1>1, <1>2
    <2>2. L # {}
      BY <1>1, <1>3
    <2> QED BY <2>1, <2>2
  <1>10. Max(L) \in L /\ \A y \in L : y <= Max(L)
    BY <1>8, <1>9, Greatest
  <1> QED BY <1>1, <1>4, <1>9, <1>10

LEMMA WorkNames ==
    /\ \A w \in Works : /\ w \in Jobs /\ w[1] \in Maps /\ w[2] \in Nat \ {0} /\ w = <<w[1], w[2]>>
                        /\ w \in JobsOf(w[1])
    /\ \A m \in Maps : /\ Probe(m) \in Jobs /\ Probe(m) \notin Works /\ Probe(m) \in JobsOf(m)
                       /\ Probe(m)[1] = m
    /\ \A m, k \in Maps : Probe(m) = Probe(k) => m = k
    /\ \A j \in Jobs : j \in Works \/ \E m \in Maps : j = Probe(m)
  <1>1. Jobs = Works \cup (Maps \X {0})
    BY MapConstants DEF MapConstants
  <1>2. ASSUME NEW w \in Works
        PROVE  w \in Jobs /\ w[1] \in Maps /\ w[2] \in Nat \ {0} /\ w = <<w[1], w[2]>>
    <2>1. w[1] \in Maps /\ w[2] \in 1 .. Longest /\ w = <<w[1], w[2]>>
      BY DEF Works
    <2>2. Longest \in Nat
      BY <2>1, LongestBounds
    <2> QED BY <1>1, <2>1, <2>2
  <1>3. \A m \in Maps : Probe(m) \in Jobs /\ Probe(m)[1] = m /\ Probe(m)[2] = 0
    BY <1>1 DEF Probe
  <1>4. \A j \in Jobs : j \in Works \/ \E m \in Maps : j = Probe(m)
    BY <1>1 DEF Probe
  <1> QED BY <1>2, <1>3, <1>4 DEF JobsOf

\* An item the source can yield is a work.
LEMMA ItemWork ==
    ASSUME size \in Sizes, NEW m \in Maps, NEW i \in Nat \ {0}, i <= size[m]
    PROVE  <<m, i>> \in Works /\ <<m, i>>[1] = m /\ <<m, i>>[2] = i
  <1>1. Longest \in Nat /\ size[m] \in Nat /\ size[m] <= Longest
    BY LongestBounds
  <1>2. i \in 1 .. Longest
    BY <1>1
  <1> QED BY <1>2 DEF Works

LEMMA RequestNames ==
    ASSUME NEW j \in Jobs, NEW k \in Jobs
    PROVE  /\ Lease(j) \in Requests /\ Turn(j) \in Requests /\ Lease(j) # Turn(k)
           /\ (Lease(j) = Lease(k) => j = k) /\ (Turn(j) = Turn(k) => j = k)
  BY DEF Lease, Turn, Requests

-----------------------------------------------------------------------------
(* What the operations of the coordinator do to the state of a request. *)

\* Every request but those of S keeps its state and its mode.
KeepsBut(S) == \A r \in Requests \ S : req'[r].st = req[r].st /\ req'[r].mode = req[r].mode

LEMMA GrantDoes ==
    ASSUME IInv, NEW r \in Requests, Grant(r)
    PROVE  /\ req[r].st = "queued" /\ req'[r].st = "admitted" /\ req'[r].mode = req[r].mode
           /\ KeepsBut({r}) /\ step' = step /\ cancelled' = cancelled
  <1>1. PICK p \in Observed :
           req' = [p.req EXCEPT ![r] =
                      [@ EXCEPT !.st = "admitted", !.active = Executes(p.req[r]), !.blocked = FALSE,
                                !.width = <<p.req[r].cpu, p.req[r].native, p.req[r].io>>]]
    BY DEF Grant
  <1>2. Widened(p.req)
    BY ObservedIs
  <1> DEFINE rq == p.req
  <1>3. /\ rq \in [Requests -> RequestType] /\ rq[r].mode = req[r].mode
        /\ \A s \in Requests : rq[s].st = req[s].st /\ rq[s].mode = req[s].mode
    BY <1>2 DEF Widened, GoodAll
  <1> HIDE DEF rq
  <1> DEFINE q == [rq[r] EXCEPT !.st = "admitted", !.active = Executes(rq[r]), !.blocked = FALSE,
                                !.width = <<rq[r].cpu, rq[r].native, rq[r].io>>]
  <1>4. q.st = "admitted" /\ q.mode = rq[r].mode
    BY <1>3 DEF RequestType
  <1>5. req' = [rq EXCEPT ![r] = q]
    BY <1>1, <1>3 DEF rq
  <1> HIDE DEF q
  <1>6. req'[r] = q /\ \A s \in Requests \ {r} : req'[s] = rq[s]
    BY <1>3, <1>5
  <1>7. req[r].st = "queued" /\ step' = step /\ cancelled' = cancelled
    BY DEF Grant, Polls, Waiting
  <1> QED BY <1>3, <1>4, <1>6, <1>7 DEF KeepsBut

LEMMA WaitDoes ==
    ASSUME IInv, NEW r \in Requests, Wait(r)
    PROVE  KeepsBut({}) /\ step' = step /\ cancelled' = cancelled
  <1>1. PICK p \in Observed : req' = [p.req EXCEPT ![r].blocked = Stalled(p)]
    BY DEF Wait
  <1>2. Widened(p.req)
    BY ObservedIs
  <1> DEFINE rq == p.req
             b == Stalled(p)
  <1>3. /\ rq \in [Requests -> RequestType]
        /\ \A s \in Requests : rq[s].st = req[s].st /\ rq[s].mode = req[s].mode
    BY <1>2 DEF Widened, GoodAll
  <1>4. req' = [rq EXCEPT ![r].blocked = b]
    BY <1>1
  <1> HIDE DEF rq, b
  <1>5. \A s \in Requests : req'[s].st = rq[s].st /\ req'[s].mode = rq[s].mode
    BY <1>3, <1>4 DEF RequestType
  <1> QED BY <1>3, <1>5 DEF KeepsBut, Wait

LEMMA GiveUpDoes ==
    ASSUME IInv, NEW r \in Requests, TimeOut(r) \/ Abandon(r)
    PROVE  /\ req[r].st = "queued" /\ req'[r].st = "idle" /\ KeepsBut({r})
           /\ step' = step /\ cancelled' = cancelled
  <1>1. \E rq : Widened(rq) /\ req' = [rq EXCEPT ![r] = Idle]
    <2>1. CASE TimeOut(r)
      <3>1. PICK p \in Observed : req' = [p.req EXCEPT ![r] = Idle]
        BY <2>1 DEF TimeOut
      <3> QED BY <3>1, ObservedIs
    <2>2. CASE Abandon(r)
      <3>1. Widened(req)
        BY DEF IInv, ReqInv, Widened
      <3> QED BY <2>2, <3>1 DEF Abandon
    <2> QED BY <2>1, <2>2
  <1>2. PICK rq : Widened(rq) /\ req' = [rq EXCEPT ![r] = Idle]
    BY <1>1
  <1>3. /\ rq \in [Requests -> RequestType]
        /\ \A s \in Requests : rq[s].st = req[s].st /\ rq[s].mode = req[s].mode
    BY <1>2 DEF Widened, GoodAll
  <1>4. req'[r] = Idle /\ \A s \in Requests \ {r} : req'[s] = rq[s]
    BY <1>2, <1>3
  <1>5. Idle.st = "idle"
    BY DEF Idle
  <1>6. req[r].st = "queued" /\ step' = step /\ cancelled' = cancelled
    BY DEF TimeOut, Abandon, Polls, Waiting
  <1> QED BY <1>3, <1>4, <1>5, <1>6 DEF KeepsBut


LEMMA AdmitDoes ==
    ASSUME IInv, NEW j \in Jobs, Admit(j)
    PROVE  /\ req[Lease(j)].st = "idle" /\ req'[Lease(j)].st = "queued" /\ KeepsBut({Lease(j)})
           /\ step' = step /\ cancelled' = cancelled /\ j \notin cancelled
  <1> DEFINE d == Demand[j]
             q == [Idle EXCEPT !.st = "queued", !.cpu = d.cpu, !.native = d.native,
                               !.io = d.io, !.transient = d.transient, !.temp = d.temp]
  <1>1. q.st = "queued"
    BY DEF Idle
  <1>2. req' = [req EXCEPT ![Lease(j)] = q]
    BY DEF Admit
  <1> HIDE DEF q
  <1>3. Lease(j) \in Requests /\ req \in [Requests -> RequestType]
    BY RequestNames DEF IInv, ReqInv, GoodAll
  <1>4. req'[Lease(j)] = q /\ \A r \in Requests \ {Lease(j)} : req'[r] = req[r]
    BY <1>2, <1>3
  <1> QED BY <1>1, <1>4 DEF Admit, KeepsBut

LEMMA EndDoes ==
    ASSUME IInv, NEW j \in Jobs, EndLease(j)
    PROVE  /\ req[Lease(j)].st = "admitted" /\ req'[Lease(j)].st = "idle"
           /\ req'[Turn(j)].st = IF req[Turn(j)].st = "queued" THEN "queued" ELSE "idle"
           /\ req'[Turn(j)].mode = req[Turn(j)].mode \/ req'[Turn(j)].st = "idle"
           /\ KeepsBut({Lease(j), Turn(j)})
           /\ step' = step /\ cancelled' = cancelled
  <1>1. Lease(j) \in Requests /\ Turn(j) \in Requests /\ Lease(j) # Turn(j)
    BY RequestNames
  <1>2. req \in [Requests -> RequestType]
    BY DEF IInv, ReqInv, GoodAll
  <1>3. /\ req'[Lease(j)] = Idle
        /\ req'[Turn(j)] = IF Waiting(Turn(j)) THEN req[Turn(j)] ELSE Idle
        /\ \A r \in Requests \ {Lease(j), Turn(j)} : req'[r] = req[r]
    BY <1>1, <1>2 DEF EndLease
  <1>4. Idle.st = "idle"
    BY DEF Idle
  <1> QED BY <1>3, <1>4 DEF EndLease, Live, Waiting, KeepsBut

\* The execution of j is given back: its turn is over, its lease is kept.
LEMMA CpuBackDoes ==
    ASSUME IInv, NEW j \in Jobs, req' = CpuReleased(j)
    PROVE  /\ req'[Lease(j)].st = req[Lease(j)].st /\ req'[Turn(j)].st = "idle"
           /\ KeepsBut({Lease(j), Turn(j)})
  <1>1. Lease(j) \in Requests /\ Turn(j) \in Requests /\ Lease(j) # Turn(j)
    BY RequestNames
  <1>2. ReqInv
    BY DEF IInv
  <1>3. /\ req'[Lease(j)] = Stopped(req[Lease(j)]) /\ req'[Turn(j)] = Idle
        /\ \A r \in Requests : r # Lease(j) /\ r # Turn(j) => req'[r] = req[r]
    BY <1>2, CpuReleasedIs
  <1>4. Idle.st = "idle"
    BY DEF Idle
  <1>5. Stopped(req[Lease(j)]).st = req[Lease(j)].st
    BY <1>1, <1>2, StoppedGood DEF ReqInv, GoodAll
  <1> QED BY <1>3, <1>4, <1>5 DEF KeepsBut

LEMMA RenewDoes ==
    ASSUME IInv, NEW j \in Jobs, Renew(j)
    PROVE  /\ step' = [step EXCEPT ![j] = "none"] /\ cancelled' = cancelled
           /\ KeepsBut({Turn(j)})
           /\ j \in cancelled \/ ~Live(j) => req' = req
           /\ j \notin cancelled /\ Live(j) =>
                 req'[Turn(j)].st = "queued" /\ req'[Turn(j)].mode = step[j]
  <1>1. Turn(j) \in Requests /\ req \in [Requests -> RequestType]
    BY RequestNames DEF IInv, ReqInv, GoodAll
  <1>2. step' = [step EXCEPT ![j] = "none"] /\ cancelled' = cancelled
    BY DEF Renew
  <1>3. CASE j \in cancelled \/ ~Live(j)
    <2>1. req' = req
      BY <1>3 DEF Renew
    <2> QED BY <1>2, <1>3, <2>1 DEF KeepsBut
  <1>4. CASE j \notin cancelled /\ Live(j)
    <2> DEFINE w == IF step[j] = "drain" THEN <<1, 1, 1>> ELSE req[Lease(j)].width
               q == [Idle EXCEPT !.st = "queued", !.mode = step[j], !.cpu = w[1],
                                 !.native = w[2], !.io = w[3]]
    <2>1. q.st = "queued" /\ q.mode = step[j]
      BY DEF Idle
    <2>2. req' = [req EXCEPT ![Turn(j)] = q]
      BY <1>4 DEF Renew
    <2> HIDE DEF q
    <2>3. req'[Turn(j)] = q /\ \A r \in Requests \ {Turn(j)} : req'[r] = req[r]
      BY <1>1, <2>2
    <2> QED BY <1>2, <1>4, <2>1, <2>3 DEF KeepsBut
  <1> QED BY <1>3, <1>4
-----------------------------------------------------------------------------
(* The invariant of the coordinator. *)

\* The owner or a supervisor gives back the execution of j, and may cancel.
LEMMA BackStep ==
    ASSUME IInv, NEW j \in Jobs, ~Waiting(Turn(j)), req' = CpuReleased(j),
           ledger' = Booked(Lease(j), -1, CpuOf(j)), queue' = queue, step' = step,
           cancelled' \subseteq Jobs, UNCHANGED <<last, view, sample, done, timed, changes>>
    PROVE  IInv'
  <1>1. ReqInv' /\ QueueInv' /\ LedgerInv'
    BY GivesBackCpu
  <1>2. RestInv'
    BY DEF IInv, RestInv
  <1> QED BY <1>1, <1>2 DEF IInv

LEMMA ViewStep ==
    ASSUME IInv, view' = Observation,
           UNCHANGED <<req, queue, last, ledger, sample, step, done, cancelled, timed, changes>>
    PROVE  IInv'
  <1>1. view' \in ViewType
    BY ObservationType DEF IInv, RestInv
  <1>2. RestInv'
    BY <1>1 DEF IInv, RestInv
  <1> QED BY <1>2, RestStep

LEMMA SameStep ==
    ASSUME IInv, UNCHANGED vars
    PROVE  IInv'
  <1>1. UNCHANGED <<req, queue, ledger, step>> /\ RestInv'
    BY DEF vars, IInv, RestInv
  <1> QED BY <1>1, RestStep

\* The current item of a map and its pending ones are works.
LEMMA CurrentWork ==
    ASSUME MapTypes, PullInv, NEW m \in Maps, current[m] # 0
    PROVE  /\ Current(m) \in Works /\ Current(m) \in Jobs
           /\ Current(m)[1] = m /\ Current(m)[2] = current[m]
  <1>1. current[m] \in Nat /\ pulled[m] \in Nat /\ current[m] <= pulled[m] /\ pulled[m] <= size[m]
    BY DEF MapTypes, PullInv, PullOf
  <1>2. size[m] \in Nat
    BY LongestBounds DEF MapTypes
  <1>3. current[m] \in Nat \ {0} /\ current[m] <= size[m]
    BY <1>1, <1>2
  <1> QED BY <1>3, ItemWork, WorkNames DEF MapTypes, Current

LEMMA PendingWork ==
    ASSUME MapTypes, PullInv, NEW m \in Maps, NEW k \in 1 .. Len(pending[m])
    PROVE  /\ <<m, pending[m][k]>> \in Works /\ <<m, pending[m][k]>> \in Jobs
           /\ <<m, pending[m][k]>>[1] = m /\ <<m, pending[m][k]>>[2] = pending[m][k]
           /\ pending[m][k] \in 1 .. pulled[m]
  <1>1. pulled[m] \in Nat /\ pending[m][k] \in 1 .. pulled[m] /\ pulled[m] <= size[m]
    BY DEF MapTypes, PullInv, PullOf
  <1>2. size[m] \in Nat
    BY LongestBounds DEF MapTypes
  <1>3. pending[m][k] \in Nat \ {0} /\ pending[m][k] <= size[m]
    BY <1>1, <1>2
  <1> QED BY <1>1, <1>3, ItemWork, WorkNames DEF MapTypes

\* Nobody waits for the turn of the current item when it is given back.
LEMMA GivesBackStep ==
    ASSUME IInv, MapTypes, PullInv, ThreadInv, NEW m \in Maps, owner[m] # "waiting", GivesBack(m),
           queue' = queue, step' = step, cancelled' \subseteq Jobs,
           UNCHANGED <<last, view, sample, done, timed, changes>>
    PROVE  IInv'
  <1>1. CASE current[m] = 0
    <2>1. UNCHANGED <<req, queue, ledger, step>> /\ RestInv'
      BY <1>1 DEF GivesBack, IInv, RestInv
    <2> QED BY <2>1, RestStep
  <1>2. CASE current[m] # 0
    <2> DEFINE w == Current(m)
    <2>1. w \in Works /\ w \in Jobs /\ w[1] = m /\ w[2] = current[m]
      BY <1>2, CurrentWork
    <2>2. ~Waiting(Turn(w))
      BY <2>1 DEF ThreadInv, WorkOK, At, Waiting
    <2> HIDE DEF w
    <2>3. req' = CpuReleased(w) /\ ledger' = Booked(Lease(w), -1, CpuOf(w))
      BY <1>2 DEF GivesBack, w
    <2> QED BY <2>1, <2>2, <2>3, BackStep
  <1> QED BY <1>1, <1>2

-----------------------------------------------------------------------------
(* The steps of a map, by what they do to its lists. *)

Lists == <<size, owner, pending, current, pulled, out, outcome, sup, freed>>

SupMoves(w, s) ==
    /\ sup[w] # "none" /\ sup' = [sup EXCEPT ![w] = s]
    /\ s \in {"asking", "holding", "running", "ready", "leaving", "finished"}
    /\ UNCHANGED <<size, owner, pending, current, pulled, out, outcome, freed>>

Submits(m) ==
    /\ pulled[m] < size[m] /\ owner[m] \in {"fill", "probed"}
    /\ pulled' = [pulled EXCEPT ![m] = @ + 1]
    /\ pending' = [pending EXCEPT ![m] = Append(@, pulled[m] + 1)]
    /\ sup' = [sup EXCEPT ![<<m, pulled[m] + 1>>] = "start"]
    /\ \E o \in {"fill", "handoff"} : owner' = [owner EXCEPT ![m] = o]
    /\ UNCHANGED <<size, current, out, outcome, freed>>

\* The owner goes on to o and leaves its lists alone.
Proceeds(m, o) ==
    /\ <<owner[m], o>> \in {<<"fill", "probing">>, <<"probing", "probed">>, <<"handoff", "fill">>,
                            <<"fill", "pick">>, <<"pick", "fill">>, <<"draining", "waiting">>}
    /\ o = "probing" => pulled[m] < size[m]
    /\ owner' = [owner EXCEPT ![m] = o]
    /\ UNCHANGED <<size, pending, current, pulled, out, outcome, sup, freed>>

\* The iteration ends as how says.
Ends(m, how) ==
    /\ owner[m] \notin {"closing", "stopping", "closed"} /\ how \in {"done", "failed", "left"}
    /\ how = "done" => owner[m] = "pick" /\ pending[m] = <<>> /\ pulled[m] = size[m]
    /\ ToClose(m, how)
    /\ UNCHANGED <<size, pending, current, pulled, out, sup, freed>>

\* The item at position k is taken, to be consumed or because it has failed.
Takes(m, k) ==
    /\ owner[m] = "pick" /\ k \in Pickable(m)
    /\ pending' = [pending EXCEPT ![m] = RemoveAt(@, k)]
    /\ current' = [current EXCEPT ![m] = pending[m][k]]
    /\ \/ ToClose(m, "failed")
       \/ owner' = [owner EXCEPT ![m] = "draining"] /\ UNCHANGED outcome
    /\ UNCHANGED <<size, pulled, out, sup, freed>>

Delivers(m) ==
    /\ owner[m] = "waiting" /\ owner' = [owner EXCEPT ![m] = "consuming"]
    /\ out' = [out EXCEPT ![m] = Append(@, current[m])]
    /\ UNCHANGED <<size, pending, current, pulled, outcome, sup, freed>>

\* The current item may go, or every item of a map that closes.
Frees(m) ==
    /\ \/ /\ owner[m] = "consuming" /\ owner' = [owner EXCEPT ![m] = "joining"]
          /\ freed' = freed \cup {Current(m)}
       \/ /\ owner[m] = "closing" /\ owner' = [owner EXCEPT ![m] = "stopping"]
          /\ freed' = freed \cup PendingOf(m) \cup (IF current[m] = 0 THEN {} ELSE {Current(m)})
    /\ UNCHANGED <<size, pending, current, pulled, out, outcome, sup>>

\* The consumed item is gone; the owner goes on or closes.
Rejoins(m) ==
    /\ owner[m] = "joining"
    /\ current' = [current EXCEPT ![m] = 0]
    /\ \/ ToClose(m, "failed")
       \/ owner' = [owner EXCEPT ![m] = "fill"] /\ UNCHANGED outcome
    /\ UNCHANGED <<size, pending, pulled, out, sup, freed>>

Finishes(m) ==
    /\ owner[m] = "stopping" /\ Drained(m)
    /\ owner' = [owner EXCEPT ![m] = "closed"]
    /\ pending' = [pending EXCEPT ![m] = <<>>]
    /\ current' = [current EXCEPT ![m] = 0]
    /\ UNCHANGED <<size, pulled, out, outcome, sup, freed>>

SomeMove ==
    \/ UNCHANGED Lists
    \/ \E w \in Works : \E s : SupMoves(w, s)
    \/ \E m \in Maps :
          \/ Submits(m) \/ Delivers(m) \/ Frees(m) \/ Rejoins(m) \/ Finishes(m)
          \/ \E o : Proceeds(m, o)
          \/ \E how : Ends(m, how)
          \/ \E k : Takes(m, k)

\* Every step of the specification is one of these.
LEMMA Moves ==
    ASSUME MapTypes, PullInv, MapNext
    PROVE  SomeMove
  <1>1. ASSUME NEW w \in Works, Granted(w) \/ SupStep(w)
        PROVE  \E s : SupMoves(w, s)
    <2>1. CASE Asks(w)
      <3>1. SupMoves(w, "asking")
        BY <2>1 DEF Asks, SupMoves
      <3> QED BY <3>1
    <2>2. CASE Granted(w)
      <3>1. SupMoves(w, "holding")
        BY <2>2 DEF Granted, SupMoves
      <3> QED BY <3>1
    <2>3. CASE AskFails(w)
      <3>1. SupMoves(w, "finished")
        BY <2>3 DEF AskFails, SupMoves
      <3> QED BY <3>1
    <2>4. CASE Begins(w)
      <3>1. SupMoves(w, "running")
        BY <2>4 DEF Begins, SupMoves
      <3> QED BY <3>1
    <2>5. CASE Returns(w)
      <3>1. SupMoves(w, "ready") \/ SupMoves(w, "leaving")
        BY <2>5 DEF Returns, SupMoves
      <3> QED BY <3>1
    <2>6. CASE Leaves(w)
      <3>1. SupMoves(w, "finished")
        BY <2>6 DEF Leaves, MayLeave, SupMoves
      <3> QED BY <3>1
    <2> QED BY <1>1, <2>1, <2>2, <2>3, <2>4, <2>5, <2>6 DEF SupStep
  <1>2. ASSUME NEW m \in Maps, Pull(m) \/ ProbeEnds(m)
        PROVE  Submits(m)
    <2>1. pulled[m] < size[m] /\ owner[m] \in {"fill", "probed"}
      BY <1>2 DEF Pull, ProbeEnds, MayPull, PullInv, PullOf
    <2>2. Submit(m)
      BY <1>2 DEF Pull, ProbeEnds
    <2>3. \E o \in {"fill", "handoff"} : owner' = [owner EXCEPT ![m] = o]
      BY <2>2 DEF Submit
    <2> QED BY <2>1, <2>2, <2>3 DEF Submit, Submits
  <1>3. ASSUME NEW m \in Maps, ProbeAsks(m) \/ ProbeGranted(m) \/ Prepare(m)
        PROVE  \E o : Proceeds(m, o)
    <2>1. CASE ProbeAsks(m)
      <3>1. Proceeds(m, "probing")
        BY <2>1 DEF ProbeAsks, MayPull, Proceeds
      <3> QED BY <3>1
    <2>2. CASE ProbeGranted(m)
      <3>1. Proceeds(m, "probed")
        BY <2>2 DEF ProbeGranted, Proceeds
      <3> QED BY <3>1
    <2>3. CASE Prepare(m)
      <3>1. Proceeds(m, "pick")
        BY <2>3 DEF Prepare, Proceeds
      <3> QED BY <3>1
    <2> QED BY <1>3, <2>1, <2>2, <2>3
  <1>4. ASSUME NEW m \in Maps, Handoff(m)
        PROVE  UNCHANGED Lists \/ \E o : Proceeds(m, o)
    <2>1. UNCHANGED Lists \/ Proceeds(m, "fill")
      BY <1>4 DEF Handoff, Lists, Proceeds
    <2> QED BY <2>1
  <1>5. ASSUME NEW m \in Maps, Idles(m)
        PROVE  (\E o : Proceeds(m, o)) \/ \E how : Ends(m, how)
    <2>1. Proceeds(m, "fill") \/ Ends(m, "done") \/ Ends(m, "failed")
      BY <1>5 DEF Idles, Proceeds, Ends, ToClose
    <2> QED BY <2>1
  <1>6. ASSUME NEW m \in Maps, DrainAsks(m)
        PROVE  (\E o : Proceeds(m, o)) \/ \E how : Ends(m, how)
    <2>1. Proceeds(m, "waiting") \/ Ends(m, "failed")
      BY <1>6 DEF DrainAsks, Proceeds, Ends, ToClose
    <2> QED BY <2>1
  <1>7. ASSUME NEW m \in Maps, OwnerRefused(m) \/ Observes(m) \/ Break(m)
        PROVE  \E how : Ends(m, how)
    <2>1. Ends(m, "failed") \/ Ends(m, "left")
      BY <1>7 DEF OwnerRefused, Observes, Break, Ends
    <2> QED BY <2>1
  <1>8. ASSUME NEW m \in Maps, Take(m)
        PROVE  \E k : Takes(m, k)
    <2>1. PICK k \in Pickable(m) :
             /\ pending' = [pending EXCEPT ![m] = RemoveAt(@, k)]
             /\ current' = [current EXCEPT ![m] = pending[m][k]]
             /\ \/ ToClose(m, "failed")
                \/ owner' = [owner EXCEPT ![m] = "draining"] /\ UNCHANGED outcome
      BY <1>8 DEF Take
    <2>2. Takes(m, k)
      BY <1>8, <2>1 DEF Take, Takes
    <2> QED BY <2>2
  <1>9. ASSUME NEW m \in Maps, Consumes(m)
        PROVE  Delivers(m)
    BY <1>9 DEF Consumes, Delivers
  <1>10. ASSUME NEW m \in Maps, NextValue(m) \/ Close(m)
         PROVE  Frees(m)
    BY <1>10 DEF NextValue, Close, Frees
  <1>11. ASSUME NEW m \in Maps, Joined(m)
         PROVE  Rejoins(m)
    BY <1>11 DEF Joined, Rejoins
  <1>12. ASSUME NEW m \in Maps, Closed(m)
         PROVE  Finishes(m)
    BY <1>12 DEF Closed, Finishes
  <1>13. CASE UNCHANGED mapVars
    BY <1>13 DEF mapVars, Lists, SomeMove
  <1>14. CASE SomeGrant
    BY <1>1, <1>3, <1>9, <1>14 DEF SomeGrant, SomeMove
  <1>15. CASE \E w \in Works : SupStep(w)
    BY <1>1, <1>15 DEF SomeMove
  <1>16. ASSUME NEW m \in Maps, OwnerStep(m) \/ Break(m)
         PROVE  SomeMove
    BY <1>2, <1>3, <1>4, <1>5, <1>6, <1>7, <1>8, <1>10, <1>11, <1>12, <1>16
       DEF OwnerStep, SomeMove
  <1> QED BY <1>13, <1>14, <1>15, <1>16 DEF MapNext

-----------------------------------------------------------------------------
(* Types and bounds. *)

LEMMA RemoveAtIs ==
    ASSUME NEW T, NEW s \in Seq(T), NEW i \in 1 .. Len(s)
    PROVE  /\ RemoveAt(s, i) \in Seq(T) /\ Len(RemoveAt(s, i)) = Len(s) - 1
           /\ \A k \in 1 .. Len(s) - 1 : RemoveAt(s, i)[k] = IF k < i THEN s[k] ELSE s[k + 1]
  <1> DEFINE a == SubSeq(s, 1, i - 1)
             b == SubSeq(s, i + 1, Len(s))
             t == a \o b
             n == Len(s)
  <1>1. n \in Nat /\ i \in Nat /\ i >= 1 /\ i <= n
    OBVIOUS
  <1>2. a \in Seq(T) /\ Len(a) = i - 1 /\ \A k \in 1 .. i - 1 : a[k] = s[k]
    BY <1>1
  <1>3. b \in Seq(T) /\ Len(b) = n - i /\ \A k \in 1 .. n - i : b[k] = s[k + i]
    BY <1>1
  <1> HIDE DEF a, b
  <1>4. t \in Seq(T) /\ Len(t) = n - 1
    <2>1. t \in Seq(T) /\ Len(t) = Len(a) + Len(b)
      BY <1>2, <1>3, ConcatProperties
    <2> HIDE DEF t, n
    <2> QED BY <1>1, <1>2, <1>3, <2>1
  <1>5. ASSUME NEW k \in 1 .. n - 1 PROVE t[k] = IF k < i THEN s[k] ELSE s[k + 1]
    <2>1. CASE k < i
      <3>1. k \in 1 .. Len(a) /\ t[k] = a[k]
        BY <1>1, <1>2, <1>3, <2>1
      <3> QED BY <1>2, <2>1, <3>1
    <2>2. CASE k >= i
      <3>1. k - Len(a) \in 1 .. Len(b) /\ t[k] = b[k - Len(a)]
        BY <1>1, <1>2, <1>3, <2>2
      <3>2. k - Len(a) = k - i + 1 /\ (k - i + 1) + i = k + 1 /\ k - i + 1 \in 1 .. n - i
        BY <1>1, <1>2, <2>2
      <3>3. b[k - i + 1] = s[(k - i + 1) + i]
        BY <1>3, <3>2
      <3> QED BY <1>1, <2>2, <3>1, <3>2, <3>3
    <2>3. k < i \/ k >= i
      BY <1>1
    <2> QED BY <2>1, <2>2, <2>3, Zenon
  <1>6. t = RemoveAt(s, i)
    BY DEF RemoveAt, a, b
  <1> QED BY <1>4, <1>5, <1>6, Zenon

\* t is s without its element i.
Cut(t, s, i) ==
    /\ Len(s) \in Nat /\ Len(t) = Len(s) - 1 /\ i \in 1 .. Len(s)
    /\ \A k \in 1 .. Len(t) : t[k] = IF k < i THEN s[k] ELSE s[k + 1]
    /\ \A k \in 1 .. Len(t) : \E n \in 1 .. Len(s) : n # i /\ t[k] = s[n]

LEMMA RemoveCuts ==
    ASSUME NEW T, NEW s \in Seq(T), NEW i \in 1 .. Len(s)
    PROVE  Cut(RemoveAt(s, i), s, i)
  <1> DEFINE t == RemoveAt(s, i)
  <1>1. /\ t \in Seq(T) /\ Len(t) = Len(s) - 1
        /\ \A k \in 1 .. Len(s) - 1 : t[k] = IF k < i THEN s[k] ELSE s[k + 1]
    BY RemoveAtIs
  <1> HIDE DEF t
  <1>2. Len(s) \in Nat /\ i \in Nat
    OBVIOUS
  <1>3. \A k \in 1 .. Len(t) : t[k] = IF k < i THEN s[k] ELSE s[k + 1]
    BY <1>1
  <1>4. ASSUME NEW k \in 1 .. Len(t) PROVE \E n \in 1 .. Len(s) : n # i /\ t[k] = s[n]
    <2> DEFINE n == IF k < i THEN k ELSE k + 1
    <2>1. n \in 1 .. Len(s) /\ n # i
      BY <1>1, <1>2
    <2>2. t[k] = s[n]
      BY <1>3
    <2> QED BY <2>1, <2>2
  <1>5. Cut(t, s, i)
    BY <1>1, <1>2, <1>3, <1>4 DEF Cut
  <1> QED BY <1>5 DEF t

LEMMA AppendIs ==
    ASSUME NEW T, NEW s \in Seq(T), NEW e \in T
    PROVE  /\ Append(s, e) \in Seq(T) /\ Len(Append(s, e)) = Len(s) + 1
           /\ Len(s) \in Nat
           /\ \A k \in 1 .. Len(s) : Append(s, e)[k] = s[k]
           /\ Append(s, e)[Len(s) + 1] = e
  OBVIOUS

\* What is taken is pending.
LEMMA TakenItem ==
    ASSUME MapTypes, PullInv, NEW m \in Maps, NEW k, Takes(m, k)
    PROVE  /\ k \in 1 .. Len(pending[m]) /\ pending[m] \in Seq(Nat)
           /\ pending[m][k] \in 1 .. pulled[m] /\ pulled[m] \in Nat
           /\ pending'[m] = RemoveAt(pending[m], k) /\ current'[m] = pending[m][k]
  BY DEF Takes, Pickable, MapTypes, PullInv, PullOf

LEMMA TypesStep ==
    ASSUME MapTypes, PullInv, SomeMove
    PROVE  MapTypes'
  <1>1. CASE UNCHANGED Lists
    BY <1>1 DEF Lists, MapTypes
  <1>2. ASSUME NEW w \in Works, NEW s, SupMoves(w, s) PROVE MapTypes'
    BY <1>2 DEF SupMoves, MapTypes
  <1>3. ASSUME NEW m \in Maps, Submits(m) PROVE MapTypes'
    <2>1. pulled[m] + 1 \in Nat /\ Append(pending[m], pulled[m] + 1) \in Seq(Nat)
      BY DEF MapTypes
    <2> QED BY <1>3, <2>1 DEF Submits, MapTypes
  <1>4. ASSUME NEW m \in Maps, Delivers(m) PROVE MapTypes'
    <2>1. Append(out[m], current[m]) \in Seq(Nat)
      BY DEF MapTypes
    <2> QED BY <1>4, <2>1 DEF Delivers, MapTypes
  <1>5. ASSUME NEW m \in Maps, Frees(m) \/ Rejoins(m) \/ Finishes(m) PROVE MapTypes'
    <2>1. CASE Frees(m)
      BY <2>1 DEF Frees, MapTypes
    <2>2. CASE Rejoins(m)
      BY <2>2 DEF Rejoins, ToClose, MapTypes
    <2>3. CASE Finishes(m)
      <3>1. <<>> \in Seq(Nat)
        OBVIOUS
      <3> QED BY <2>3, <3>1 DEF Finishes, MapTypes
    <2> QED BY <1>5, <2>1, <2>2, <2>3
  <1>6. ASSUME NEW m \in Maps, NEW o, Proceeds(m, o) PROVE MapTypes'
    BY <1>6 DEF Proceeds, MapTypes
  <1>7. ASSUME NEW m \in Maps, NEW how, Ends(m, how) PROVE MapTypes'
    BY <1>7 DEF Ends, ToClose, MapTypes
  <1>8. ASSUME NEW m \in Maps, NEW k, Takes(m, k) PROVE MapTypes'
    <2>1. pending[m][k] \in Nat /\ RemoveAt(pending[m], k) \in Seq(Nat)
      BY <1>8, TakenItem, RemoveAtIs
    <2> HIDE DEF RemoveAt
    <2> QED BY <1>8, <2>1 DEF Takes, ToClose, MapTypes
  <1> QED BY <1>1, <1>2, <1>3, <1>4, <1>5, <1>6, <1>7, <1>8 DEF SomeMove

\* A step of another map.
LEMMA PullSame ==
    ASSUME NEW n \in Maps, PullOf(n), size' = size, owner'[n] = owner[n], pending'[n] = pending[n],
           current'[n] = current[n], pulled'[n] = pulled[n], out'[n] = out[n]
    PROVE  PullOf(n)'
  BY DEF PullOf, Turning

\* A step of map m.
LEMMA PullOwner ==
    ASSUME MapTypes, MapTypes', PullInv, NEW m \in Maps, PullOf(m)',
           size' = size, sup' = sup,
           \A n \in Maps \ {m} : /\ owner'[n] = owner[n] /\ pending'[n] = pending[n]
                                 /\ current'[n] = current[n] /\ out'[n] = out[n],
           pulled' = pulled, \A w \in freed' \ freed : w \in Works /\ w[2] <= pulled[w[1]]
    PROVE  PullInv'
  <1>1. \A n \in Maps : PullOf(n)'
    BY PullSame DEF PullInv
  <1> QED BY <1>1 DEF PullInv

LEMMA PullStep ==
    ASSUME MapTypes, MapTypes', PullInv, SomeMove
    PROVE  PullInv'
  <1>1. CASE UNCHANGED Lists
    BY <1>1 DEF Lists, PullInv, PullOf, Turning
  <1>2. ASSUME NEW w \in Works, NEW s, SupMoves(w, s) PROVE PullInv'
    <2>1. \A v \in Works : v[2] > pulled[v[1]] => sup'[v] = "none"
      BY <1>2 DEF SupMoves, PullInv, MapTypes
    <2> QED BY <1>2, <2>1 DEF SupMoves, PullInv, PullOf, Turning
  <1>3. ASSUME NEW m \in Maps, Submits(m) PROVE PullInv'
    <2> DEFINE i == pulled[m] + 1
               w == <<m, i>>
    <2>1. /\ size[m] \in Nat /\ pulled[m] \in Nat /\ current[m] \in Nat /\ pending[m] \in Seq(Nat)
          /\ out[m] \in Seq(Nat) /\ PullOf(m)
      BY LongestBounds DEF MapTypes, PullInv
    <2>2. /\ pulled'[m] = i /\ pending'[m] = Append(pending[m], i) /\ size' = size
          /\ current' = current /\ out' = out /\ owner'[m] \in {"fill", "handoff"}
          /\ \A n \in Maps \ {m} : /\ owner'[n] = owner[n] /\ pending'[n] = pending[n]
                                   /\ pulled'[n] = pulled[n]
          /\ pulled[m] < size[m]
      BY <1>3 DEF Submits, MapTypes
    <2>3. i \in Nat \ {0} /\ i <= size[m]
      BY <2>1, <2>2
    <2>4. PullOf(m)'
      <3>1. \A k \in 1 .. Len(pending'[m]) : pending'[m][k] \in 1 .. i
        BY <2>1, <2>2, <2>3, AppendIs DEF PullOf
      <3>2. \A k \in 1 .. Len(out[m]) : out[m][k] \in 1 .. i
        BY <2>1 DEF PullOf
      <3>3. current[m] <= i
        BY <2>1 DEF PullOf
      <3> HIDE DEF i
      <3> QED BY <2>2, <2>3, <3>1, <3>2, <3>3 DEF PullOf, Turning
    <2>5. \A n \in Maps : PullOf(n)'
      BY <2>2, <2>4, PullSame DEF PullInv
    <2>6. w \in Works /\ w[1] = m /\ w[2] = i
      BY <2>3, ItemWork DEF MapTypes
    <2>7. \A v \in Works : v[2] > pulled'[v[1]] => v[2] > pulled[v[1]] /\ v # w
      <3>1. \A v \in Works : v[1] \in Maps /\ v[2] \in Nat /\ pulled[v[1]] \in Nat
        BY WorkNames DEF MapTypes
      <3> SUFFICES ASSUME NEW v \in Works, v[2] > pulled'[v[1]]
                   PROVE  v[2] > pulled[v[1]] /\ v # w
        OBVIOUS
      <3> HIDE DEF w
      <3>2. CASE v[1] = m
        BY <2>1, <2>2, <2>6, <3>1, <3>2
      <3>3. CASE v[1] # m
        BY <2>2, <2>6, <3>1, <3>3
      <3> QED BY <3>2, <3>3
    <2>8. \A v \in Works : v[2] > pulled'[v[1]] => sup'[v] = "none"
      BY <1>3, <2>6, <2>7 DEF Submits, PullInv, MapTypes
    <2>9. \A v \in freed : v \in Works /\ v[2] <= pulled'[v[1]]
      <3>1. \A v \in freed : v \in Works /\ v[1] \in Maps /\ v[2] \in Nat /\ v[2] <= pulled[v[1]]
        BY WorkNames DEF PullInv
      <3>2. \A n \in Maps : pulled[n] \in Nat /\ pulled[n] <= pulled'[n] /\ pulled'[n] \in Nat
        <4> SUFFICES ASSUME NEW n \in Maps
                     PROVE  pulled[n] \in Nat /\ pulled[n] <= pulled'[n] /\ pulled'[n] \in Nat
          OBVIOUS
        <4>1. pulled[n] \in Nat
          BY DEF MapTypes
        <4>2. pulled'[n] = pulled[n] \/ pulled'[n] = pulled[n] + 1
          BY <2>2
        <4> QED BY <4>1, <4>2
      <3> QED BY <3>1, <3>2
    <2>10. freed' = freed
      BY <1>3 DEF Submits
    <2> QED BY <2>5, <2>8, <2>9, <2>10 DEF PullInv
  <1>4. ASSUME NEW m \in Maps, Delivers(m) PROVE PullInv'
    <2>1. /\ pulled[m] \in Nat /\ current[m] \in Nat /\ out[m] \in Seq(Nat) /\ PullOf(m)
          /\ current[m] \in 1 .. pulled[m]
      BY <1>4 DEF Delivers, MapTypes, PullInv, PullOf, Turning
    <2>2. owner'[m] = "consuming" /\ out'[m] = Append(out[m], current[m])
      BY <1>4 DEF Delivers, MapTypes
    <2>3. \A k \in 1 .. Len(out'[m]) : out'[m][k] \in 1 .. pulled[m]
      BY <2>1, <2>2, AppendIs DEF PullOf
    <2>4. PullOf(m)'
      BY <1>4, <2>1, <2>2, <2>3 DEF Delivers, PullOf, Turning
    <2> QED BY <1>4, <2>4, PullOwner DEF Delivers, MapTypes
  <1>5. ASSUME NEW m \in Maps, Frees(m) PROVE PullInv'
    <2>1. PullOf(m)'
      BY <1>5 DEF Frees, PullInv, PullOf, Turning, MapTypes
    <2>2. current[m] # 0 => Current(m) \in Works /\ current[m] <= pulled[m] /\ Current(m)[1] = m
                             /\ Current(m)[2] = current[m]
      BY CurrentWork DEF PullInv, PullOf
    <2>3. \A w \in PendingOf(m) : w \in Works /\ w[2] <= pulled[w[1]]
      <3>1. \A k \in 1 .. Len(pending[m]) :
               /\ <<m, pending[m][k]>> \in Works /\ <<m, pending[m][k]>>[1] = m
               /\ <<m, pending[m][k]>>[2] = pending[m][k] /\ pending[m][k] <= pulled[m]
        <4>1. pulled[m] \in Nat
          BY DEF MapTypes
        <4> QED BY <4>1, PendingWork
      <3> QED BY <3>1 DEF PendingOf
    <2>4. owner[m] = "consuming" => current[m] # 0
      BY DEF PullInv, PullOf, MapTypes
    <2>5. \A w \in freed' \ freed : w \in Works /\ w[2] <= pulled[w[1]]
      BY <1>5, <2>2, <2>3, <2>4 DEF Frees
    <2> QED BY <1>5, <2>1, <2>5, PullOwner DEF Frees, MapTypes
  <1>6. ASSUME NEW m \in Maps, Rejoins(m) \/ Finishes(m) PROVE PullInv'
    <2>1. PullOf(m)'
      BY <1>6 DEF Rejoins, Finishes, ToClose, PullInv, PullOf, Turning, MapTypes
    <2> QED BY <1>6, <2>1, PullOwner DEF Rejoins, Finishes, ToClose, MapTypes
  <1>7. ASSUME NEW m \in Maps, NEW o, Proceeds(m, o) PROVE PullInv'
    <2>1. PullOf(m)'
      BY <1>7 DEF Proceeds, PullInv, PullOf, Turning, MapTypes
    <2> QED BY <1>7, <2>1, PullOwner DEF Proceeds, MapTypes
  <1>8. ASSUME NEW m \in Maps, NEW how, Ends(m, how) PROVE PullInv'
    <2>1. PullOf(m)'
      BY <1>8 DEF Ends, ToClose, PullInv, PullOf, Turning, MapTypes
    <2> QED BY <1>8, <2>1, PullOwner DEF Ends, ToClose, MapTypes
  <1>9. ASSUME NEW m \in Maps, NEW k, Takes(m, k) PROVE PullInv'
    <2>1. /\ k \in 1 .. Len(pending[m]) /\ pending[m] \in Seq(Nat)
          /\ pending[m][k] \in 1 .. pulled[m] /\ pulled[m] \in Nat
          /\ pending'[m] = RemoveAt(pending[m], k) /\ current'[m] = pending[m][k]
      BY <1>9, TakenItem
    <2>2. \A i \in 1 .. Len(pending'[m]) : pending'[m][i] \in 1 .. pulled[m]
      <3> DEFINE s == pending[m]
                 t == pending'[m]
      <3>1. s \in Seq(Nat) /\ k \in 1 .. Len(s) /\ t = RemoveAt(s, k)
        BY <2>1
      <3>2. \A i \in 1 .. Len(s) : s[i] \in 1 .. pulled[m]
        BY DEF PullInv, PullOf
      <3> HIDE DEF s, t
      <3>3. Cut(t, s, k)
        BY <3>1, RemoveCuts
      <3>4. \A i \in 1 .. Len(t) : t[i] \in 1 .. pulled[m]
        BY <3>2, <3>3 DEF Cut
      <3> QED BY <3>4 DEF t
    <2>3. owner'[m] \in {"closing", "draining"}
      BY <1>9 DEF Takes, ToClose, MapTypes
    <2>4. PullOf(m)'
      BY <1>9, <2>1, <2>2, <2>3 DEF Takes, PullInv, PullOf, Turning
    <2> QED BY <1>9, <2>4, PullOwner DEF Takes, ToClose, MapTypes
  <1> QED BY <1>1, <1>2, <1>3, <1>4, <1>5, <1>6, <1>7, <1>8, <1>9 DEF SomeMove

-----------------------------------------------------------------------------
(* What the caller gets. *)

LEMMA DistinctAppend ==
    ASSUME NEW o \in Seq(Nat), NEW p \in Seq(Nat), NEW i \in Nat,
           Distinct(o, p), Absent(i, o), Absent(i, p)
    PROVE  Distinct(o, Append(p, i)) /\ Distinct(Append(o, i), p)
  <1> DEFINE q == Append(p, i)
             t == Append(o, i)
  <1>1. /\ Len(q) = Len(p) + 1 /\ Len(p) \in Nat /\ q[Len(p) + 1] = i
        /\ \A k \in 1 .. Len(p) : q[k] = p[k]
    BY AppendIs
  <1>2. /\ Len(t) = Len(o) + 1 /\ Len(o) \in Nat /\ t[Len(o) + 1] = i
        /\ \A k \in 1 .. Len(o) : t[k] = o[k]
    BY AppendIs
  <1> HIDE DEF q, t
  <1>3. \A k \in 1 .. Len(q) : (k \in 1 .. Len(p) /\ q[k] = p[k]) \/ (k = Len(p) + 1 /\ q[k] = i)
    BY <1>1
  <1>4. \A k \in 1 .. Len(t) : (k \in 1 .. Len(o) /\ t[k] = o[k]) \/ (k = Len(o) + 1 /\ t[k] = i)
    BY <1>2
  <1>5. Inj(q)
    BY <1>3, Zenon DEF Distinct, Inj, Absent
  <1>6. Inj(t)
    BY <1>4, Zenon DEF Distinct, Inj, Absent
  <1>7. \A a \in 1 .. Len(o), b \in 1 .. Len(q) : o[a] # q[b]
    BY <1>3, Zenon DEF Distinct, Absent
  <1>8. \A a \in 1 .. Len(t), b \in 1 .. Len(p) : t[a] # p[b]
    BY <1>4, Zenon DEF Distinct, Absent
  <1> QED BY <1>5, <1>6, <1>7, <1>8 DEF Distinct, q, t

LEMMA DistinctCut ==
    ASSUME NEW o, NEW p, NEW q, NEW k, Distinct(o, p), Cut(q, p, k)
    PROVE  Distinct(o, q) /\ Absent(p[k], o) /\ Absent(p[k], q)
  <1> DEFINE At1(a) == IF a < k THEN a ELSE a + 1
  <1>1. \A a \in 1 .. Len(q) : q[a] = p[At1(a)] /\ At1(a) \in 1 .. Len(p) /\ At1(a) # k
    BY DEF Cut
  <1>2. \A a, b \in 1 .. Len(q) : At1(a) = At1(b) => a = b
    BY DEF Cut
  <1>3. k \in 1 .. Len(p)
    BY DEF Cut
  <1> HIDE DEF At1
  <1>4. Inj(q)
    <2> SUFFICES ASSUME NEW a \in 1 .. Len(q), NEW b \in 1 .. Len(q), q[a] = q[b] PROVE a = b
      BY DEF Inj
    <2>1. p[At1(a)] = p[At1(b)] /\ At1(a) \in 1 .. Len(p) /\ At1(b) \in 1 .. Len(p)
      BY <1>1, Zenon
    <2>2. At1(a) = At1(b)
      BY <2>1, Zenon DEF Distinct, Inj
    <2> QED BY <1>2, <2>2, Zenon
  <1>5. Absent(p[k], q)
    BY <1>1, <1>3, Zenon DEF Distinct, Inj, Absent
  <1>6. Absent(p[k], o)
    BY <1>3, Zenon DEF Distinct, Absent
  <1>7. \A a \in 1 .. Len(o), b \in 1 .. Len(q) : o[a] # q[b]
    BY <1>1, Zenon DEF Distinct
  <1> QED BY <1>4, <1>5, <1>6, <1>7 DEF Distinct

LEMMA OrderAppend ==
    ASSUME NEW o \in Seq(Nat), NEW n \in Nat
    PROVE  /\ InOrder(o) => InOrder(Append(o, Len(o) + 1))
           /\ Latest(o, n) => Latest(Append(o, n + 1), n + 1)
  <1> DEFINE c == Len(o) + 1
             t == Append(o, c)
             u == Append(o, n + 1)
  <1>0. Len(o) \in Nat /\ c \in Nat /\ n + 1 \in Nat
    OBVIOUS
  <1>1. Len(t) = Len(o) + 1 /\ t[Len(o) + 1] = c /\ \A k \in 1 .. Len(o) : t[k] = o[k]
    BY <1>0, AppendIs
  <1>2. Len(u) = Len(o) + 1 /\ u[Len(o) + 1] = n + 1 /\ \A k \in 1 .. Len(o) : u[k] = o[k]
    BY <1>0, AppendIs
  <1> HIDE DEF t, u
  <1>3. InOrder(o) => InOrder(t)
    BY <1>0, <1>1 DEF InOrder
  <1>4. ASSUME Latest(o, n), NEW k \in 1 .. Len(u) PROVE u[k] = n + 1 - Len(u) + k
    <2>1. CASE k \in 1 .. Len(o)
      BY <1>0, <1>2, <1>4, <2>1 DEF Latest
    <2>2. CASE k = Len(o) + 1
      BY <1>0, <1>2, <2>2
    <2> QED BY <1>0, <1>2, <2>1, <2>2
  <1>5. Latest(o, n) => Latest(u, n + 1)
    BY <1>4 DEF Latest
  <1> QED BY <1>3, <1>5 DEF t, u

LEMMA LatestCut ==
    ASSUME NEW p, NEW q, NEW n \in Nat, Latest(p, n), Cut(q, p, 1)
    PROVE  Latest(q, n) /\ p[1] = n - Len(p) + 1 /\ Len(q) + 1 = Len(p) /\ Len(p) \in Nat
  <1>1. Len(p) \in Nat /\ Len(q) = Len(p) - 1 /\ 1 \in 1 .. Len(p)
    BY DEF Cut
  <1>2. \A i \in 1 .. Len(q) : q[i] = p[i + 1] /\ i + 1 \in 1 .. Len(p)
    BY <1>1 DEF Cut
  <1>3. ASSUME NEW i \in 1 .. Len(q) PROVE q[i] = n - Len(q) + i
    <2>1. p[i + 1] = n - Len(p) + (i + 1)
      BY <1>2 DEF Latest
    <2> QED BY <1>1, <1>2, <2>1
  <1> QED BY <1>1, <1>3 DEF Latest

\* A step of another map.
LEMMA DeliverSame ==
    ASSUME NEW n \in Maps, DeliverOf(n), size' = size, owner'[n] = owner[n],
           pending'[n] = pending[n], current'[n] = current[n], pulled'[n] = pulled[n],
           out'[n] = out[n], outcome'[n] = outcome[n]
    PROVE  DeliverOf(n)'
  BY DEF DeliverOf, Turning, Over

\* A step of map m.
LEMMA DeliverOwner ==
    ASSUME DeliverInv, NEW m \in Maps, DeliverOf(m)', size' = size,
           \A n \in Maps \ {m} : /\ owner'[n] = owner[n] /\ pending'[n] = pending[n]
                                 /\ current'[n] = current[n] /\ out'[n] = out[n]
                                 /\ pulled'[n] = pulled[n] /\ outcome'[n] = outcome[n]
    PROVE  DeliverInv'
  <1>1. \A n \in Maps : DeliverOf(n)'
    BY DeliverSame DEF DeliverInv
  <1> QED BY <1>1 DEF DeliverInv

LEMMA DeliverSubmits ==
    ASSUME MapTypes, PullInv, DeliverInv, NEW m \in Maps, Submits(m)
    PROVE  DeliverInv'
  <1> DEFINE i == pulled[m] + 1
  <1>1. /\ pulled[m] \in Nat /\ pending[m] \in Seq(Nat) /\ out[m] \in Seq(Nat)
        /\ DeliverOf(m) /\ PullOf(m) /\ Len(out[m]) \in Nat
    BY DEF MapTypes, PullInv, DeliverInv
  <1>2. /\ pulled'[m] = i /\ pending'[m] = Append(pending[m], i) /\ out'[m] = out[m]
        /\ outcome'[m] = outcome[m] /\ owner'[m] \in {"fill", "handoff"}
        /\ current'[m] = current[m] /\ owner[m] \in {"fill", "probed"}
    BY <1>1 DEF Submits, MapTypes
  <1>3. i \in Nat /\ Absent(i, out[m]) /\ Absent(i, pending[m])
    BY <1>1 DEF PullOf, Absent
  <1>4. ~Turning(m) /\ ~Over(m) /\ ~Turning(m)' /\ ~Over(m)'
    BY <1>2 DEF Turning, Over
  <1>5. Distinct(out[m], pending'[m])
    BY <1>1, <1>2, <1>3, DistinctAppend DEF DeliverOf
  <1>6. Len(out[m]) + Len(pending'[m]) = i
    <2>1. Len(out[m]) + Len(pending[m]) = pulled[m]
      BY <1>1, <1>4 DEF DeliverOf
    <2>2. Len(pending'[m]) = Len(pending[m]) + 1 /\ Len(pending[m]) \in Nat
      BY <1>1, <1>2, <1>3, AppendIs
    <2> DEFINE a == Len(out[m])
               b == Len(pending[m])
               c == Len(pending'[m])
    <2>3. a \in Nat /\ b \in Nat /\ pulled[m] \in Nat /\ a + b = pulled[m] /\ c = b + 1
      BY <1>1, <2>1, <2>2
    <2> HIDE DEF a, b, c
    <2>4. a + c = pulled[m] + 1
      BY <2>3
    <2> QED BY <2>4 DEF a, c
  <1>7. m \notin Completion => InOrder(out[m]) /\ Latest(pending'[m], i)
    BY <1>1, <1>2, <1>4, OrderAppend DEF DeliverOf
  <1>8. outcome[m] # "done"
    BY <1>1, <1>4 DEF DeliverOf
  <1> HIDE DEF i
  <1>9. DeliverOf(m)'
    BY <1>2, <1>4, <1>5, <1>6, <1>7, <1>8 DEF DeliverOf
  <1> QED BY <1>9, DeliverOwner, Submits(m) DEF Submits, MapTypes

LEMMA DeliverTakes ==
    ASSUME MapTypes, PullInv, DeliverInv, NEW m \in Maps, NEW k, Takes(m, k)
    PROVE  DeliverInv'
  <1> DEFINE p == pending[m]
             q == pending'[m]
  <1>1. /\ k \in 1 .. Len(p) /\ p \in Seq(Nat) /\ pulled[m] \in Nat
        /\ q = RemoveAt(p, k) /\ current'[m] = p[k]
    BY TakenItem
  <1>2. /\ out'[m] = out[m] /\ pulled'[m] = pulled[m] /\ owner[m] = "pick" /\ size' = size
        /\ \/ owner'[m] = "closing" /\ outcome'[m] = "failed"
           \/ owner'[m] = "draining" /\ outcome'[m] = outcome[m]
        /\ DeliverOf(m) /\ Len(out[m]) \in Nat
    BY DEF Takes, ToClose, MapTypes, DeliverInv
  <1>3. ~Turning(m) /\ ~Over(m)
    BY <1>2 DEF Turning, Over
  <1>4. Cut(q, p, k)
    BY <1>1, RemoveCuts
  <1>5. Distinct(out[m], q) /\ Absent(p[k], out[m]) /\ Absent(p[k], q)
    BY <1>2, <1>4, DistinctCut DEF DeliverOf
  <1>6. Len(out[m]) + Len(q) + 1 = pulled[m]
    <2>1. Len(out[m]) + Len(p) = pulled[m]
      BY <1>2, <1>3 DEF DeliverOf
    <2>2. Len(q) = Len(p) - 1 /\ Len(p) \in Nat
      BY <1>4 DEF Cut
    <2> DEFINE a == Len(out[m])
               b == Len(p)
               c == Len(q)
    <2>3. a \in Nat /\ b \in Nat /\ a + b = pulled[m] /\ c = b - 1
      BY <1>2, <2>1, <2>2
    <2> HIDE DEF a, b, c
    <2>4. a + c + 1 = pulled[m]
      BY <2>3
    <2> QED BY <2>4 DEF a, c
  <1>7. m \notin Completion => InOrder(out[m]) /\ Latest(q, pulled[m]) /\ p[k] = Len(out[m]) + 1
    <2> SUFFICES ASSUME m \notin Completion
                 PROVE  InOrder(out[m]) /\ Latest(q, pulled[m]) /\ p[k] = Len(out[m]) + 1
      OBVIOUS
    <2>1. k = 1
      <3>1. \A i \in 1 .. k - 1 : m \in Completion
        BY DEF Takes, Pickable
      <3>2. 1 \notin 1 .. k - 1
        BY <3>1, Zenon
      <3>3. k \in Nat /\ k >= 1
        BY <1>4 DEF Cut
      <3> QED BY <3>2, <3>3
    <2>2. InOrder(out[m]) /\ Latest(p, pulled[m])
      BY <1>2, <1>3 DEF DeliverOf
    <2>3. Latest(q, pulled[m]) /\ p[1] = pulled[m] - Len(p) + 1 /\ Len(q) + 1 = Len(p) /\ Len(p) \in Nat
      BY <1>1, <1>4, <2>1, <2>2, LatestCut
    <2> DEFINE a == Len(out[m])
               b == Len(p)
               c == Len(q)
               e == p[1]
    <2>4. /\ a \in Nat /\ b \in Nat /\ a + c + 1 = pulled[m] /\ c = b - 1
          /\ e = pulled[m] - b + 1
      BY <1>2, <1>4, <1>6, <2>3 DEF Cut
    <2> HIDE DEF a, b, c, e
    <2>5. e = a + 1
      BY <2>4
    <2> QED BY <2>1, <2>2, <2>3, <2>5 DEF a, e
  <1>8. outcome[m] # "done"
    BY <1>2, <1>3 DEF DeliverOf
  <1> HIDE DEF q
  <1>9. DeliverOf(m)'
    <2>1. CASE owner'[m] = "closing" /\ outcome'[m] = "failed"
      BY <1>1, <1>2, <1>5, <1>7, <2>1 DEF DeliverOf, Turning, Over, q
    <2>2. CASE owner'[m] = "draining" /\ outcome'[m] = outcome[m]
      BY <1>1, <1>2, <1>5, <1>6, <1>7, <1>8, <2>2 DEF DeliverOf, Turning, Over, q
    <2> QED BY <1>2, <2>1, <2>2
  <1> QED BY <1>9, DeliverOwner, Takes(m, k) DEF Takes, ToClose, MapTypes

LEMMA DeliverDelivers ==
    ASSUME MapTypes, PullInv, DeliverInv, NEW m \in Maps, Delivers(m)
    PROVE  DeliverInv'
  <1>1. /\ pending[m] \in Seq(Nat) /\ out[m] \in Seq(Nat) /\ current[m] \in Nat
        /\ pulled[m] \in Nat /\ out'[m] = Append(out[m], current[m]) /\ Len(pending[m]) \in Nat
        /\ owner[m] = "waiting" /\ owner'[m] = "consuming" /\ DeliverOf(m)
    BY DEF Delivers, MapTypes, DeliverInv
  <1>2. Turning(m) /\ ~Over(m) /\ ~Turning(m)' /\ ~Over(m)'
    BY <1>1 DEF Turning, Over
  <1>3. /\ pending' = pending /\ current' = current /\ pulled' = pulled /\ outcome' = outcome
        /\ size' = size
    BY DEF Delivers
  <1>4. Distinct(out'[m], pending[m]) /\ Absent(current[m], pending[m])
    BY <1>1, <1>2, DistinctAppend DEF DeliverOf
  <1>5. Len(out'[m]) + Len(pending[m]) = pulled[m]
    <2>1. Len(out[m]) + Len(pending[m]) + 1 = pulled[m]
      BY <1>1, <1>2 DEF DeliverOf
    <2>2. Len(out'[m]) = Len(out[m]) + 1 /\ Len(out[m]) \in Nat
      BY <1>1, AppendIs
    <2> DEFINE a == Len(out[m])
               b == Len(pending[m])
               c == Len(out'[m])
    <2>3. a \in Nat /\ b \in Nat /\ a + b + 1 = pulled[m] /\ c = a + 1
      BY <1>1, <2>1, <2>2
    <2> HIDE DEF a, b, c
    <2>4. c + b = pulled[m]
      BY <2>3
    <2> QED BY <2>4 DEF b, c
  <1>6. m \notin Completion => InOrder(out'[m]) /\ Latest(pending[m], pulled[m])
    BY <1>1, <1>2, OrderAppend DEF DeliverOf
  <1>7. outcome[m] # "done"
    BY <1>1, <1>2 DEF DeliverOf
  <1>8. DeliverOf(m)'
    BY <1>1, <1>2, <1>3, <1>4, <1>5, <1>6, <1>7 DEF DeliverOf
  <1> QED BY <1>8, DeliverOwner, Delivers(m) DEF Delivers, MapTypes

LEMMA DeliverStep ==
    ASSUME MapTypes, PullInv, DeliverInv, SomeMove
    PROVE  DeliverInv'
  <1>1. CASE UNCHANGED Lists
    BY <1>1, DeliverSame DEF Lists, DeliverInv
  <1>2. ASSUME NEW w \in Works, NEW s, SupMoves(w, s) PROVE DeliverInv'
    BY <1>2, DeliverSame DEF SupMoves, DeliverInv
  <1>3. ASSUME NEW m \in Maps, Frees(m) PROVE DeliverInv'
    <2>1. DeliverOf(m)'
      BY <1>3 DEF Frees, DeliverInv, DeliverOf, Turning, Over, MapTypes
    <2> QED BY <1>3, <2>1, DeliverOwner DEF Frees, MapTypes
  <1>4. ASSUME NEW m \in Maps, Rejoins(m) PROVE DeliverInv'
    <2>1. DeliverOf(m)'
      BY <1>4 DEF Rejoins, ToClose, DeliverInv, DeliverOf, Turning, Over, MapTypes
    <2> QED BY <1>4, <2>1, DeliverOwner DEF Rejoins, ToClose, MapTypes
  <1>5. ASSUME NEW m \in Maps, Finishes(m) PROVE DeliverInv'
    <2>1. /\ pending'[m] = <<>> /\ Len(pending'[m]) = 0 /\ owner'[m] = "closed" /\ owner[m] = "stopping"
          /\ out' = out /\ outcome' = outcome /\ size' = size
      BY <1>5 DEF Finishes, MapTypes
    <2>2. Distinct(out[m], pending'[m])
      <3>1. Inj(out[m])
        BY DEF DeliverInv, DeliverOf, Distinct
      <3>2. \A k \in 1 .. Len(pending'[m]) : FALSE
        BY <2>1
      <3> QED BY <3>1, <3>2, Zenon DEF Distinct, Inj
    <2>3. DeliverOf(m)'
      BY <2>1, <2>2 DEF DeliverInv, DeliverOf, Turning, Over
    <2> QED BY <1>5, <2>3, DeliverOwner DEF Finishes, MapTypes
  <1>6. ASSUME NEW m \in Maps, NEW o, Proceeds(m, o) PROVE DeliverInv'
    <2>1. DeliverOf(m)'
      BY <1>6 DEF Proceeds, DeliverInv, DeliverOf, Turning, Over, MapTypes
    <2> QED BY <1>6, <2>1, DeliverOwner DEF Proceeds, MapTypes
  <1>7. ASSUME NEW m \in Maps, NEW how, Ends(m, how) PROVE DeliverInv'
    <2>1. how = "done" => Len(out[m]) = size[m]
      <3> SUFFICES ASSUME how = "done" PROVE Len(out[m]) = size[m]
        OBVIOUS
      <3>1. owner[m] = "pick" /\ Len(pending[m]) = 0 /\ pulled[m] = size[m] /\ DeliverOf(m)
        BY <1>7 DEF Ends, DeliverInv
      <3>2. Len(out[m]) \in Nat
        BY DEF MapTypes
      <3>3. Len(out[m]) + Len(pending[m]) = pulled[m]
        BY <3>1 DEF DeliverOf, Turning, Over
      <3> QED BY <3>1, <3>2, <3>3
    <2>2. /\ owner'[m] = "closing" /\ outcome'[m] = how /\ out' = out /\ pending' = pending
          /\ current' = current /\ pulled' = pulled /\ size' = size
      BY <1>7 DEF Ends, ToClose, MapTypes
    <2>3. DeliverOf(m)'
      BY <2>1, <2>2 DEF DeliverInv, DeliverOf, Turning, Over
    <2> QED BY <1>7, <2>3, DeliverOwner DEF Ends, ToClose, MapTypes
  <1> QED BY <1>1, <1>2, <1>3, <1>4, <1>5, <1>6, <1>7, DeliverSubmits, DeliverTakes, DeliverDelivers
          DEF SomeMove


-----------------------------------------------------------------------------
(* Threads and their requests. *)

\* A request is in one of three states.
LEMMA ReqStates ==
    ASSUME IInv
    PROVE  \A r \in Requests : req[r].st \in {"idle", "queued", "admitted"}
  BY DEF IInv, ReqInv, GoodAll, RequestType

\* The works of a map and its probe have jobs and requests of their own.
LEMMA JobFacts ==
    ASSUME NEW j \in Jobs
    PROVE  j[1] \in Maps /\ j \in JobsOf(j[1]) /\ Lease(j) \in Requests /\ Turn(j) \in Requests
  BY WorkNames, RequestNames DEF JobsOf

\* The step is one of map m: it leaves the other maps alone.
Local(m) ==
    /\ \A n \in Maps \ {m} : /\ owner'[n] = owner[n] /\ pending'[n] = pending[n]
                             /\ current'[n] = current[n]
    /\ \A v \in Works : v[1] # m => sup'[v] = sup[v]
    /\ \A j \in Jobs : j[1] # m =>
          /\ step'[j] = step[j] /\ (j \in cancelled' <=> j \in cancelled)
          /\ req'[Lease(j)].st = req[Lease(j)].st
          /\ req'[Turn(j)].st = req[Turn(j)].st /\ req'[Turn(j)].mode = req[Turn(j)].mode
    /\ \A v \in freed' : v \in freed \/ v[1] = m

\* Everything that is said about map m.
MapOK(m) == (\A w \in Works : w[1] = m => WorkOK(w)) /\ ProbeOK(m) /\ HoldOK(m)

LEMMA WorkSame ==
    ASSUME NEW w \in Works, WorkOK(w), sup'[w] = sup[w], step'[w] = step[w],
           owner'[w[1]] = owner[w[1]], current'[w[1]] = current[w[1]],
           req'[Lease(w)].st = req[Lease(w)].st, req'[Turn(w)].st = req[Turn(w)].st,
           req'[Turn(w)].mode = req[Turn(w)].mode
    PROVE  WorkOK(w)'
  BY DEF WorkOK, At

LEMMA ProbeSame ==
    ASSUME NEW m \in Maps, ProbeOK(m), step'[Probe(m)] = step[Probe(m)], owner'[m] = owner[m],
           req'[Lease(Probe(m))].st = req[Lease(Probe(m))].st,
           req'[Turn(Probe(m))].st = req[Turn(Probe(m))].st
    PROVE  ProbeOK(m)'
  BY DEF ProbeOK

LEMMA StopSame ==
    ASSUME NEW m \in Maps, \A j \in JobsOf(m) : j \in cancelled' <=> j \in cancelled
    PROVE  Stop(m)' = Stop(m) /\ (JobsOf(m) \cap cancelled)' = JobsOf(m) \cap cancelled
  BY DEF Stop, JobsOf

LEMMA HoldSame ==
    ASSUME MapTypes, PullInv, NEW m \in Maps, HoldOK(m),
           owner'[m] = owner[m], pending'[m] = pending[m], current'[m] = current[m],
           \A v \in Works : v[1] = m => sup'[v] = sup[v] /\ req'[Turn(v)].st = req[Turn(v)].st,
           \A j \in JobsOf(m) : j \in cancelled' <=> j \in cancelled,
           \A v \in freed' : v[1] = m => v \in freed
    PROVE  HoldOK(m)'
  <1>1. Stop(m)' = Stop(m) /\ (JobsOf(m) \cap cancelled)' = JobsOf(m) \cap cancelled
    BY StopSame
  <1>2. Drained(m)' = Drained(m)
    BY DEF Drained, JobsOf
  <1>3. Turning(m)' = Turning(m) /\ Current(m)' = Current(m)
    BY DEF Turning, Current
  <1>4. Turning(m) \/ owner[m] = "consuming" =>
           sup'[Current(m)] = sup[Current(m)] /\ req'[Turn(Current(m))].st = req[Turn(Current(m))].st
    <2>1. Turning(m) \/ owner[m] = "consuming" => current[m] # 0
      BY DEF PullInv, PullOf, MapTypes
    <2> QED BY <2>1, CurrentWork
  <1>5. \A v \in freed' : v[1] = m /\ owner'[m] \notin {"stopping", "closed"} =>
          /\ \A k \in 1 .. Len(pending'[m]) : pending'[m][k] # v[2]
          /\ current'[m] = v[2] => owner'[m] = "joining"
    <2> SUFFICES ASSUME NEW v \in freed', v[1] = m, owner'[m] \notin {"stopping", "closed"}
                 PROVE  /\ \A k \in 1 .. Len(pending'[m]) : pending'[m][k] # v[2]
                        /\ current'[m] = v[2] => owner'[m] = "joining"
      OBVIOUS
    <2>1. v \in freed /\ owner[m] \notin {"stopping", "closed"}
      OBVIOUS
    <2>2. /\ \A k \in 1 .. Len(pending[m]) : pending[m][k] # v[2]
          /\ current[m] = v[2] => owner[m] = "joining"
      BY <2>1 DEF HoldOK
    <2> QED BY <2>2
  <1> QED BY <1>1, <1>2, <1>3, <1>4, <1>5 DEF HoldOK

\* A step of map m keeps the invariant when it does so for m.
LEMMA LocalStep ==
    ASSUME MapTypes, PullInv, ThreadInv, HoldInv, NEW m \in Maps, Local(m), MapOK(m)'
    PROVE  ThreadInv' /\ HoldInv'
  <1>1. ASSUME NEW w \in Works PROVE WorkOK(w)'
    <2>1. CASE w[1] = m
      BY <2>1 DEF MapOK
    <2>2. CASE w[1] # m
      <3>1. w \in Jobs /\ w[1] \in Maps /\ WorkOK(w)
        BY WorkNames DEF ThreadInv
      <3> QED BY <2>2, <3>1, WorkSame DEF Local
    <2> QED BY <2>1, <2>2
  <1>2. ASSUME NEW n \in Maps PROVE ProbeOK(n)' /\ HoldOK(n)'
    <2>1. CASE n = m
      BY <2>1 DEF MapOK
    <2>2. CASE n # m
      <3>1. Probe(n) \in Jobs /\ Probe(n)[1] = n /\ ProbeOK(n) /\ HoldOK(n)
        BY WorkNames DEF ThreadInv, HoldInv
      <3>2. ProbeOK(n)'
        BY <2>2, <3>1, ProbeSame DEF Local
      <3>3. \A v \in Works : v[1] = n => sup'[v] = sup[v] /\ req'[Turn(v)].st = req[Turn(v)].st
        BY <2>2, WorkNames DEF Local
      <3>4. \A j \in JobsOf(n) : j \in cancelled' <=> j \in cancelled
        BY <2>2 DEF Local, JobsOf
      <3>5. \A v \in freed' : v[1] = n => v \in freed
        BY <2>2 DEF Local
      <3>6. HoldOK(n)'
        BY <2>2, <3>1, <3>3, <3>4, <3>5, HoldSame DEF Local
      <3> QED BY <3>2, <3>6
    <2> QED BY <2>1, <2>2
  <1> QED BY <1>1, <1>2 DEF ThreadInv, HoldInv


\* A step of the supervisor of w.  A result that is held for its owner stays
\* unless it was released or the map stops.
LEMMA SupervisorStep ==
    ASSUME IInv, MapTypes, PullInv, ThreadInv, HoldInv, NEW w \in Works, NEW s,
           sup[w] \notin {"none", "finished"}, sup[w] # "ready" \/ w \in freed \cup cancelled,
           SupMoves(w, s), step' = step, cancelled' = cancelled,
           KeepsBut({Lease(w), Turn(w)}), req'[Lease(w)].st = WorkLease(s),
           \/ req'[Turn(w)].st = req[Turn(w)].st /\ req'[Turn(w)].mode = req[Turn(w)].mode
           \/ req'[Turn(w)].st = "idle" /\ req[Turn(w)].st # "queued"
    PROVE  ThreadInv' /\ HoldInv'
  <1> DEFINE m == w[1]
  <1>1. w \in Jobs /\ m \in Maps /\ w[2] \in Nat \ {0} /\ w = <<m, w[2]>> /\ w \in JobsOf(m)
    BY WorkNames
  <1>2. /\ owner' = owner /\ pending' = pending /\ current' = current /\ freed' = freed
        /\ sup'[w] = s /\ \A v \in Works : v # w => sup'[v] = sup[v]
    BY DEF SupMoves, MapTypes
  <1>3. \A j \in Jobs : j # w => /\ req'[Lease(j)].st = req[Lease(j)].st
                                 /\ req'[Turn(j)].st = req[Turn(j)].st
                                 /\ req'[Turn(j)].mode = req[Turn(j)].mode
    BY <1>1, RequestNames DEF KeepsBut
  <1> HIDE DEF m
  <1>4. Local(m)
    BY <1>2, <1>3, WorkNames DEF Local, m
  <1>5. WorkOK(w) /\ ProbeOK(m) /\ HoldOK(m)
    BY <1>1 DEF ThreadInv, HoldInv
  <1>6. WorkOK(w)'
    <2>1. req'[Lease(w)].st = WorkLease(sup'[w])
      BY <1>2
    <2>2. CASE req'[Turn(w)].st = req[Turn(w)].st /\ req'[Turn(w)].mode = req[Turn(w)].mode
      BY <1>2, <1>5, <2>1, <2>2 DEF WorkOK, At
    <2>3. CASE req'[Turn(w)].st = "idle" /\ req[Turn(w)].st # "queued"
      BY <1>2, <1>5, <2>1, <2>3 DEF WorkOK, At
    <2> QED BY <2>2, <2>3
  <1>7. ASSUME NEW v \in Works, v # w PROVE WorkOK(v)'
    <2>1. WorkOK(v) /\ v \in Jobs
      BY WorkNames DEF ThreadInv
    <2> QED BY <1>2, <1>3, <1>7, <2>1, WorkSame
  <1>8. ProbeOK(m)'
    <2>1. Probe(m) \in Jobs /\ Probe(m) # w
      BY <1>1, WorkNames
    <2> QED BY <1>1, <1>2, <1>3, <1>5, <2>1, ProbeSame
  <1>9. HoldOK(m)'
    <2>1. Turning(m) \/ owner[m] = "consuming" => current[m] # 0
      BY <1>1 DEF PullInv, PullOf, MapTypes
    <2>2. ASSUME Turning(m) \/ owner[m] = "consuming", ~Stop(m)
          PROVE  Current(m) \in Works /\ Current(m) # w
      <3>1. Current(m) \in Works /\ Current(m)[2] = current[m] /\ Current(m)[1] = m
        BY <1>1, <2>1, <2>2, CurrentWork
      <3>2. sup[Current(m)] = "ready"
        BY <1>5, <2>2 DEF HoldOK
      <3>3. w \notin cancelled
        BY <1>1, <1>5, <2>2 DEF HoldOK
      <3>4. ASSUME Current(m) = w PROVE FALSE
        <4>1. w \in freed /\ current[m] = w[2] /\ w[1] = m
          BY <3>1, <3>2, <3>3, <3>4 DEF m
        <4>2. owner[m] \notin {"stopping", "closed", "joining"}
          BY <2>2 DEF Turning
        <4> QED BY <1>5, <4>1, <4>2 DEF HoldOK
      <3> QED BY <3>1, <3>4
    <2>3. Stop(m)' = Stop(m) /\ (JobsOf(m) \cap cancelled)' = JobsOf(m) \cap cancelled
      BY DEF Stop
    <2>4. Turning(m)' = Turning(m) /\ Current(m)' = Current(m)
      BY <1>2 DEF Turning, Current
    <2>5. owner[m] # "closed"
      <3>1. w \in Works \cap JobsOf(m)
        BY <1>1
      <3> QED BY <1>5, <3>1 DEF HoldOK, Drained
    <2>6. ASSUME Turning(m) \/ owner[m] = "consuming", ~Stop(m)
          PROVE  /\ sup'[Current(m)] = sup[Current(m)]
                 /\ req'[Turn(Current(m))].st = req[Turn(Current(m))].st
      BY <1>2, <1>3, <2>2, <2>6, WorkNames
    <2>7. \A v \in freed' : v[1] = m /\ owner'[m] \notin {"stopping", "closed"} =>
            /\ \A k \in 1 .. Len(pending'[m]) : pending'[m][k] # v[2]
            /\ current'[m] = v[2] => owner'[m] = "joining"
      BY <1>2, <1>5 DEF HoldOK
    <2> QED BY <1>2, <1>5, <2>3, <2>4, <2>5, <2>6, <2>7 DEF HoldOK
  <1>10. MapOK(m)'
    BY <1>6, <1>7, <1>8, <1>9 DEF MapOK
  <1> QED BY <1>1, <1>4, <1>10, LocalStep

\* The supervisors' steps.
LEMMA SupervisorSteps ==
    ASSUME MInv, NEW w \in Works, SupStep(w) \/ Granted(w)
    PROVE  IInv' /\ ThreadInv' /\ HoldInv'
  <1>0. IInv /\ MapTypes /\ PullInv /\ ThreadInv /\ HoldInv /\ WorkOK(w)
    BY DEF MInv, ThreadInv
  <1>1. w \in Jobs /\ Lease(w) \in Requests /\ Turn(w) \in Requests /\ Lease(w) # Turn(w)
    BY WorkNames, RequestNames
  <1>2. CASE Asks(w)
    <2>1. IInv'
      BY <1>0, <1>1, <1>2, AdmitStep DEF Asks
    <2>2. /\ req'[Lease(w)].st = "queued" /\ KeepsBut({Lease(w)})
          /\ step' = step /\ cancelled' = cancelled
      BY <1>0, <1>1, <1>2, AdmitDoes DEF Asks
    <2>3. SupMoves(w, "asking") /\ sup[w] = "start"
      BY <1>2 DEF Asks, SupMoves
    <2>4. /\ KeepsBut({Lease(w), Turn(w)})
          /\ req'[Turn(w)].st = req[Turn(w)].st /\ req'[Turn(w)].mode = req[Turn(w)].mode
      BY <1>1, <2>2 DEF KeepsBut
    <2>5. WorkLease("asking") = "queued"
      BY DEF WorkLease
    <2> QED BY <1>0, <2>1, <2>2, <2>3, <2>4, <2>5, SupervisorStep
  <1>3. CASE Granted(w)
    <2>1. IInv'
      BY <1>0, <1>1, <1>3, GrantStep DEF Granted
    <2>2. /\ req'[Lease(w)].st = "admitted" /\ KeepsBut({Lease(w)})
          /\ step' = step /\ cancelled' = cancelled
      BY <1>0, <1>1, <1>3, GrantDoes DEF Granted
    <2>3. SupMoves(w, "holding") /\ sup[w] = "asking"
      BY <1>3 DEF Granted, SupMoves
    <2>4. /\ KeepsBut({Lease(w), Turn(w)})
          /\ req'[Turn(w)].st = req[Turn(w)].st /\ req'[Turn(w)].mode = req[Turn(w)].mode
      BY <1>1, <2>2 DEF KeepsBut
    <2>5. WorkLease("holding") = "admitted"
      BY DEF WorkLease
    <2> QED BY <1>0, <2>1, <2>2, <2>3, <2>4, <2>5, SupervisorStep
  <1>4. CASE AskFails(w)
    <2>1. SupMoves(w, "finished") /\ sup[w] \in {"start", "asking"}
      BY <1>4 DEF AskFails, SupMoves
    <2>2. WorkLease("finished") = "idle" /\ WorkLease("start") = "idle"
      BY DEF WorkLease
    <2>3. CASE sup[w] = "start" /\ UNCHANGED vars
      <3>1. IInv'
        BY <1>0, <2>3, SameStep
      <3>2. req' = req /\ step' = step /\ cancelled' = cancelled /\ req[Lease(w)].st = "idle"
        BY <1>0, <2>2, <2>3 DEF vars, WorkOK
      <3>3. KeepsBut({Lease(w), Turn(w)})
        BY <3>2 DEF KeepsBut
      <3> QED BY <1>0, <2>1, <2>2, <3>1, <3>2, <3>3, SupervisorStep
    <2>4. CASE TimeOut(Lease(w)) \/ Abandon(Lease(w))
      <3>1. IInv'
        BY <1>0, <1>1, <2>4, TimeOutStep, AbandonStep
      <3>2. /\ req'[Lease(w)].st = "idle" /\ KeepsBut({Lease(w)})
            /\ step' = step /\ cancelled' = cancelled
        BY <1>0, <1>1, <2>4, GiveUpDoes
      <3>3. /\ KeepsBut({Lease(w), Turn(w)})
            /\ req'[Turn(w)].st = req[Turn(w)].st /\ req'[Turn(w)].mode = req[Turn(w)].mode
        BY <1>1, <3>2 DEF KeepsBut
      <3> QED BY <1>0, <2>1, <2>2, <3>1, <3>2, <3>3, SupervisorStep
    <2> QED BY <1>4, <2>3, <2>4 DEF AskFails
  <1>5. CASE Begins(w)
    <2>1. IInv'
      BY <1>0, <1>5, SameStep DEF Begins
    <2>2. SupMoves(w, "running") /\ sup[w] = "holding"
      BY <1>5 DEF Begins, SupMoves
    <2>3. WorkLease("running") = "admitted" /\ WorkLease("holding") = "admitted"
      BY DEF WorkLease
    <2>4. req' = req /\ step' = step /\ cancelled' = cancelled /\ req[Lease(w)].st = "admitted"
      BY <1>0, <1>5, <2>2, <2>3 DEF Begins, vars, WorkOK
    <2>5. KeepsBut({Lease(w), Turn(w)})
      BY <2>4 DEF KeepsBut
    <2> QED BY <1>0, <2>1, <2>2, <2>3, <2>4, <2>5, SupervisorStep
  <1>6. CASE Returns(w)
    <2>1. IInv'
      BY <1>0, <1>1, <1>6, ReleaseCpuStep DEF Returns
    <2>2. PICK s \in {"ready", "leaving"} : SupMoves(w, s)
      <3>1. SupMoves(w, "ready") \/ SupMoves(w, "leaving")
        BY <1>6 DEF Returns, SupMoves
      <3> QED BY <3>1
    <2>3. /\ sup[w] = "running" /\ req' = CpuReleased(w) /\ step' = step /\ cancelled' = cancelled
          /\ req[Turn(w)].st # "queued"
      BY <1>6 DEF Returns, ReleaseCpu, Runs, Waiting
    <2>4. /\ req'[Lease(w)].st = req[Lease(w)].st /\ req'[Turn(w)].st = "idle"
          /\ KeepsBut({Lease(w), Turn(w)})
      BY <1>0, <1>1, <2>3, CpuBackDoes
    <2>5. req[Lease(w)].st = WorkLease(s)
      BY <1>0, <2>3 DEF WorkOK, WorkLease
    <2> QED BY <1>0, <2>1, <2>2, <2>3, <2>4, <2>5, SupervisorStep
  <1>7. CASE Leaves(w)
    <2>1. IInv'
      BY <1>0, <1>1, <1>7, EndLeaseStep DEF Leaves
    <2>2. SupMoves(w, "finished")
      BY <1>7 DEF Leaves, MayLeave, SupMoves
    <2>3. /\ req'[Lease(w)].st = "idle"
          /\ req'[Turn(w)].st = IF req[Turn(w)].st = "queued" THEN "queued" ELSE "idle"
          /\ req'[Turn(w)].mode = req[Turn(w)].mode \/ req'[Turn(w)].st = "idle"
          /\ KeepsBut({Lease(w), Turn(w)}) /\ step' = step /\ cancelled' = cancelled
      BY <1>0, <1>1, <1>7, EndDoes DEF Leaves
    <2>4. sup[w] \notin {"none", "finished"} /\ (sup[w] # "ready" \/ w \in freed \cup cancelled)
      BY <1>7 DEF Leaves, MayLeave
    <2>5. WorkLease("finished") = "idle"
      BY DEF WorkLease
    <2> QED BY <1>0, <2>1, <2>2, <2>3, <2>4, <2>5, SupervisorStep
  <1> QED BY <1>2, <1>3, <1>4, <1>5, <1>6, <1>7 DEF SupStep


-----------------------------------------------------------------------------
(* The owners' steps. *)

Neutral == {"fill", "handoff", "pick", "probing", "probed"}

\* The owner of v has no turn to ask for or to give back for it.
Away(v) == \A o \in {"draining", "waiting", "consuming", "closing"} : ~At(v, o)

\* A step of the owner of m that touches the requests of its job j only.
LEMMA OwnerLocal ==
    ASSUME NEW m \in Maps, NEW j \in Jobs, j[1] = m, KeepsBut({Lease(j), Turn(j)}),
           \A k \in Jobs : k[1] # m => step'[k] = step[k] /\ (k \in cancelled' <=> k \in cancelled),
           \A v \in freed' : v \in freed \/ v[1] = m,
           \A v \in Works : v[1] # m => sup'[v] = sup[v],
           \A n \in Maps \ {m} : /\ owner'[n] = owner[n] /\ pending'[n] = pending[n]
                                 /\ current'[n] = current[n]
    PROVE  /\ Local(m)
           /\ \A k \in Jobs : k # j => /\ req'[Lease(k)].st = req[Lease(k)].st
                                       /\ req'[Turn(k)].st = req[Turn(k)].st
                                       /\ req'[Turn(k)].mode = req[Turn(k)].mode
  <1>1. \A k \in Jobs : k # j => /\ req'[Lease(k)].st = req[Lease(k)].st
                                 /\ req'[Turn(k)].st = req[Turn(k)].st
                                 /\ req'[Turn(k)].mode = req[Turn(k)].mode
    BY RequestNames DEF KeepsBut
  <1> QED BY <1>1 DEF Local

LEMMA AwayTurn ==
    ASSUME IInv, NEW v \in Works, WorkOK(v), Away(v)
    PROVE  req[Turn(v)].st = "idle" /\ step[v] = "none"
  <1>1. req[Turn(v)].st \in {"idle", "queued", "admitted"}
    BY WorkNames, RequestNames, ReqStates
  <1> QED BY <1>1 DEF WorkOK, Away

LEMMA AwayWork ==
    ASSUME NEW v \in Works, Away(v)', req'[Turn(v)].st = "idle", step'[v] = "none",
           req'[Lease(v)].st = WorkLease(sup'[v])
    PROVE  WorkOK(v)'
  BY DEF WorkOK, Away

\* A work whose turn nobody touches stays as it is.
LEMMA AwayStays ==
    ASSUME IInv, NEW v \in Works, WorkOK(v), Away(v), Away(v)', sup'[v] = sup[v],
           step'[v] = step[v], req'[Lease(v)].st = req[Lease(v)].st,
           req'[Turn(v)].st = req[Turn(v)].st
    PROVE  WorkOK(v)'
  <1>1. req[Turn(v)].st = "idle" /\ step[v] = "none" /\ req[Lease(v)].st = WorkLease(sup[v])
    BY AwayTurn DEF WorkOK
  <1> QED BY <1>1, AwayWork

LEMMA AwayIs ==
    ASSUME NEW v \in Works
    PROVE  /\ owner[v[1]] \notin {"draining", "waiting", "consuming", "closing"} => Away(v)
           /\ current[v[1]] # v[2] => Away(v)
           /\ owner'[v[1]] \notin {"draining", "waiting", "consuming", "closing"} => Away(v)'
           /\ current'[v[1]] # v[2] => Away(v)'
  BY DEF Away, At

\* What is said of the cancellations of m, and of its released items, when
\* its lists stay.
LEMMA HoldLists ==
    ASSUME NEW m \in Maps, HoldOK(m), cancelled' = cancelled, freed' = freed,
           pending'[m] = pending[m], current'[m] = current[m],
           owner[m] \notin {"stopping", "closed"}, owner[m] # "joining"
    PROVE  /\ Stop(m)' = Stop(m) /\ (Stop(m)' \/ (JobsOf(m) \cap cancelled)' = {})
           /\ \A w \in freed' : w[1] = m /\ owner'[m] \notin {"stopping", "closed"} =>
                /\ \A k \in 1 .. Len(pending'[m]) : pending'[m][k] # w[2]
                /\ current'[m] = w[2] => owner'[m] = "joining"
  <1>1. Stop(m)' = Stop(m) /\ (JobsOf(m) \cap cancelled)' = JobsOf(m) \cap cancelled
    BY DEF Stop
  <1>2. \A w \in freed : w[1] = m =>
          /\ \A k \in 1 .. Len(pending[m]) : pending[m][k] # w[2]
          /\ current[m] # w[2]
    BY DEF HoldOK
  <1> QED BY <1>1, <1>2 DEF HoldOK

\* The owner goes on or closes, outside any turn; its probe may be asked for,
\* be granted or end.
LEMMA NeutralStep ==
    ASSUME IInv, MapTypes, PullInv, ThreadInv, HoldInv, NEW m \in Maps, NEW o,
           owner[m] \in Neutral, o \in Neutral \cup {"closing"},
           owner' = [owner EXCEPT ![m] = o], UNCHANGED <<pending, current, sup, freed>>,
           step' = step, cancelled' = cancelled, KeepsBut({Lease(Probe(m)), Turn(Probe(m))}),
           req'[Lease(Probe(m))].st = ProbeLease(o), req'[Turn(Probe(m))].st = "idle"
    PROVE  ThreadInv' /\ HoldInv'
  <1>1. Probe(m) \in Jobs /\ Probe(m)[1] = m /\ Probe(m) \notin Works
    BY WorkNames
  <1>2. owner'[m] = o /\ \A n \in Maps \ {m} : owner'[n] = owner[n]
    BY DEF MapTypes
  <1>3. /\ Local(m)
        /\ \A k \in Jobs : k # Probe(m) => /\ req'[Lease(k)].st = req[Lease(k)].st
                                           /\ req'[Turn(k)].st = req[Turn(k)].st
                                           /\ req'[Turn(k)].mode = req[Turn(k)].mode
    BY <1>1, <1>2, OwnerLocal
  <1>4. ASSUME NEW w \in Works, w[1] = m PROVE WorkOK(w)'
    <2>1. w \in Jobs /\ w # Probe(m) /\ WorkOK(w) /\ owner[w[1]] \in Neutral
      BY <1>1, <1>4, WorkNames DEF ThreadInv
    <2>2. Away(w)
      BY <2>1, AwayIs DEF Neutral
    <2>3. req[Turn(w)].st = "idle" /\ step[w] = "none" /\ req[Lease(w)].st = WorkLease(sup[w])
      BY <2>1, <2>2, AwayTurn DEF WorkOK
    <2>4. ~At(w, "draining")' /\ ~At(w, "waiting")'
      BY <1>2, <1>4 DEF At, Neutral
    <2> QED BY <1>3, <2>1, <2>3, <2>4 DEF WorkOK
  <1>5. ProbeOK(m)'
    BY <1>2 DEF ProbeOK, ThreadInv
  <1>6. HoldOK(m)'
    <2>1. HoldOK(m) /\ owner[m] \notin {"stopping", "closed"} /\ owner[m] # "joining"
      BY DEF HoldInv, Neutral
    <2>2. /\ Stop(m)' = Stop(m) /\ (Stop(m)' \/ (JobsOf(m) \cap cancelled)' = {})
          /\ \A w \in freed' : w[1] = m /\ owner'[m] \notin {"stopping", "closed"} =>
               /\ \A k \in 1 .. Len(pending'[m]) : pending'[m][k] # w[2]
               /\ current'[m] = w[2] => owner'[m] = "joining"
      BY <2>1, HoldLists
    <2>3. owner'[m] \notin {"draining", "waiting", "consuming", "closed"}
      BY <1>2 DEF Neutral
    <2> QED BY <2>2, <2>3 DEF HoldOK, Turning
  <1> QED BY <1>3, <1>4, <1>5, <1>6, LocalStep DEF MapOK

LEMMA NeutralSteps ==
    ASSUME MInv, NEW m \in Maps,
           \/ ProbeAsks(m) \/ ProbeGranted(m) \/ Handoff(m) \/ Prepare(m) \/ Idles(m) \/ Observes(m)
           \/ owner[m] = "probing" /\ OwnerRefused(m)
    PROVE  IInv' /\ ThreadInv' /\ HoldInv'
  <1>0. IInv /\ MapTypes /\ PullInv /\ ThreadInv /\ HoldInv /\ ProbeOK(m)
    BY DEF MInv, ThreadInv
  <1> DEFINE p == Probe(m)
  <1>1. p \in Jobs /\ Lease(p) \in Requests /\ Turn(p) \in Requests /\ Lease(p) # Turn(p)
    BY WorkNames, RequestNames
  <1> HIDE DEF p
  <1>2. CASE ProbeAsks(m)
    <2>1. IInv'
      BY <1>0, <1>1, <1>2, AdmitStep DEF ProbeAsks, p
    <2>2. /\ req'[Lease(p)].st = "queued" /\ KeepsBut({Lease(p)})
          /\ step' = step /\ cancelled' = cancelled
      BY <1>0, <1>1, <1>2, AdmitDoes DEF ProbeAsks, p
    <2>3. KeepsBut({Lease(p), Turn(p)}) /\ req'[Turn(p)].st = "idle"
      BY <1>0, <1>1, <2>2 DEF KeepsBut, ProbeOK, p
    <2>4. ProbeLease("probing") = "queued" /\ "probing" \in Neutral /\ owner[m] \in Neutral
      BY <1>2 DEF ProbeLease, Neutral, ProbeAsks
    <2>5. owner' = [owner EXCEPT ![m] = "probing"] /\ UNCHANGED <<pending, current, sup, freed>>
      BY <1>2 DEF ProbeAsks
    <2> QED BY <1>0, <2>1, <2>2, <2>3, <2>4, <2>5, NeutralStep DEF p
  <1>3. CASE ProbeGranted(m)
    <2>1. IInv'
      BY <1>0, <1>1, <1>3, GrantStep DEF ProbeGranted, p
    <2>2. /\ req'[Lease(p)].st = "admitted" /\ KeepsBut({Lease(p)})
          /\ step' = step /\ cancelled' = cancelled
      BY <1>0, <1>1, <1>3, GrantDoes DEF ProbeGranted, p
    <2>3. KeepsBut({Lease(p), Turn(p)}) /\ req'[Turn(p)].st = "idle"
      BY <1>0, <1>1, <2>2 DEF KeepsBut, ProbeOK, p
    <2>4. ProbeLease("probed") = "admitted" /\ "probed" \in Neutral /\ owner[m] \in Neutral
      BY <1>3 DEF ProbeLease, Neutral, ProbeGranted
    <2>5. owner' = [owner EXCEPT ![m] = "probed"] /\ UNCHANGED <<pending, current, sup, freed>>
      BY <1>3 DEF ProbeGranted
    <2> QED BY <1>0, <2>1, <2>2, <2>3, <2>4, <2>5, NeutralStep DEF p
  <1>4. CASE owner[m] = "probing" /\ OwnerRefused(m)
    <2>1. TimeOut(Lease(p)) \/ Abandon(Lease(p))
      BY <1>4 DEF OwnerRefused, p
    <2>2. IInv'
      BY <1>0, <1>1, <2>1, TimeOutStep, AbandonStep
    <2>3. /\ req'[Lease(p)].st = "idle" /\ KeepsBut({Lease(p)})
          /\ step' = step /\ cancelled' = cancelled
      BY <1>0, <1>1, <2>1, GiveUpDoes
    <2>4. KeepsBut({Lease(p), Turn(p)}) /\ req'[Turn(p)].st = "idle"
      BY <1>0, <1>1, <2>3 DEF KeepsBut, ProbeOK, p
    <2>5. ProbeLease("closing") = "idle" /\ owner[m] \in Neutral
      BY <1>4 DEF ProbeLease, Neutral
    <2>6. owner' = [owner EXCEPT ![m] = "closing"] /\ UNCHANGED <<pending, current, sup, freed>>
      BY <1>4 DEF OwnerRefused, ToClose
    <2> QED BY <1>0, <2>2, <2>3, <2>4, <2>5, <2>6, NeutralStep DEF p
  <1>5. CASE Handoff(m) \/ Prepare(m) \/ Idles(m) \/ Observes(m)
    <2>1. /\ UNCHANGED <<req, step, cancelled>> /\ UNCHANGED <<pending, current, sup, freed>>
          /\ owner[m] \in {"fill", "handoff", "pick"}
      BY <1>5 DEF Handoff, Prepare, Idles, Observes, vars
    <2>2. IInv'
      <3>1. CASE Prepare(m)
        BY <1>0, <3>1, ViewStep DEF Prepare
      <3>2. CASE Handoff(m) \/ Idles(m) \/ Observes(m)
        BY <1>0, <3>2, SameStep DEF Handoff, Idles, Observes
      <3> QED BY <1>5, <3>1, <3>2
    <2>3. PICK o \in {"fill", "pick", "handoff", "closing"} : owner' = [owner EXCEPT ![m] = o]
      <3>1. CASE Handoff(m)
        <4>1. (owner' = owner /\ owner[m] = "handoff") \/ owner' = [owner EXCEPT ![m] = "fill"]
          BY <3>1 DEF Handoff
        <4>2. owner = [owner EXCEPT ![m] = owner[m]]
          BY <1>0 DEF MapTypes
        <4> QED BY <4>1, <4>2
      <3>2. CASE Prepare(m) \/ Idles(m) \/ Observes(m)
        BY <3>2 DEF Prepare, Idles, Observes, ToClose
      <3> QED BY <1>5, <3>1, <3>2
    <2>4. o \in Neutral \cup {"closing"} /\ owner[m] \in Neutral
      BY <2>1 DEF Neutral
    <2>5. req[Lease(p)].st = ProbeLease(o) /\ req[Turn(p)].st = "idle"
      BY <1>0, <2>1 DEF ProbeOK, ProbeLease, p
    <2>6. KeepsBut({Lease(p), Turn(p)})
      BY <2>1 DEF KeepsBut
    <2> QED BY <1>0, <2>1, <2>2, <2>3, <2>4, <2>5, <2>6, NeutralStep DEF p
  <1> QED BY <1>2, <1>3, <1>4, <1>5


\* A step of the owner of m around its current item j.
LEMMA CurrentStep ==
    ASSUME IInv, MapTypes, PullInv, ThreadInv, HoldInv, NEW m \in Maps, NEW j \in Jobs, j[1] = m,
           j \in Works \/ req' = req, KeepsBut({Lease(j), Turn(j)}),
           j \in Works => WorkOK(j)',
           \A v \in Works : v[1] = m /\ v # j => Away(v) /\ Away(v)',
           \A k \in Jobs : k # j \/ k \notin Works => step'[k] = step[k],
           \A k \in Jobs : k[1] # m => (k \in cancelled' <=> k \in cancelled),
           \A v \in freed' : v \in freed \/ v[1] = m, sup' = sup,
           \A n \in Maps \ {m} : /\ owner'[n] = owner[n] /\ pending'[n] = pending[n]
                                 /\ current'[n] = current[n],
           ProbeLease(owner'[m]) = ProbeLease(owner[m]), HoldOK(m)'
    PROVE  ThreadInv' /\ HoldInv'
  <1>1. /\ Local(m)
        /\ \A k \in Jobs : k # j => /\ req'[Lease(k)].st = req[Lease(k)].st
                                    /\ req'[Turn(k)].st = req[Turn(k)].st
                                    /\ req'[Turn(k)].mode = req[Turn(k)].mode
    <2>1. \A k \in Jobs : k[1] # m => step'[k] = step[k] /\ (k \in cancelled' <=> k \in cancelled)
      OBVIOUS
    <2> QED BY <2>1, OwnerLocal
  <1>2. ASSUME NEW w \in Works, w[1] = m PROVE WorkOK(w)'
    <2>1. CASE w = j
      BY <2>1
    <2>2. CASE w # j
      <3>1. w \in Jobs /\ WorkOK(w) /\ Away(w) /\ Away(w)'
        BY <1>2, <2>2, WorkNames DEF ThreadInv
      <3> QED BY <1>1, <2>2, <3>1, AwayStays
    <2> QED BY <2>1, <2>2
  <1>3. ProbeOK(m)'
    <2>1. Probe(m) \in Jobs /\ Probe(m) \notin Works /\ ProbeOK(m)
      BY WorkNames DEF ThreadInv
    <2>2. req'[Lease(Probe(m))].st = req[Lease(Probe(m))].st /\ req'[Turn(Probe(m))].st = req[Turn(Probe(m))].st
      BY <1>1, <2>1
    <2> QED BY <2>1, <2>2 DEF ProbeOK
  <1> QED BY <1>1, <1>2, <1>3, LocalStep DEF MapOK

\* The owner's current item c, and what is known of the other works.
LEMMA CurrentFacts ==
    ASSUME IInv, MapTypes, PullInv, ThreadInv, NEW m \in Maps, current[m] # 0
    PROVE  /\ Current(m) \in Works /\ Current(m) \in Jobs /\ Current(m)[1] = m
           /\ Current(m)[2] = current[m] /\ WorkOK(Current(m)) /\ Current(m) \in JobsOf(m)
           /\ \A v \in Works : v[1] = m /\ v # Current(m) => Away(v)
  <1>1. /\ Current(m) \in Works /\ Current(m) \in Jobs
        /\ Current(m)[1] = m /\ Current(m)[2] = current[m]
    BY CurrentWork
  <1>2. \A v \in Works : v[1] = m /\ v # Current(m) => current[v[1]] # v[2]
    BY WorkNames DEF Current
  <1>3. \A v \in Works : v[1] = m /\ v # Current(m) => Away(v)
    BY <1>2, AwayIs
  <1> QED BY <1>1, <1>3 DEF ThreadInv, JobsOf

\* The same after a step that keeps the current item.
LEMMA CurrentStays ==
    ASSUME NEW m \in Maps, current' = current, \A v \in Works : v[1] = m /\ v # Current(m) => Away(v)
    PROVE  \A v \in Works : v[1] = m /\ v # Current(m) => Away(v) /\ Away(v)'
  <1>1. \A v \in Works : v[1] = m /\ v # Current(m) => current'[v[1]] # v[2]
    BY WorkNames DEF Current
  <1> QED BY <1>1, AwayIs

\* What follows for the maps, from what the owner of m does.
LEMMA TakeStep ==
    ASSUME MInv, NEW m \in Maps, Take(m)
    PROVE  IInv' /\ ThreadInv' /\ HoldInv'
  <1>0. IInv /\ MapTypes /\ PullInv /\ ThreadInv /\ HoldInv /\ HoldOK(m)
    BY DEF MInv, HoldInv
  <1>1. PICK k \in Pickable(m) :
           LET w == <<m, pending[m][k]>>
           IN  /\ pending' = [pending EXCEPT ![m] = RemoveAt(@, k)]
               /\ current' = [current EXCEPT ![m] = w[2]]
               /\ \/ w \in failed /\ ToClose(m, "failed") /\ UNCHANGED vars
                  \/ w \notin failed /\ Yield(w, "drain")
                     /\ owner' = [owner EXCEPT ![m] = "draining"]
    BY DEF Take
  <1>2. k \in 1 .. Len(pending[m]) /\ Ready(<<m, pending[m][k]>>)
    BY DEF Pickable
  <1>a. PICK w \in Works : w = <<m, pending[m][k]>>
    BY <1>0, <1>2, PendingWork
  <1>3. w \in Jobs /\ w[1] = m /\ w[2] = pending[m][k] /\ WorkOK(w)
    BY <1>0, <1>2, <1>a, PendingWork DEF ThreadInv
  <1>4. /\ pending'[m] = RemoveAt(pending[m], k) /\ current'[m] = w[2]
        /\ \A n \in Maps \ {m} : /\ owner'[n] = owner[n] /\ pending'[n] = pending[n]
                                 /\ current'[n] = current[n]
        /\ owner'[m] \in {"closing", "draining"} /\ owner[m] = "pick" /\ ~Stop(m)
        /\ sup' = sup /\ freed' = freed /\ cancelled' = cancelled
    BY <1>0, <1>1, <1>3 DEF MapTypes, ToClose, Take, vars, Yield
  <1>5. \A v \in Works : v[1] = m => Away(v)
    BY <1>4, AwayIs
  <1>6. \A v \in Works : v[1] = m /\ v # w => Away(v) /\ Away(v)'
    <2>1. \A v \in Works : v[1] = m /\ v # w => current'[v[1]] # v[2]
      BY <1>3, <1>4, WorkNames
    <2> QED BY <1>5, <2>1, AwayIs
  <1>7. \A v \in freed' : v[1] = m =>
            /\ \A i \in 1 .. Len(pending'[m]) : pending'[m][i] # v[2]
            /\ current'[m] # v[2]
    <2>1. Cut(pending'[m], pending[m], k)
      BY <1>0, <1>2, <1>4, RemoveCuts DEF MapTypes
    <2>2. \A v \in freed : v[1] = m => \A i \in 1 .. Len(pending[m]) : pending[m][i] # v[2]
      BY <1>0, <1>4 DEF HoldOK
    <2>3. \A i \in 1 .. Len(pending'[m]) : \E n \in 1 .. Len(pending[m]) : pending'[m][i] = pending[m][n]
      BY <2>1 DEF Cut
    <2> QED BY <1>2, <1>3, <1>4, <2>2, <2>3
  <1>8. Stop(m)' = Stop(m) /\ (JobsOf(m) \cap cancelled)' = JobsOf(m) \cap cancelled
    BY <1>4 DEF Stop
  <1>9. req[Turn(w)].st = "idle" /\ step[w] = "none" /\ req[Lease(w)].st = WorkLease(sup[w])
    BY <1>0, <1>3, <1>5, AwayTurn DEF WorkOK
  <1>10. Current(m)' = w
    BY <1>a, <1>3, <1>4 DEF Current
  <1>11. CASE ToClose(m, "failed") /\ UNCHANGED vars
    <2>1. IInv'
      BY <1>0, <1>11, SameStep
    <2>2. owner'[m] = "closing" /\ req' = req /\ step' = step
      BY <1>0, <1>11 DEF ToClose, vars, MapTypes
    <2>3. WorkOK(w)'
      BY <1>3, <1>4, <1>9, <2>2 DEF WorkOK, At
    <2>4. HoldOK(m)'
      BY <1>0, <1>7, <1>8, <2>2 DEF HoldOK, Turning
    <2>5. KeepsBut({Lease(w), Turn(w)}) /\ ProbeLease(owner'[m]) = ProbeLease(owner[m])
      BY <1>4, <2>2 DEF KeepsBut, ProbeLease
    <2>6. ThreadInv' /\ HoldInv'
      BY <1>0, <1>3, <1>4, <1>6, <2>2, <2>3, <2>4, <2>5, CurrentStep
    <2> QED BY <2>1, <2>6
  <1>12. CASE Yield(w, "drain") /\ owner' = [owner EXCEPT ![m] = "draining"]
    <2>1. IInv'
      BY <1>0, <1>3, <1>12, YieldStep
    <2>2. /\ owner'[m] = "draining" /\ req' = CpuReleased(w) /\ step' = [step EXCEPT ![w] = "drain"]
          /\ req[Lease(w)].st = "admitted"
      BY <1>0, <1>12 DEF Yield, Runs, Live, MapTypes
    <2>3. /\ req'[Lease(w)].st = req[Lease(w)].st /\ req'[Turn(w)].st = "idle"
          /\ KeepsBut({Lease(w), Turn(w)})
      BY <1>0, <1>3, <2>2, CpuBackDoes
    <2>4. sup[w] = "ready"
      BY <1>a, <1>2, <1>9, <2>2 DEF Ready, WorkLease
    <2>5. step'[w] = "drain" /\ \A j \in Jobs : j # w => step'[j] = step[j]
      BY <1>0, <1>3, <2>2 DEF IInv, RestInv
    <2>6. WorkOK(w)'
      BY <1>3, <1>4, <1>9, <2>2, <2>3, <2>5 DEF WorkOK, At
    <2>7. HoldOK(m)'
      BY <1>0, <1>4, <1>7, <1>8, <1>10, <2>2, <2>4 DEF HoldOK, Turning
    <2>8. ProbeLease(owner'[m]) = ProbeLease(owner[m])
      BY <1>4, <2>2 DEF ProbeLease
    <2>9. ThreadInv' /\ HoldInv'
      BY <1>0, <1>3, <1>4, <1>6, <2>3, <2>5, <2>6, <2>7, <2>8, CurrentStep
    <2> QED BY <2>1, <2>9
  <1> QED BY <1>1, <1>a, <1>11, <1>12


\* The owner's turn for its current item: asked for, granted, refused, given
\* back; the caller leaves.
LEMMA TurnSteps ==
    ASSUME MInv, NEW m \in Maps,
           \/ DrainAsks(m) \/ Consumes(m) \/ (owner[m] = "waiting" /\ OwnerRefused(m))
           \/ NextValue(m) \/ Break(m)
    PROVE  IInv' /\ ThreadInv' /\ HoldInv'
  <1>0. IInv /\ MapTypes /\ PullInv /\ ThreadInv /\ HoldInv /\ HoldOK(m) /\ DeliverOf(m)
    BY DEF MInv, HoldInv, DeliverInv
  <1>1. owner[m] \in {"draining", "waiting", "consuming"} /\ current[m] # 0
    <2>1. owner[m] \in {"draining", "waiting", "consuming"}
      BY DEF DrainAsks, Consumes, NextValue, Break
    <2> QED BY <1>0, <2>1 DEF PullInv, PullOf, Turning, MapTypes
  <1>2. PICK c \in Works : c = Current(m)
    BY <1>0, <1>1, CurrentWork
  <1>3. /\ c \in Jobs /\ c[1] = m /\ c[2] = current[m] /\ WorkOK(c) /\ c \in JobsOf(m)
        /\ \A v \in Works : v[1] = m /\ v # c => Away(v)
    BY <1>0, <1>1, <1>2, CurrentFacts
  <1>4. Lease(c) \in Requests /\ Turn(c) \in Requests /\ Lease(c) # Turn(c)
    BY <1>3, RequestNames
  <1>5. pending' = pending /\ current' = current /\ sup' = sup
    BY DEF DrainAsks, Consumes, OwnerRefused, NextValue, Break
  <1>6. \A v \in Works : v[1] = m /\ v # c => Away(v) /\ Away(v)'
    BY <1>2, <1>3, <1>5, CurrentStays
  <1>7. Current(m)' = c
    BY <1>2, <1>5 DEF Current
  <1>8. CASE DrainAsks(m)
    <2>1. /\ owner[m] = "draining" /\ Renew(c) /\ freed' = freed
          /\ \/ c \in cancelled /\ owner' = [owner EXCEPT ![m] = "closing"]
             \/ c \notin cancelled /\ owner' = [owner EXCEPT ![m] = "waiting"]
      BY <1>2, <1>8 DEF DrainAsks, ToClose
    <2>2. IInv'
      BY <1>0, <1>3, <2>1, RenewStep
    <2>3. /\ step' = [step EXCEPT ![c] = "none"] /\ cancelled' = cancelled
          /\ KeepsBut({Turn(c)})
          /\ c \in cancelled \/ ~Live(c) => req' = req
          /\ c \notin cancelled /\ Live(c) =>
                req'[Turn(c)].st = "queued" /\ req'[Turn(c)].mode = step[c]
      BY <1>0, <1>3, <2>1, RenewDoes
    <2>4. /\ step'[c] = "none" /\ \A k \in Jobs : k # c => step'[k] = step[k]
      BY <1>0, <1>3, <2>3 DEF IInv, RestInv
    <2>5. KeepsBut({Lease(c), Turn(c)}) /\ req'[Lease(c)].st = req[Lease(c)].st
      BY <1>4, <2>3 DEF KeepsBut
    <2>6. step[c] = "drain" /\ req[Turn(c)].st = "idle"
      <3>1. req[Turn(c)].st \in {"idle", "queued", "admitted"}
        BY <1>0, <1>4, ReqStates
      <3> QED BY <1>3, <2>1, <3>1 DEF WorkOK, At
    <2>7. \A n \in Maps \ {m} : owner'[n] = owner[n]
      BY <1>0, <2>1 DEF MapTypes
    <2>8. /\ Stop(m)' = Stop(m) /\ (Stop(m)' \/ (JobsOf(m) \cap cancelled)' = {})
          /\ \A w \in freed' : w[1] = m /\ owner'[m] \notin {"stopping", "closed"} =>
               /\ \A k \in 1 .. Len(pending'[m]) : pending'[m][k] # w[2]
               /\ current'[m] = w[2] => owner'[m] = "joining"
      BY <1>0, <1>5, <2>1, <2>3, HoldLists
    <2>9. CASE c \in cancelled /\ owner' = [owner EXCEPT ![m] = "closing"]
      <3>1. owner'[m] = "closing" /\ req' = req
        BY <1>0, <2>3, <2>9 DEF MapTypes
      <3>2. WorkOK(c)'
        BY <1>3, <1>5, <2>4, <2>6, <3>1 DEF WorkOK, At
      <3>3. HoldOK(m)'
        BY <2>8, <3>1 DEF HoldOK, Turning
      <3>4. ProbeLease(owner'[m]) = ProbeLease(owner[m])
        BY <2>1, <3>1 DEF ProbeLease
      <3>5. ThreadInv' /\ HoldInv'
        BY <1>0, <1>3, <1>5, <1>6, <2>1, <2>3, <2>4, <2>5, <2>7, <3>2, <3>3, <3>4, CurrentStep
      <3> QED BY <2>2, <3>5
    <2>10. CASE c \notin cancelled /\ owner' = [owner EXCEPT ![m] = "waiting"]
      <3>1. owner'[m] = "waiting"
        BY <1>0, <2>10 DEF MapTypes
      <3>2. sup[c] = "ready"
        <4>1. ~Stop(m)
          BY <1>3, <2>10 DEF Stop
        <4> QED BY <1>0, <1>2, <2>1, <4>1 DEF HoldOK, Turning
      <3>3. req'[Turn(c)].st = "queued" /\ req'[Turn(c)].mode = "drain"
        <4>1. Live(c)
          BY <1>3, <3>2 DEF WorkOK, WorkLease, Live
        <4> QED BY <2>3, <2>6, <2>10, <4>1
      <3>4. WorkOK(c)'
        BY <1>3, <1>5, <2>4, <2>5, <3>1, <3>3 DEF WorkOK, At
      <3>5. HoldOK(m)'
        BY <1>5, <1>7, <2>8, <3>1, <3>2 DEF HoldOK, Turning
      <3>6. ProbeLease(owner'[m]) = ProbeLease(owner[m])
        BY <2>1, <3>1 DEF ProbeLease
      <3>7. ThreadInv' /\ HoldInv'
        BY <1>0, <1>3, <1>5, <1>6, <2>1, <2>3, <2>4, <2>5, <2>7, <3>4, <3>5, <3>6, CurrentStep
      <3> QED BY <2>2, <3>7
    <2> QED BY <2>1, <2>9, <2>10
  <1>9. CASE Consumes(m) \/ (owner[m] = "waiting" /\ OwnerRefused(m))
    <2>1. /\ owner[m] = "waiting" /\ freed' = freed
          /\ \/ Grant(Turn(c)) /\ owner' = [owner EXCEPT ![m] = "consuming"]
             \/ Abandon(Turn(c)) /\ owner' = [owner EXCEPT ![m] = "closing"]
      BY <1>2, <1>9 DEF Consumes, OwnerRefused, ToClose
    <2>2. IInv'
      BY <1>0, <1>4, <2>1, GrantStep, AbandonStep
    <2>3. KeepsBut({Turn(c)}) /\ step' = step /\ cancelled' = cancelled
      BY <1>0, <1>4, <2>1, GrantDoes, GiveUpDoes
    <2>4. KeepsBut({Lease(c), Turn(c)}) /\ req'[Lease(c)].st = req[Lease(c)].st
      BY <1>4, <2>3 DEF KeepsBut
    <2>5. \A n \in Maps \ {m} : owner'[n] = owner[n]
      BY <1>0, <2>1 DEF MapTypes
    <2>6. /\ Stop(m)' = Stop(m) /\ (Stop(m)' \/ (JobsOf(m) \cap cancelled)' = {})
          /\ \A w \in freed' : w[1] = m /\ owner'[m] \notin {"stopping", "closed"} =>
               /\ \A k \in 1 .. Len(pending'[m]) : pending'[m][k] # w[2]
               /\ current'[m] = w[2] => owner'[m] = "joining"
      BY <1>0, <1>5, <2>1, <2>3, HoldLists
    <2>7. step[c] = "none"
      BY <1>3, <2>1 DEF WorkOK, At
    <2>8. CASE Grant(Turn(c)) /\ owner' = [owner EXCEPT ![m] = "consuming"]
      <3>1. owner'[m] = "consuming" /\ ProbeLease(owner'[m]) = ProbeLease(owner[m])
        BY <1>0, <2>1, <2>8 DEF MapTypes, ProbeLease
      <3>2. req'[Turn(c)].st = "admitted" /\ req'[Turn(c)].mode = req[Turn(c)].mode /\ req[Turn(c)].st = "queued"
        BY <1>0, <1>4, <2>8, GrantDoes
      <3>3. req'[Turn(c)].mode = "drain"
        BY <1>3, <3>2 DEF WorkOK
      <3>4. WorkOK(c)'
        BY <1>3, <1>5, <2>3, <2>4, <2>7, <3>1, <3>2, <3>3 DEF WorkOK, At
      <3>5. Stop(m) \/ sup[c] = "ready"
        BY <1>0, <1>2, <2>1 DEF HoldOK, Turning
      <3>6. HoldOK(m)'
        BY <1>5, <1>7, <2>6, <3>1, <3>2, <3>5 DEF HoldOK, Turning
      <3>7. ThreadInv' /\ HoldInv'
        BY <1>0, <1>3, <1>5, <1>6, <2>1, <2>3, <2>4, <2>5, <3>1, <3>4, <3>6, CurrentStep
      <3> QED BY <2>2, <3>7
    <2>9. CASE Abandon(Turn(c)) /\ owner' = [owner EXCEPT ![m] = "closing"]
      <3>1. owner'[m] = "closing" /\ ProbeLease(owner'[m]) = ProbeLease(owner[m])
        BY <1>0, <2>1, <2>9 DEF MapTypes, ProbeLease
      <3>2. req'[Turn(c)].st = "idle"
        BY <1>0, <1>4, <2>9, GiveUpDoes
      <3>3. WorkOK(c)'
        BY <1>3, <1>5, <2>3, <2>4, <2>7, <3>1, <3>2 DEF WorkOK, At
      <3>4. HoldOK(m)'
        BY <2>6, <3>1 DEF HoldOK, Turning
      <3>5. ThreadInv' /\ HoldInv'
        BY <1>0, <1>3, <1>5, <1>6, <2>1, <2>3, <2>4, <2>5, <3>1, <3>3, <3>4, CurrentStep
      <3> QED BY <2>2, <3>5
    <2> QED BY <2>1, <2>8, <2>9
  <1>10. CASE NextValue(m)
    <2>1. /\ owner[m] = "consuming" /\ GivesBack(m) /\ freed' = freed \cup {c}
          /\ owner' = [owner EXCEPT ![m] = "joining"]
          /\ UNCHANGED <<queue, last, view, sample, step, done, cancelled, timed, changes>>
      BY <1>2, <1>10 DEF NextValue
    <2>2. IInv'
      <3>1. cancelled' \subseteq Jobs
        BY <1>0, <2>1 DEF IInv, RestInv
      <3> QED BY <1>0, <2>1, <3>1, GivesBackStep
    <2>3. req' = CpuReleased(c)
      BY <1>1, <1>2, <2>1 DEF GivesBack
    <2>4. /\ req'[Lease(c)].st = req[Lease(c)].st /\ req'[Turn(c)].st = "idle"
          /\ KeepsBut({Lease(c), Turn(c)})
      BY <1>0, <1>3, <2>3, CpuBackDoes
    <2>5. owner'[m] = "joining" /\ \A n \in Maps \ {m} : owner'[n] = owner[n]
      BY <1>0, <2>1 DEF MapTypes
    <2>6. ProbeLease(owner'[m]) = ProbeLease(owner[m])
      BY <2>1, <2>5 DEF ProbeLease
    <2>7. step[c] = "none"
      BY <1>3, <2>1 DEF WorkOK, At
    <2>8. WorkOK(c)'
      BY <1>3, <1>5, <2>1, <2>4, <2>5, <2>7 DEF WorkOK, At
    <2>9. HoldOK(m)'
      <3>1. \A k \in 1 .. Len(pending[m]) : pending[m][k] # c[2]
        BY <1>0, <1>3, <2>1 DEF DeliverOf, Absent
      <3>2. \A w \in freed : w[1] = m => \A k \in 1 .. Len(pending[m]) : pending[m][k] # w[2]
        BY <1>0, <2>1 DEF HoldOK
      <3>3. \A w \in freed' : w[1] = m => \A k \in 1 .. Len(pending'[m]) : pending'[m][k] # w[2]
        BY <1>5, <2>1, <3>1, <3>2
      <3>4. Stop(m)' = Stop(m) /\ (JobsOf(m) \cap cancelled)' = JobsOf(m) \cap cancelled
        BY <2>1 DEF Stop
      <3> QED BY <1>0, <2>5, <3>3, <3>4 DEF HoldOK, Turning
    <2>10. ThreadInv' /\ HoldInv'
      BY <1>0, <1>3, <1>5, <1>6, <2>1, <2>4, <2>5, <2>6, <2>8, <2>9, CurrentStep
    <2> QED BY <2>2, <2>10
  <1>11. CASE Break(m)
    <2>1. /\ owner[m] = "consuming" /\ UNCHANGED vars /\ freed' = freed
          /\ owner' = [owner EXCEPT ![m] = "closing"]
      BY <1>11 DEF Break, ToClose
    <2>2. IInv'
      BY <1>0, <2>1, SameStep
    <2>3. req' = req /\ step' = step /\ cancelled' = cancelled
      BY <2>1 DEF vars
    <2>4. owner'[m] = "closing" /\ \A n \in Maps \ {m} : owner'[n] = owner[n]
      BY <1>0, <2>1 DEF MapTypes
    <2>5. ProbeLease(owner'[m]) = ProbeLease(owner[m]) /\ KeepsBut({Lease(c), Turn(c)})
      BY <2>1, <2>3, <2>4 DEF ProbeLease, KeepsBut
    <2>6. WorkOK(c)'
      BY <1>3, <1>5, <2>1, <2>3, <2>4 DEF WorkOK, At
    <2>7. /\ Stop(m)' = Stop(m) /\ (Stop(m)' \/ (JobsOf(m) \cap cancelled)' = {})
          /\ \A w \in freed' : w[1] = m /\ owner'[m] \notin {"stopping", "closed"} =>
               /\ \A k \in 1 .. Len(pending'[m]) : pending'[m][k] # w[2]
               /\ current'[m] = w[2] => owner'[m] = "joining"
      BY <1>0, <1>5, <2>1, <2>3, HoldLists
    <2>8. HoldOK(m)'
      BY <2>4, <2>7 DEF HoldOK, Turning
    <2>9. ThreadInv' /\ HoldInv'
      BY <1>0, <1>3, <1>5, <1>6, <2>1, <2>3, <2>4, <2>5, <2>6, <2>8, CurrentStep
    <2> QED BY <2>2, <2>9
  <1> QED BY <1>8, <1>9, <1>10, <1>11


\* An item is pulled and submitted.
LEMMA SubmitStep ==
    ASSUME IInv, MapTypes, PullInv, ThreadInv, HoldInv, NEW m \in Maps, Submits(m),
           step' = step, cancelled' = cancelled, KeepsBut({Lease(Probe(m)), Turn(Probe(m))}),
           req'[Lease(Probe(m))].st = "idle", req'[Turn(Probe(m))].st = "idle"
    PROVE  ThreadInv' /\ HoldInv'
  <1>1. Probe(m) \in Jobs /\ Probe(m)[1] = m /\ Probe(m) \notin Works
    BY WorkNames
  <1>2. /\ owner[m] \in {"fill", "probed"} /\ owner'[m] \in {"fill", "handoff"}
        /\ \A n \in Maps \ {m} : owner'[n] = owner[n] /\ pending'[n] = pending[n]
        /\ current' = current /\ freed' = freed /\ pulled[m] \in Nat /\ pulled[m] < size[m]
        /\ pending'[m] = Append(pending[m], pulled[m] + 1) /\ pending[m] \in Seq(Nat)
    BY DEF Submits, MapTypes
  <1>3. PICK w \in Works : w = <<m, pulled[m] + 1>>
    <2>1. size[m] \in Nat
      BY LongestBounds DEF MapTypes
    <2>2. pulled[m] + 1 \in Nat \ {0} /\ pulled[m] + 1 <= size[m]
      BY <1>2, <2>1
    <2> QED BY <2>2, ItemWork DEF MapTypes
  <1>4. w[1] = m /\ w[2] = pulled[m] + 1 /\ w \in Jobs
    BY <1>3, WorkNames
  <1>5. sup'[w] = "start" /\ sup[w] = "none" /\ \A v \in Works : v # w => sup'[v] = sup[v]
    <2>1. sup' = [sup EXCEPT ![w] = "start"]
      BY <1>3 DEF Submits
    <2>2. w[2] > pulled[w[1]]
      BY <1>2, <1>4
    <2> QED BY <2>1, <2>2 DEF PullInv, MapTypes
  <1>6. /\ Local(m)
        /\ \A k \in Jobs : k # Probe(m) => /\ req'[Lease(k)].st = req[Lease(k)].st
                                           /\ req'[Turn(k)].st = req[Turn(k)].st
                                           /\ req'[Turn(k)].mode = req[Turn(k)].mode
    <2>1. \A v \in Works : v[1] # m => sup'[v] = sup[v]
      BY <1>4, <1>5
    <2> QED BY <1>1, <1>2, <2>1, OwnerLocal
  <1>7. ASSUME NEW v \in Works, v[1] = m PROVE WorkOK(v)'
    <2>1. v \in Jobs /\ v # Probe(m) /\ WorkOK(v) /\ Away(v) /\ Away(v)'
      BY <1>1, <1>2, <1>7, WorkNames, AwayIs DEF ThreadInv
    <2>2. req[Turn(v)].st = "idle" /\ step[v] = "none" /\ req[Lease(v)].st = WorkLease(sup[v])
      BY <2>1, AwayTurn DEF WorkOK
    <2>3. WorkLease(sup'[v]) = WorkLease(sup[v])
      BY <1>5 DEF WorkLease
    <2> QED BY <1>6, <2>1, <2>2, <2>3, AwayWork
  <1>8. ProbeOK(m)'
    BY <1>2 DEF ProbeOK, ThreadInv, ProbeLease
  <1>9. HoldOK(m)'
    <2>1. Stop(m)' = Stop(m) /\ (JobsOf(m) \cap cancelled)' = JobsOf(m) \cap cancelled
      BY DEF Stop
    <2>2. \A v \in freed : v[1] = m => /\ \A k \in 1 .. Len(pending[m]) : pending[m][k] # v[2]
                                       /\ current[m] # v[2]
      BY <1>2 DEF HoldInv, HoldOK
    <2>3. \A v \in freed : v[1] = m => v[2] # pulled[m] + 1
      <3>1. \A v \in freed : v[1] = m => v[2] \in Nat /\ v[2] <= pulled[m]
        BY WorkNames DEF PullInv
      <3> QED BY <1>2, <3>1
    <2>4. \A k \in 1 .. Len(pending'[m]) : (k \in 1 .. Len(pending[m]) /\ pending'[m][k] = pending[m][k])
                                            \/ pending'[m][k] = pulled[m] + 1
      BY <1>2
    <2>5. \A v \in freed' : v[1] = m => /\ \A k \in 1 .. Len(pending'[m]) : pending'[m][k] # v[2]
                                        /\ current'[m] # v[2]
      BY <1>2, <2>2, <2>3, <2>4, Zenon
    <2>6. Stop(m)' \/ (JobsOf(m) \cap cancelled)' = {}
      BY <2>1 DEF HoldInv, HoldOK
    <2> QED BY <1>2, <2>5, <2>6 DEF HoldOK, Turning
  <1> QED BY <1>6, <1>7, <1>8, <1>9, LocalStep DEF MapOK

LEMMA SubmitSteps ==
    ASSUME MInv, NEW m \in Maps, Pull(m) \/ ProbeEnds(m)
    PROVE  IInv' /\ ThreadInv' /\ HoldInv'
  <1>0. IInv /\ MapTypes /\ PullInv /\ ThreadInv /\ HoldInv /\ ProbeOK(m)
    BY DEF MInv, ThreadInv
  <1>1. /\ Probe(m) \in Jobs /\ Lease(Probe(m)) \in Requests /\ Turn(Probe(m)) \in Requests
        /\ Lease(Probe(m)) # Turn(Probe(m))
    BY WorkNames, RequestNames
  <1>2. Submits(m)
    <2>1. pulled[m] < size[m] /\ owner[m] \in {"fill", "probed"}
      BY <1>0 DEF Pull, ProbeEnds, MayPull, PullInv, PullOf
    <2>2. Submit(m)
      BY DEF Pull, ProbeEnds
    <2>3. \E o \in {"fill", "handoff"} : owner' = [owner EXCEPT ![m] = o]
      BY <2>2 DEF Submit
    <2> QED BY <2>1, <2>2, <2>3 DEF Submit, Submits
  <1>3. CASE Pull(m)
    <2>1. IInv'
      BY <1>0, <1>3, ViewStep DEF Pull
    <2>2. req' = req /\ step' = step /\ cancelled' = cancelled /\ owner[m] = "fill"
      BY <1>3 DEF Pull
    <2>3. req[Lease(Probe(m))].st = "idle" /\ req[Turn(Probe(m))].st = "idle"
      BY <1>0, <2>2 DEF ProbeOK, ProbeLease
    <2>4. KeepsBut({Lease(Probe(m)), Turn(Probe(m))})
      BY <2>2 DEF KeepsBut
    <2> QED BY <1>0, <1>2, <2>1, <2>2, <2>3, <2>4, SubmitStep
  <1>4. CASE ProbeEnds(m)
    <2>1. IInv'
      BY <1>0, <1>1, <1>4, EndLeaseStep DEF ProbeEnds
    <2>2. /\ req'[Lease(Probe(m))].st = "idle"
          /\ req'[Turn(Probe(m))].st = IF req[Turn(Probe(m))].st = "queued" THEN "queued" ELSE "idle"
          /\ KeepsBut({Lease(Probe(m)), Turn(Probe(m))}) /\ step' = step /\ cancelled' = cancelled
      BY <1>0, <1>1, <1>4, EndDoes DEF ProbeEnds
    <2>3. req'[Turn(Probe(m))].st = "idle"
      BY <1>0, <2>2 DEF ProbeOK
    <2> QED BY <1>0, <1>2, <2>1, <2>2, <2>3, SubmitStep
  <1> QED BY <1>3, <1>4

\* The owner leaves the current item behind, and the map ends.
LEMMA EndSteps ==
    ASSUME MInv, NEW m \in Maps, Joined(m) \/ Closed(m)
    PROVE  IInv' /\ ThreadInv' /\ HoldInv'
  <1>0. IInv /\ MapTypes /\ PullInv /\ ThreadInv /\ HoldInv /\ HoldOK(m)
    BY DEF MInv, HoldInv
  <1>1. /\ UNCHANGED vars /\ sup' = sup /\ freed' = freed
        /\ owner[m] \in {"joining", "stopping"} /\ current' = [current EXCEPT ![m] = 0]
    BY DEF Joined, Closed
  <1>2. IInv'
    BY <1>0, <1>1, SameStep
  <1>3. req' = req /\ step' = step /\ cancelled' = cancelled
    BY <1>1 DEF vars
  <1>4. Probe(m) \in Jobs /\ Probe(m)[1] = m /\ Probe(m) \notin Works
    BY WorkNames
  <1>5. \A v \in Works : v[1] = m => Away(v) /\ Away(v)'
    <2>1. current'[m] = 0
      BY <1>0, <1>1 DEF MapTypes
    <2>2. \A v \in Works : v[2] # 0
      BY WorkNames
    <2> QED BY <1>1, <2>1, <2>2, AwayIs
  <1>6. Stop(m)' = Stop(m) /\ (JobsOf(m) \cap cancelled)' = JobsOf(m) \cap cancelled
    BY <1>3 DEF Stop
  <1>7. KeepsBut({Lease(Probe(m)), Turn(Probe(m))})
    BY <1>3 DEF KeepsBut
  <1>8. CASE Joined(m)
    <2>1. /\ owner[m] = "joining" /\ pending' = pending
          /\ owner'[m] \in {"closing", "fill"} /\ current'[m] = 0
          /\ \A n \in Maps \ {m} : owner'[n] = owner[n] /\ current'[n] = current[n]
      BY <1>0, <1>8 DEF Joined, ToClose, MapTypes
    <2>2. ProbeLease(owner'[m]) = ProbeLease(owner[m])
      BY <2>1 DEF ProbeLease
    <2>3. HoldOK(m)'
      <3>1. \A v \in freed : v[1] = m => /\ \A k \in 1 .. Len(pending[m]) : pending[m][k] # v[2]
                                         /\ v[2] # 0
        BY <1>0, <2>1, WorkNames DEF HoldOK, PullInv
      <3>2. \A v \in freed' : v[1] = m => /\ \A k \in 1 .. Len(pending'[m]) : pending'[m][k] # v[2]
                                          /\ current'[m] # v[2]
        BY <1>1, <2>1, <3>1
      <3> QED BY <1>0, <1>6, <2>1, <3>2 DEF HoldOK, Turning
    <2>4. ThreadInv' /\ HoldInv'
      BY <1>0, <1>1, <1>3, <1>4, <1>5, <1>7, <2>1, <2>2, <2>3, CurrentStep
    <2> QED BY <1>2, <2>4
  <1>9. CASE Closed(m)
    <2>1. /\ owner[m] = "stopping" /\ owner'[m] = "closed" /\ Drained(m)
          /\ \A n \in Maps \ {m} : /\ owner'[n] = owner[n] /\ current'[n] = current[n]
                                   /\ pending'[n] = pending[n]
      BY <1>0, <1>9 DEF Closed, MapTypes
    <2>2. ProbeLease(owner'[m]) = ProbeLease(owner[m])
      BY <2>1 DEF ProbeLease
    <2>3. Drained(m)'
      BY <1>1, <2>1 DEF Drained
    <2>4. HoldOK(m)'
      BY <1>0, <1>6, <2>1, <2>3 DEF HoldOK, Turning
    <2>5. ThreadInv' /\ HoldInv'
      BY <1>0, <1>1, <1>3, <1>4, <1>5, <1>7, <2>1, <2>2, <2>4, CurrentStep
    <2> QED BY <1>2, <2>5
  <1> QED BY <1>8, <1>9

\* The owner cancels its map, and gives back a turn it may hold.
LEMMA CloseStep ==
    ASSUME MInv, NEW m \in Maps, Close(m)
    PROVE  IInv' /\ ThreadInv' /\ HoldInv'
  <1>0. IInv /\ MapTypes /\ PullInv /\ ThreadInv /\ HoldInv /\ HoldOK(m)
    BY DEF MInv, HoldInv
  <1>1. /\ owner[m] = "closing" /\ cancelled' = cancelled \cup JobsOf(m) /\ GivesBack(m)
        /\ owner' = [owner EXCEPT ![m] = "stopping"] /\ step' = step /\ queue' = queue
        /\ UNCHANGED <<last, view, sample, done, timed, changes>>
        /\ pending' = pending /\ current' = current /\ sup' = sup
    BY DEF Close
  <1>2. IInv'
    <2>1. cancelled' \subseteq Jobs
      BY <1>0, <1>1 DEF IInv, RestInv, JobsOf
    <2> QED BY <1>0, <1>1, <2>1, GivesBackStep
  <1>3. owner'[m] = "stopping" /\ \A n \in Maps \ {m} : owner'[n] = owner[n]
    BY <1>0, <1>1 DEF MapTypes
  <1>4. ProbeLease(owner'[m]) = ProbeLease(owner[m])
    BY <1>1, <1>3 DEF ProbeLease
  <1>5. \A v \in freed' : v \in freed \/ v[1] = m
    <2>1. \A v \in PendingOf(m) : v[1] = m
      BY DEF PendingOf
    <2>2. Current(m)[1] = m
      BY DEF Current
    <2> QED BY <2>1, <2>2 DEF Close
  <1>6. \A k \in Jobs : k[1] # m => (k \in cancelled' <=> k \in cancelled)
    BY <1>1 DEF JobsOf
  <1>7. HoldOK(m)'
    <2>1. Stop(m)'
      BY <1>1 DEF Stop
    <2> QED BY <1>3, <2>1 DEF HoldOK, Turning
  <1>8. \A v \in Works : v[1] = m => Away(v)'
    BY <1>3, AwayIs
  <1>9. CASE current[m] = 0
    <2>1. req' = req
      BY <1>1, <1>9 DEF GivesBack
    <2>2. \A v \in Works : v[1] = m => Away(v) /\ Away(v)'
      <3>1. \A v \in Works : v[2] # 0
        BY WorkNames
      <3> QED BY <1>8, <1>9, <3>1, AwayIs
    <2>3. Probe(m) \in Jobs /\ Probe(m)[1] = m /\ Probe(m) \notin Works
      BY WorkNames
    <2>4. KeepsBut({Lease(Probe(m)), Turn(Probe(m))})
      BY <2>1 DEF KeepsBut
    <2>5. ThreadInv' /\ HoldInv'
      BY <1>0, <1>1, <1>3, <1>4, <1>5, <1>6, <1>7, <2>1, <2>2, <2>3, <2>4, CurrentStep
    <2> QED BY <1>2, <2>5
  <1>10. CASE current[m] # 0
    <2>1. PICK c \in Works : c = Current(m)
      BY <1>0, <1>10, CurrentWork
    <2>2. /\ c \in Jobs /\ c[1] = m /\ c[2] = current[m] /\ WorkOK(c)
          /\ \A v \in Works : v[1] = m /\ v # c => Away(v)
      BY <1>0, <1>10, <2>1, CurrentFacts
    <2>3. req' = CpuReleased(c)
      BY <1>1, <1>10, <2>1 DEF GivesBack
    <2>4. /\ req'[Lease(c)].st = req[Lease(c)].st /\ req'[Turn(c)].st = "idle"
          /\ KeepsBut({Lease(c), Turn(c)})
      BY <1>0, <2>2, <2>3, CpuBackDoes
    <2>5. step[c] = "none" /\ req[Lease(c)].st = WorkLease(sup[c])
      BY <1>1, <2>2 DEF WorkOK, At
    <2>6. WorkOK(c)'
      BY <1>1, <1>8, <2>2, <2>4, <2>5, AwayWork
    <2>7. ThreadInv' /\ HoldInv'
      BY <1>0, <1>1, <1>3, <1>4, <1>5, <1>6, <1>7, <1>8, <2>2, <2>4, <2>6, CurrentStep
    <2> QED BY <1>2, <2>7
  <1> QED BY <1>9, <1>10

\* Waiters poll, the system changes, the run is cancelled.
LEMMA SystemSteps ==
    ASSUME MInv, UNCHANGED mapVars,
           (\E r \in Requests : Wait(r)) \/ Monitor \/ Environment \/ Cancel(Jobs \ cancelled)
    PROVE  IInv' /\ ThreadInv' /\ HoldInv'
  <1>0. IInv /\ MapTypes /\ PullInv /\ ThreadInv /\ HoldInv
    BY DEF MInv
  <1>1. /\ owner' = owner /\ pending' = pending /\ current' = current /\ sup' = sup
        /\ freed' = freed
    BY DEF mapVars
  <1>2. IInv'
    <2>1. Jobs \ cancelled \in SUBSET Jobs
      OBVIOUS
    <2> QED BY <1>0, <2>1, WaitStep, MonitorStep, EnvironmentStep, CancelStep
  <1>3. KeepsBut({}) /\ step' = step
    <2>1. ASSUME NEW r \in Requests, Wait(r) PROVE KeepsBut({}) /\ step' = step
      BY <1>0, <2>1, WaitDoes
    <2>2. CASE Monitor \/ Environment \/ Cancel(Jobs \ cancelled)
      BY <2>2 DEF Monitor, Environment, Cancel, KeepsBut
    <2> QED BY <2>1, <2>2
  <1>4. \A j \in Jobs : /\ req'[Lease(j)].st = req[Lease(j)].st
                        /\ req'[Turn(j)].st = req[Turn(j)].st
                        /\ req'[Turn(j)].mode = req[Turn(j)].mode
    BY <1>3, RequestNames DEF KeepsBut
  <1>5. ThreadInv'
    <2>1. ASSUME NEW w \in Works PROVE WorkOK(w)'
      BY <1>0, <1>1, <1>3, <1>4, WorkNames, WorkSame DEF ThreadInv
    <2>2. ASSUME NEW m \in Maps PROVE ProbeOK(m)'
      BY <1>0, <1>1, <1>3, <1>4, WorkNames, ProbeSame DEF ThreadInv
    <2> QED BY <2>1, <2>2 DEF ThreadInv
  <1>6. ASSUME NEW m \in Maps PROVE HoldOK(m)'
    <2>1. HoldOK(m)
      BY <1>0 DEF HoldInv
    <2>2. CASE cancelled' = cancelled
      <3>1. \A v \in Works : v[1] = m => sup'[v] = sup[v] /\ req'[Turn(v)].st = req[Turn(v)].st
        BY <1>1, <1>4, WorkNames
      <3> QED BY <1>0, <1>1, <2>1, <2>2, <3>1, HoldSame
    <2>3. CASE Cancel(Jobs \ cancelled)
      <3>1. Stop(m)'
        BY <2>3 DEF Cancel, Stop, JobsOf
      <3>2. Drained(m)' = Drained(m)
        BY <1>1 DEF Drained
      <3>3. \A v \in freed' : v[1] = m /\ owner'[m] \notin {"stopping", "closed"} =>
              /\ \A k \in 1 .. Len(pending'[m]) : pending'[m][k] # v[2]
              /\ current'[m] = v[2] => owner'[m] = "joining"
        BY <1>1, <2>1 DEF HoldOK
      <3> QED BY <1>1, <2>1, <3>1, <3>2, <3>3 DEF HoldOK
    <2>4. cancelled' = cancelled \/ Cancel(Jobs \ cancelled)
      BY DEF Wait, Monitor, Environment
    <2> QED BY <2>2, <2>3, <2>4
  <1> QED BY <1>2, <1>5, <1>6 DEF HoldInv

-----------------------------------------------------------------------------
(* The invariant. *)

LEMMA MapNextInv == MInv /\ [MapNext]_allVars => MInv'
  <1> SUFFICES ASSUME MInv, [MapNext]_allVars PROVE MInv'
    OBVIOUS
  <1>0. IInv /\ MapTypes /\ PullInv /\ ThreadInv /\ HoldInv /\ DeliverInv
    BY DEF MInv
  <1>1. CASE MapNext
    <2>1. SomeMove
      BY <1>0, <1>1, Moves
    <2>2. MapTypes' /\ PullInv' /\ DeliverInv'
      BY <1>0, <2>1, TypesStep, PullStep, DeliverStep
    <2>3. ASSUME NEW w \in Works, SupStep(w) \/ Granted(w)
          PROVE  IInv' /\ ThreadInv' /\ HoldInv'
      BY <2>3, SupervisorSteps
    <2>4. ASSUME NEW m \in Maps, OwnerStep(m) \/ Break(m) \/ ProbeGranted(m) \/ Consumes(m)
          PROVE  IInv' /\ ThreadInv' /\ HoldInv'
      <3>1. CASE \/ ProbeAsks(m) \/ ProbeGranted(m) \/ Handoff(m) \/ Prepare(m) \/ Idles(m)
                 \/ Observes(m)
        BY <3>1, NeutralSteps
      <3>2. CASE DrainAsks(m) \/ Consumes(m) \/ NextValue(m) \/ Break(m)
        BY <3>2, TurnSteps
      <3>3. CASE OwnerRefused(m)
        <4>1. owner[m] = "waiting" \/ owner[m] = "probing"
          BY <3>3 DEF OwnerRefused
        <4> QED BY <3>3, <4>1, NeutralSteps, TurnSteps
      <3>4. CASE Pull(m) \/ ProbeEnds(m)
        BY <3>4, SubmitSteps
      <3>5. CASE Joined(m) \/ Closed(m)
        BY <3>5, EndSteps
      <3>6. CASE Take(m)
        BY <3>6, TakeStep
      <3>7. CASE Close(m)
        BY <3>7, CloseStep
      <3> QED BY <2>4, <3>1, <3>2, <3>3, <3>4, <3>5, <3>6, <3>7 DEF OwnerStep
    <2>5. ASSUME (\E r \in Requests : Wait(r)) \/ Monitor \/ Environment \/ Cancel(Jobs \ cancelled),
                 UNCHANGED mapVars
          PROVE  IInv' /\ ThreadInv' /\ HoldInv'
      BY <2>5, SystemSteps
    <2>6. IInv' /\ ThreadInv' /\ HoldInv'
      BY <1>1, <2>3, <2>4, <2>5 DEF MapNext, SomeGrant
    <2> QED BY <2>2, <2>6 DEF MInv
  <1>2. CASE UNCHANGED allVars
    <2>1. UNCHANGED vars /\ UNCHANGED mapVars
      BY <1>2 DEF allVars
    <2>2. IInv'
      BY <1>0, <2>1, NextInv
    <2>3. MapTypes' /\ PullInv' /\ DeliverInv'
      <3>1. SomeMove
        BY <2>1 DEF mapVars, SomeMove, Lists
      <3> QED BY <1>0, <3>1, TypesStep, PullStep, DeliverStep
    <2>4. ThreadInv' /\ HoldInv'
      <3>1. /\ owner' = owner /\ pending' = pending /\ current' = current /\ sup' = sup
            /\ freed' = freed /\ req' = req /\ step' = step /\ cancelled' = cancelled
        BY <2>1 DEF vars, mapVars
      <3>2. ASSUME NEW w \in Works PROVE WorkOK(w)'
        BY <1>0, <3>1, WorkSame DEF ThreadInv
      <3>3. ASSUME NEW m \in Maps PROVE ProbeOK(m)'
        BY <1>0, <3>1, ProbeSame DEF ThreadInv
      <3>4. ASSUME NEW m \in Maps PROVE HoldOK(m)'
        BY <1>0, <3>1, HoldSame DEF HoldInv
      <3> QED BY <3>2, <3>3, <3>4 DEF ThreadInv, HoldInv
    <2> QED BY <2>2, <2>3, <2>4 DEF MInv
  <1> QED BY <1>1, <1>2

LEMMA MapInitInv == MapInit => MInv
  <1> SUFFICES ASSUME MapInit PROVE MInv
    OBVIOUS
  <1>1. IInv
    BY InitInv DEF MapInit
  <1>2. MapTypes
    BY DEF MapInit, MapTypes
  <1>3. \A m \in Maps : /\ owner[m] = "fill" /\ pending[m] = <<>> /\ current[m] = 0
                        /\ pulled[m] = 0 /\ out[m] = <<>> /\ outcome[m] = "none"
    BY DEF MapInit
  <1>4. (\A w \in Works : sup[w] = "none") /\ freed = {} /\ size \in Sizes
    BY DEF MapInit
  <1>5. PullInv
    <2>1. ASSUME NEW m \in Maps PROVE PullOf(m)
      <3>1. size[m] \in Nat
        BY <1>4, LongestBounds
      <3> QED BY <1>3, <3>1 DEF PullOf, Turning
    <2> QED BY <1>4, <2>1 DEF PullInv
  <1>6. DeliverInv
    <2>1. ASSUME NEW m \in Maps PROVE DeliverOf(m)
      <3>1. Len(out[m]) = 0 /\ Len(pending[m]) = 0
        BY <1>3
      <3>2. Distinct(out[m], pending[m]) /\ InOrder(out[m]) /\ Latest(pending[m], pulled[m])
        BY <3>1 DEF Distinct, Inj, InOrder, Latest
      <3> QED BY <1>3, <3>1, <3>2 DEF DeliverOf, Turning, Over
    <2> QED BY <2>1 DEF DeliverInv
  <1>7. \A r \in Requests : req[r].st = "idle"
    BY DEF MapInit, Init, Idle
  <1>8. cancelled = {} /\ \A j \in Jobs : step[j] = "none"
    BY DEF MapInit, Init
  <1>9. ThreadInv
    <2>1. ASSUME NEW w \in Works PROVE WorkOK(w)
      <3>1. w \in Jobs /\ w[1] \in Maps /\ Lease(w) \in Requests /\ Turn(w) \in Requests
        BY WorkNames, RequestNames
      <3> QED BY <1>3, <1>4, <1>7, <1>8, <3>1 DEF WorkOK, At, WorkLease
    <2>2. ASSUME NEW m \in Maps PROVE ProbeOK(m)
      <3>1. /\ Probe(m) \in Jobs /\ Lease(Probe(m)) \in Requests
            /\ Turn(Probe(m)) \in Requests
        BY WorkNames, RequestNames
      <3> QED BY <1>3, <1>7, <1>8, <3>1 DEF ProbeOK, ProbeLease
    <2> QED BY <2>1, <2>2 DEF ThreadInv
  <1>10. HoldInv
    <2>1. ASSUME NEW m \in Maps PROVE HoldOK(m)
      BY <1>3, <1>4, <1>8 DEF HoldOK, Turning
    <2> QED BY <2>1 DEF HoldInv
  <1> QED BY <1>1, <1>2, <1>5, <1>6, <1>9, <1>10 DEF MInv

\* The invariant of the maps holds in every state that owners, supervisors,
\* waiters of the coordinator and the system around them reach together.
THEOREM MapInvariance == MapSpec => []MInv
  BY MapInitInv, MapNextInv, PTL DEF MapSpec

\* What a caller of ElasticMap gets: no item twice, in input order unless it
\* asked for completion order, and every item when the iteration ends without
\* an error, for every number of maps, items and workers.
THEOREM EveryItemDelivered == MapSpec => []DeliversAll
  <1>1. MInv => DeliversAll
    <2> SUFFICES ASSUME MInv PROVE DeliversAll
      OBVIOUS
    <2>1. ASSUME NEW m \in Maps
          PROVE  /\ IsInjective(out[m])
                 /\ m \notin Completion => \A k \in 1 .. Len(out[m]) : out[m][k] = k
                 /\ outcome[m] = "done" => Len(out[m]) = size[m]
      <3>1. DeliverOf(m) /\ out[m] \in Seq(Nat)
        BY DEF MInv, DeliverInv, MapTypes
      <3>2. DOMAIN out[m] = 1 .. Len(out[m]) /\ Inj(out[m])
        BY <3>1 DEF DeliverOf, Distinct
      <3> QED BY <3>1, <3>2 DEF DeliverOf, InOrder, IsInjective, Inj
    <2> QED BY <2>1 DEF DeliversAll
  <1> QED BY <1>1, MapInvariance, PTL

\* A result keeps its lease and its drain turn while the caller works on it,
\* until the caller asks for the next value or the map is cancelled under it.
THEOREM ResultsHeld == MapSpec => []ResultHeld
  <1>1. MInv => ResultHeld
    <2> SUFFICES ASSUME MInv, NEW m \in Maps, owner[m] = "consuming", ~Stop(m)
                 PROVE  /\ Live(Current(m)) /\ req[Turn(Current(m))].st = "admitted"
                        /\ req[Turn(Current(m))].mode = "drain"
      BY DEF ResultHeld
    <2>1. /\ MapTypes /\ PullInv /\ ThreadInv /\ HoldOK(m) /\ PullOf(m)
      BY DEF MInv, HoldInv, PullInv
    <2>2. current[m] # 0
      BY <2>1 DEF PullOf
    <2>3. Current(m) \in Works
      BY <2>1, <2>2, CurrentWork
    <2>4. sup[Current(m)] = "ready" /\ req[Turn(Current(m))].st = "admitted"
      BY <2>1 DEF HoldOK
    <2>5. WorkOK(Current(m))
      BY <2>1, <2>3 DEF ThreadInv
    <2>6. req[Lease(Current(m))].st = "admitted" /\ req[Turn(Current(m))].mode = "drain"
      BY <2>4, <2>5 DEF WorkOK, WorkLease
    <2> QED BY <2>4, <2>6 DEF Live
  <1> QED BY <1>1, MapInvariance, PTL

\* A closed map leaves the coordinator empty of it: no lease, no turn and no
\* queued request of its items or of its source.
THEOREM ClosedLeavesNothing == MapSpec => []NothingLeft
  <1>1. MInv => NothingLeft
    <2> SUFFICES ASSUME MInv, NEW m \in Maps, owner[m] = "closed",
                        NEW r \in Requests, r[1][1] = m
                 PROVE  req[r].st = "idle"
      BY DEF NothingLeft
    <2>1. IInv /\ ThreadInv /\ HoldOK(m) /\ ProbeOK(m)
      BY DEF MInv, HoldInv, ThreadInv
    <2>2. PICK j \in Jobs : j[1] = m /\ (r = Lease(j) \/ r = Turn(j))
      BY DEF Requests, Lease, Turn
    <2>3. CASE j \in Works
      <3>1. WorkOK(j)
        BY <2>1, <2>3 DEF ThreadInv
      <3>2. j \in Works \cap JobsOf(m)
        BY <2>2, <2>3 DEF JobsOf
      <3>3. sup[j] \in {"none", "finished"}
        BY <2>1, <3>2 DEF HoldOK, Drained
      <3>4. req[Lease(j)].st = "idle"
        BY <3>1, <3>3 DEF WorkOK, WorkLease
      <3>5. Away(j)
        BY <2>2, <2>3, AwayIs
      <3>6. req[Turn(j)].st = "idle"
        BY <2>1, <2>3, <3>1, <3>5, AwayTurn
      <3> QED BY <2>2, <3>4, <3>6
    <2>4. CASE j \notin Works
      <3>1. j = Probe(m)
        BY <2>2, <2>4, WorkNames
      <3> QED BY <2>1, <2>2, <3>1 DEF ProbeOK, ProbeLease
    <2> QED BY <2>3, <2>4
  <1> QED BY <1>1, MapInvariance, PTL

\* The ledger of the coordinator is exact under the maps too: what it counts
\* is what the requests of their items, turns and sources hold.
THEOREM MapLedgerIsExact == MapSpec => []LedgerExact
  <1>1. MInv => LedgerExact
    BY DEF MInv, IInv, LedgerInv
  <1> QED BY <1>1, MapInvariance, PTL

\* However many maps share the coordinator, what is admitted for them never
\* exceeds its budgets and slots.
THEOREM MapLimitsKept == MapSpec => []WithinLimits
  <1>1. MInv => WithinLimits
    BY DEF MInv, IInv, LedgerInv
  <1> QED BY <1>1, MapInvariance, PTL
==============================================================================
