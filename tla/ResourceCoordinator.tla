------------------------ MODULE ResourceCoordinator ------------------------
(***************************************************************************)
(* GlobalResourceCoordinator (neocortex/runtime/control/): the one ledger  *)
(* of CPU slots, native threads, I/O slots, memory and temporary space     *)
(* shared by every route of a run.  A thread asks for a lease and waits in *)
(* the queue of its route; whoever polls under the condition observes the  *)
(* system, selects a route and, when it is the head of that route, grants  *)
(* itself.  A lease keeps its memory while its execution part is given     *)
(* back, renewed (checkpoint) or asked for once more to drain a finished   *)
(* result; the renewal is a second request, the turn of the job.           *)
(*                                                                         *)
(* One job is one thread with at most one lease.  Every critical section   *)
(* of the condition is one action; waiters poll at any time, as the poll   *)
(* interval and notify_all allow.  GPU memory is left out (the arithmetic  *)
(* of temporary space on another axis), as are peaks and waiting metrics.  *)
(***************************************************************************)
EXTENDS Integers, Sequences, FiniteSets, FiniteSetsExt

CONSTANTS
    Jobs,           \* threads that ask for leases
    Demand,         \* what each job asks for
    NRoutes,        \* route_order has this many routes
    Budget,         \* memory_budget_bytes
    RouteBudget,    \* route_memory_budgets; Budget when a route has none
    CpuSlots,       \* configured cpu_slots
    IoSlots,        \* I/O concurrency of the device
    TempBudget,     \* temp_budget_bytes
    Hysteresis,     \* memory_hysteresis_bytes
    Samples,        \* observations the system can offer
    HasTimeout,     \* whether wait_timeout_seconds may be set, and may be unset
    Loop,           \* a finished job may ask again
    MaxChanges,     \* bound: changes of the observed system, cancellation included
    None            \* the absent value

Routes   == 1 .. NRoutes
Requests == Jobs \X {"lease", "turn"}
Exec     == {"cpu", "native", "io"}
Accounts == Exec \cup {"reserved", "resident", "transient", "temp", "running"}

\* room is the memory above the configured floor (the smaller of physical
\* and commit), credit what leases have measurably materialized, psi and io
\* the pressure percentages, slots the cores of affinity and quota, external
\* the cores other programs use (None: attribution lost).
Sample == [room : Nat, credit : Nat, psi : {"low", "mid", "high"},
           io : {"low", "mid", "high"}, slots : Nat \ {0}, external : Nat \cup {None}]

ASSUME CoordinatorConstants ==
    /\ Budget \in Nat \ {0} /\ CpuSlots \in Nat \ {0} /\ IoSlots \in Nat \ {0}
    /\ NRoutes \in Nat \ {0} /\ RouteBudget \in [Routes -> 1 .. Budget]
    /\ TempBudget \in Nat /\ Hysteresis \in Nat /\ MaxChanges \in Nat
    /\ HasTimeout \subseteq BOOLEAN
    /\ IsFiniteSet(Jobs) /\ Samples \subseteq Sample /\ None \notin Nat
    /\ \A j \in Jobs :
          /\ Demand[j].route \in Routes /\ Demand[j].adaptive \in BOOLEAN
          /\ Demand[j].cpu \in Nat /\ Demand[j].native \in Nat /\ Demand[j].io \in Nat
          /\ Demand[j].resident \in Nat /\ Demand[j].transient \in Nat
          /\ Demand[j].temp \in Nat /\ Demand[j].limit \in Nat \ {0}

VARIABLES
    req,      \* the lease and the turn of every job
    queue,    \* _queues: the waiting requests of every route
    last,     \* _last_granted_index, 0 before the first grant
    ledger,   \* the counters of the coordinator (entry 0) and of every route
    view,     \* the latched pressures and the last effective capacity
    sample,   \* what the probes would report now
    step,     \* a checkpoint between its release and its renewal
    done,     \* jobs whose lease has ended
    cancelled,\* jobs whose cancellation token, or a parent of it, is cancelled
    timed,    \* wait_timeout_seconds is set, for the whole run
    changes   \* changes of the sample so far

vars == <<req, queue, last, ledger, view, sample, step, done, cancelled, timed, changes>>

-----------------------------------------------------------------------------
(* Requests. *)

Lease(j) == <<j, "lease">>
Turn(j)  == <<j, "turn">>

Idle == [st |-> "idle", mode |-> "new", cpu |-> 0, native |-> 0, io |-> 0, transient |-> 0,
         temp |-> 0, active |-> FALSE, width |-> <<0, 0, 0>>, blocked |-> FALSE]

RouteOf(r)  == Demand[r[1]].route
Resident(r) == IF r[2] = "lease" THEN Demand[r[1]].resident ELSE 0
Executes(q) == q.cpu > 0 \/ q.native > 0 \/ q.io > 0
Live(j)     == req[Lease(j)].st = "admitted"
Admitted    == {r \in Requests : req[r].st = "admitted"}

\* _resident_claims: the admitted leases of r's route with r's key, but r.
Sharing(r) ==
    IF r[2] = "turn" \/ Demand[r[1]].key = None THEN {}
    ELSE {s \in Admitted \ {r} : /\ s[2] = "lease" /\ Demand[s[1]].key = Demand[r[1]].key
                                  /\ RouteOf(s) = RouteOf(r)}

\* What r adds to the resident bytes of its key while the others hold theirs.
ResidentCharge(r) ==
    LET others == Max({Resident(s) : s \in Sharing(r)} \cup {0})
    IN  Max({0, Resident(r) - others})

\* The charge of a request q, whose resident part is res, on every account.
Cost(q, res) ==
    [a \in Accounts |->
        CASE a = "reserved"  -> res + q.transient
          [] a = "resident"  -> res
          [] a = "transient" -> q.transient
          [] a = "temp"      -> q.temp
          [] a = "running"   -> IF Executes(q) THEN 1 ELSE 0
          [] a = "cpu"       -> q.cpu
          [] a = "native"    -> q.native
          [] OTHER           -> q.io]

\* The accounts after sign * cost, in the ledger and in the route of r.
Booked(r, sign, cost) ==
    [x \in 0 .. NRoutes |->
        IF x \in {0, RouteOf(r)} THEN [a \in Accounts |-> ledger[x][a] + sign * cost[a]]
        ELSE ledger[x]]

-----------------------------------------------------------------------------
(* Observation. *)

Recovered ==
    /\ sample.room >= Budget + Hysteresis /\ sample.psi = "low" /\ sample.io = "low"
    /\ sample.external = 0 /\ sample.slots >= CpuSlots

Credit == Min({ledger[0]["reserved"], sample.credit})

\* A latch with two thresholds: set at high, cleared only at low.  (The
\* band of the CPU, 5% of the cores by default, is lost in whole cores here.)
Latched(old, high, low) == IF old THEN ~low ELSE high

\* One observation with the built-in CPU sampler; a load probe of the caller,
\* with a cap and a hysteresis of its own, is left out.
Observation ==
    LET owed     == ledger[0]["reserved"] - Credit
        capacity == Min({CpuSlots, sample.slots})
        known    == sample.external # None
        free     == IF known THEN Max({0, capacity - sample.external})
                    ELSE IF view.known THEN Min({capacity, view.eff})
                    ELSE capacity
    IN  [mem |-> Latched(view.mem, sample.room < owed \/ sample.psi = "high",
                         sample.room >= owed + Hysteresis /\ sample.psi = "low"),
         cpu |-> IF known THEN free = 0 ELSE view.cpu,
         io  |-> Latched(view.io, sample.io = "high", sample.io = "low"),
         eff |-> free, native |-> capacity, known |-> known \/ view.known]

-----------------------------------------------------------------------------
(* Selection. *)

\* A native batch takes the width that is free when it is considered.
Adapted(v) ==
    LET free    == Min({v.eff - ledger[0]["cpu"], Min({v.native, v.eff}) - ledger[0]["native"]})
        width(j) == Max({1, Min({free, Demand[j].limit})})
        heads   == {queue[x][1] : x \in {y \in Routes : queue[y] # <<>>}}
    IN  [r \in Requests |->
            IF r \in heads /\ r[2] = "lease" /\ Demand[r[1]].adaptive
            THEN [req[r] EXCEPT !.cpu = width(r[1]), !.native = width(r[1])] ELSE req[r]]

Drainers == {r \in Admitted : req[r].mode = "drain" /\ req[r].active}

Pressure(v) == v.mem \/ v.cpu \/ v.io

\* Mutant of FitsMemory: what is reserved already is not counted.
FitsUncounted(r, q) == ResidentCharge(r) + q.transient <= RouteBudget[RouteOf(r)]

\* New memory fits the budgets and the observed headroom.
FitsMemory(r, q) ==
    \A charge \in {ResidentCharge(r) + q.transient} :
        /\ ledger[0]["reserved"] + charge <= Budget
        /\ ledger[RouteOf(r)]["reserved"] + charge <= RouteBudget[RouteOf(r)]
        /\ sample.room >= Max({0, ledger[0]["reserved"] + charge - Credit})

\* Mutant of SlotsFor: no slot is set aside for a drain.
LiveSlots(q, v) == v.eff

\* The CPU a request may count on: a drain may use one slot under pressure.
SlotsFor(q, v) == IF q.mode = "drain" /\ Pressure(v) THEN Max({1, v.eff}) ELSE v.eff

Fits(r, q, v) ==
    /\ IF q.mode = "drain"
       THEN Live(r[1]) /\ (Pressure(v) => Drainers = {})
       ELSE FitsMemory(r, q) /\ ~v.mem /\ (v.cpu => ~Executes(q)) /\ (v.io => q.io = 0)
    /\ ledger[0]["cpu"] + q.cpu <= SlotsFor(q, v)
    /\ ledger[0]["native"] + q.native <= Min({v.native, SlotsFor(q, v)})
    /\ ledger[0]["temp"] + q.temp <= TempBudget
    /\ q.io > 0 => ledger[0]["io"] + q.io <= IoSlots

\* Mutant of RoundRobin: the first route in order, whoever was served last.
FirstOf(S) == Min(S)

\* The first of S after the route that was served last.
RoundRobin(S) ==
    CHOOSE x \in S : \A y \in S : (x - last - 1) % NRoutes <= (y - last - 1) % NRoutes

\* Of the fitting routes S: one that drains, else one that uses no CPU, else
\* any of them.
Preferred(S, q) ==
    CASE \E x \in S : q[queue[x][1]].mode = "drain" ->
            RoundRobin({x \in S : q[queue[x][1]].mode = "drain"})
      [] \A x \in S : q[queue[x][1]].mode # "drain" /\ ledger[x]["cpu"] > 0 ->
            IF S = {} THEN None ELSE RoundRobin(S)
      [] OTHER -> RoundRobin({x \in S : ledger[x]["cpu"] = 0})

\* The route to serve among those whose head could be granted now.
NextRoute(q, v) ==
    LET fitting == {x \in Routes : queue[x] # <<>> /\ Fits(queue[x][1], q[queue[x][1]], v)}
    IN  CHOOSE x \in {Preferred(S, q) : S \in {fitting}} : TRUE

-----------------------------------------------------------------------------
(* Waiting.  A poll is one pass of the loop of admission_scope. *)

Waiting(r) == req[r].st = "queued"

\* A renewal whose original lease has gone.
Orphan(r) == req[r].mode = "renew" /\ ~Live(r[1])

Polls(r) == Waiting(r) /\ r[1] \notin cancelled /\ ~Orphan(r)

\* Mutant of Discarded: whoever gives up removes the head of its queue.
DiscardedHead(r) == [queue EXCEPT ![RouteOf(r)] = Tail(@)]

\* Request r has left the queue of its route, wherever it was in it.
Discarded(r) ==
    LET q == queue[RouteOf(r)]
        i == CHOOSE k \in 1 .. Len(q) : q[k] = r /\ \A n \in 1 .. k - 1 : q[n] # r
    IN  IF \A k \in 1 .. Len(q) : q[k] # r THEN queue
        ELSE [queue EXCEPT ![RouteOf(r)] = SubSeq(q, 1, i - 1) \o SubSeq(q, i + 1, Len(q))]

\* One pass observes the system, then sets the width of adaptive heads.
Observed == LET v == Observation IN {[view |-> v, req |-> Adapted(v)]}

\* r is the head of the selected route.
Chosen(r, p) == queue[RouteOf(r)][1] = r /\ NextRoute(p.req, p.view) = RouteOf(r)

Grant(r) ==
    /\ Polls(r)
    /\ \E p \in Observed :
         /\ Chosen(r, p)
         /\ req' = [p.req EXCEPT ![r] =
                      [@ EXCEPT !.st = "admitted", !.active = Executes(p.req[r]), !.blocked = FALSE,
                                !.width = <<p.req[r].cpu, p.req[r].native, p.req[r].io>>]]
         /\ ledger' = Booked(r, 1, Cost(p.req[r], ResidentCharge(r)))
         /\ view' = p.view
    /\ queue' = [queue EXCEPT ![RouteOf(r)] = Tail(@)]
    /\ last' = RouteOf(r)
    /\ UNCHANGED <<sample, step, done, cancelled, timed, changes>>

\* Mutant of Stalled: retained memory counts as progress, too.
StalledEmpty(p) == timed /\ Admitted = {} /\ NextRoute(p.req, p.view) = None

\* The wait counts towards the time-out only while nothing executes and no
\* queued request can start.
Stalled(p) == timed /\ ledger[0]["running"] = 0 /\ NextRoute(p.req, p.view) = None

Wait(r) ==
    /\ Polls(r)
    /\ \E p \in Observed :
         /\ ~Chosen(r, p)
         /\ req' = [p.req EXCEPT ![r].blocked = Stalled(p)]
         /\ view' = p.view
    /\ UNCHANGED <<queue, last, ledger, sample, step, done, cancelled, timed, changes>>

\* The exception leaves the queue; a job that wanted a lease is over.
GivenUp(r) == IF r[2] = "lease" /\ ~Loop THEN done \cup {r[1]} ELSE done

TimeOut(r) ==
    /\ Polls(r) /\ req[r].blocked
    /\ \E p \in Observed :
         /\ Stalled(p)
         /\ req' = [p.req EXCEPT ![r] = Idle]
         /\ view' = p.view
    /\ queue' = Discarded(r)
    /\ done' = GivenUp(r)
    /\ UNCHANGED <<last, ledger, sample, step, cancelled, timed, changes>>

\* Its token is cancelled, or the lease of a renewal was released meanwhile.
Abandon(r) ==
    /\ Waiting(r) /\ (r[1] \in cancelled \/ Orphan(r))
    /\ req' = [req EXCEPT ![r] = Idle]
    /\ queue' = Discarded(r)
    /\ done' = GivenUp(r)
    /\ UNCHANGED <<last, ledger, view, sample, step, cancelled, timed, changes>>

-----------------------------------------------------------------------------
(* Leases. *)

\* admit: one request beyond an absolute ceiling is refused, never queued.  (A
\* ceiling the code detects itself shrinks with the cores; here it is fixed.)
Admit(j) ==
    LET d == Demand[j]
    IN  /\ j \notin cancelled /\ req[Lease(j)].st = "idle" /\ step[j] = "none"
        /\ Loop \/ j \notin done
        /\ d.resident + d.transient <= RouteBudget[d.route]
        /\ d.cpu <= CpuSlots /\ d.native <= CpuSlots /\ d.io <= IoSlots /\ d.temp <= TempBudget
        /\ req' = [req EXCEPT ![Lease(j)] =
                     [Idle EXCEPT !.st = "queued", !.cpu = d.cpu, !.native = d.native,
                                  !.io = d.io, !.transient = d.transient, !.temp = d.temp]]
        /\ queue' = [queue EXCEPT ![d.route] = Append(@, Lease(j))]
        /\ UNCHANGED <<last, ledger, view, sample, step, done, cancelled, timed, changes>>

\* The thread of j is in its own code: it neither waits nor is between the
\* two halves of a checkpoint.
Runs(j) == Live(j) /\ ~Waiting(Turn(j)) /\ step[j] = "none"

\* The execution part of a request, given back once.
Execution(r) ==
    IF req[r].active
    THEN [a \in Accounts |-> CASE a \in Exec -> req[r][a] [] a = "running" -> 1 [] OTHER -> 0]
    ELSE [a \in Accounts |-> 0]

Stopped(q) == [q EXCEPT !.cpu = 0, !.native = 0, !.io = 0, !.active = FALSE]

Plus(f, g) == [a \in Accounts |-> f[a] + g[a]]

\* release_cpu: the turn ends, and the lease keeps only what it retains.
CpuReleased(j) == [req EXCEPT ![Lease(j)] = Stopped(@), ![Turn(j)] = Idle]
CpuOf(j)       == Plus(Execution(Lease(j)), Execution(Turn(j)))

ReleaseCpu(j) ==
    /\ Runs(j) /\ (req[Lease(j)].active \/ req[Turn(j)].st = "admitted")
    /\ req' = CpuReleased(j)
    /\ ledger' = Booked(Lease(j), -1, CpuOf(j))
    /\ UNCHANGED <<queue, last, view, sample, step, done, cancelled, timed, changes>>

\* checkpoint, first half: give execution back, to renew it or to drain.
Yield(j, mode) ==
    /\ Runs(j) /\ j \notin cancelled
    /\ mode = "renew" => req[Lease(j)].width # <<0, 0, 0>>
    /\ req' = CpuReleased(j)
    /\ ledger' = Booked(Lease(j), -1, CpuOf(j))
    /\ step' = [step EXCEPT ![j] = mode]
    /\ UNCHANGED <<queue, last, view, sample, done, cancelled, timed, changes>>

\* checkpoint, second half: queue the turn at the head of the route, unless
\* the job was cancelled or the lease was released in between.
Renew(j) ==
    LET w == IF step[j] = "drain" THEN <<1, 1, 1>> ELSE req[Lease(j)].width
    IN  /\ step[j] # "none"
        /\ step' = [step EXCEPT ![j] = "none"]
        /\ IF j \in cancelled \/ ~Live(j) THEN UNCHANGED <<req, queue>>
           ELSE /\ req' = [req EXCEPT ![Turn(j)] =
                              [Idle EXCEPT !.st = "queued", !.mode = step[j], !.cpu = w[1],
                                           !.native = w[2], !.io = w[3]]]
                /\ queue' = [queue EXCEPT ![Demand[j].route] = <<Turn(j)>> \o @]
        /\ UNCHANGED <<last, ledger, view, sample, done, cancelled, timed, changes>>

\* shrink_transient_bytes
Shrink(j) ==
    /\ Runs(j) /\ req[Lease(j)].transient > 0
    /\ \E n \in 0 .. req[Lease(j)].transient - 1 :
         /\ req' = [req EXCEPT ![Lease(j)].transient = n]
         /\ ledger' = Booked(Lease(j), -1,
                        [a \in Accounts |-> IF a \in {"reserved", "transient"}
                                            THEN req[Lease(j)].transient - n ELSE 0])
    /\ UNCHANGED <<queue, last, view, sample, step, done, cancelled, timed, changes>>

\* resize_temp_bytes: growth is refused, not awaited, beyond the budget.
ResizeTemp(j) ==
    /\ Runs(j) /\ j \notin cancelled
    /\ \E n \in (0 .. TempBudget) \ {req[Lease(j)].temp} :
         LET delta == n - req[Lease(j)].temp
         IN  /\ ledger[0]["temp"] + delta <= TempBudget \/ delta < 0
             /\ req' = [req EXCEPT ![Lease(j)].temp = n]
             /\ ledger' = Booked(Lease(j), 1,
                            [a \in Accounts |-> IF a = "temp" THEN delta ELSE 0])
    /\ UNCHANGED <<queue, last, view, sample, step, done, cancelled, timed, changes>>

\* Mutant of Ended: a shared residence is given back by everyone who leaves.
EndedWhole(j) == Plus(CpuOf(j), Cost(Stopped(req[Lease(j)]), Resident(Lease(j))))

\* What the end of a lease gives back: its turn's execution, and of a shared
\* residence only what no other lease of the key still claims.
Ended(j) == Plus(CpuOf(j), Cost(Stopped(req[Lease(j)]), ResidentCharge(Lease(j))))

\* The with block of the lease is left, normally or by an exception.  A turn
\* another thread is still waiting for stays queued.
EndLease(j) ==
    /\ Live(j)
    /\ req' = [req EXCEPT ![Lease(j)] = Idle, ![Turn(j)] = IF Waiting(Turn(j)) THEN @ ELSE Idle]
    /\ ledger' = Booked(Lease(j), -1, Ended(j))
    /\ done' = IF Loop THEN done ELSE done \cup {j}
    /\ UNCHANGED <<queue, last, view, sample, step, cancelled, timed, changes>>

Exit(j) == Runs(j) /\ EndLease(j)

-----------------------------------------------------------------------------
(* Environment. *)

\* The monitor thread publishes an observation.
Monitor ==
    /\ view' = Observation /\ view' # view
    /\ UNCHANGED <<req, queue, last, ledger, sample, step, done, cancelled, timed, changes>>

Environment ==
    /\ changes < MaxChanges
    /\ sample' \in Samples \ {sample}
    /\ changes' = changes + 1
    /\ UNCHANGED <<req, queue, last, ledger, view, step, done, cancelled, timed>>

\* Someone cancels the token of the run (Jobs) or of some of its jobs.
Cancel(S) ==
    /\ S # {} /\ S \cap cancelled = {} /\ changes < MaxChanges
    /\ cancelled' = cancelled \cup S
    /\ changes' = changes + 1
    /\ UNCHANGED <<req, queue, last, ledger, view, sample, step, done, timed>>
-----------------------------------------------------------------------------
(* Jobs that use the coordinator in any way its interface allows. *)

InitView == [mem |-> FALSE, cpu |-> FALSE, io |-> FALSE, eff |-> CpuSlots,
             native |-> CpuSlots, known |-> FALSE]

Init ==
    /\ req = [r \in Requests |-> Idle]
    /\ queue = [x \in Routes |-> <<>>]
    /\ last = 0
    /\ ledger = [x \in 0 .. NRoutes |-> [a \in Accounts |-> 0]]
    /\ view = InitView
    /\ sample \in Samples
    /\ step = [j \in Jobs |-> "none"]
    /\ done = {} /\ cancelled = {} /\ timed \in HasTimeout /\ changes = 0

Next ==
    \/ \E r \in Requests : Grant(r) \/ Wait(r) \/ TimeOut(r) \/ Abandon(r)
    \/ \E j \in Jobs : \/ Admit(j) \/ Renew(j) \/ ReleaseCpu(j) \/ Exit(j)
                       \/ Shrink(j) \/ ResizeTemp(j)
                       \/ \E mode \in {"renew", "drain"} : Yield(j, mode)
    \/ Monitor \/ Environment \/ Cancel(Jobs \ cancelled) \/ \E j \in Jobs : Cancel({j})

\* Waiters poll (at most one of them can be granted at a time), a thread that
\* began a checkpoint goes on, and a job ends however often it renews its
\* execution.  Nobody has to ask for a lease.
Fairness ==
    /\ WF_vars(\E r \in Requests : Grant(r))
    /\ \A r \in Requests : WF_vars(TimeOut(r)) /\ WF_vars(timed /\ Wait(r))
    /\ WF_vars(\E r \in Requests : Abandon(r))
    /\ \A j \in Jobs : WF_vars(Renew(j)) /\ SF_vars(Exit(j))

Spec == Init /\ [][Next]_vars /\ Fairness

-----------------------------------------------------------------------------
(* Properties. *)

RequestType ==
    [st : {"idle", "queued", "admitted"}, mode : {"new", "renew", "drain"}, cpu : 0 .. CpuSlots,
     native : 0 .. CpuSlots, io : 0 .. IoSlots, transient : 0 .. Budget, temp : 0 .. TempBudget,
     active : BOOLEAN, width : (0 .. CpuSlots) \X (0 .. CpuSlots) \X (0 .. IoSlots),
     blocked : BOOLEAN]

\* Type correctness; a request is in the queue of its route exactly while it
\* is marked queued (_discard_queued_request_locked, _grant_request_locked).
TypeOK ==
    /\ req \in [Requests -> RequestType]
    /\ \A x \in Routes : {queue[x][i] : i \in 1 .. Len(queue[x])}
                          = {r \in Requests : Waiting(r) /\ RouteOf(r) = x}
    /\ \A x \in Routes : Len(queue[x]) = Cardinality({r \in Requests : Waiting(r) /\ RouteOf(r) = x})
    /\ last \in 0 .. NRoutes
    /\ ledger \in [0 .. NRoutes -> [Accounts -> Nat]]
    /\ view \in [mem : BOOLEAN, cpu : BOOLEAN, io : BOOLEAN, eff : 0 .. CpuSlots,
                 native : 1 .. CpuSlots, known : BOOLEAN]
    /\ sample \in Samples
    /\ step \in [Jobs -> {"none", "renew", "drain"}]
    /\ done \subseteq Jobs /\ cancelled \subseteq Jobs /\ timed \in HasTimeout
    /\ changes \in 0 .. MaxChanges

\* The admitted requests a route is charged for (0: all of them).
Held(x) == {r \in Admitted : x \in {0, RouteOf(r)}}

\* Who holds the resident bytes of r: all the leases of its key in its route
\* together, or its job alone.
Holder(r) ==
    LET key == Demand[r[1]].key
    IN  <<RouteOf(r), key, IF key = None THEN r[1] ELSE None>>

\* The units of n[r] that the requests of S hold, each in the name of h[r]: as
\* many as the largest n of each name, summed over the names.
Units(S, h, n) == UNION {{h[r]} \X (1 .. n[r]) : r \in S}

\* The units of field a that the admitted requests of x hold, each its own.
UnitsOf(x, a) == Units(Held(x), [r \in Requests |-> r], [r \in Requests |-> req[r][a]])

\* Resident units really held: shared ones once per key, at the largest claim.
ResidentUnits(x) ==
    Units(Held(x), [r \in Requests |-> Holder(r)], [r \in Requests |-> Resident(r)])

\* The counters are exactly what the admitted requests hold, in the ledger
\* and in every route, whatever the order in which leases that share a
\* residence come and go, are renewed, shrunk, timed out or cancelled.
LedgerExact ==
    \A x \in 0 .. NRoutes :
        /\ ledger[x]["resident"] = Cardinality(ResidentUnits(x))
        /\ ledger[x]["reserved"] = ledger[x]["resident"] + ledger[x]["transient"]
        /\ \A a \in Exec \cup {"transient", "temp"} :
              ledger[x][a] = Cardinality(UnitsOf(x, a))
        /\ ledger[x]["running"] = Cardinality({r \in Held(x) : req[r].active})

\* No limit is ever exceeded by what is admitted: the memory budgets of the
\* run and of each route, temporary space, the configured CPU slots and the
\* I/O slots.  Turns add execution to leases that were admitted before.
WithinLimits ==
    /\ ledger[0]["reserved"] <= Budget
    /\ \A x \in Routes : ledger[x]["reserved"] <= RouteBudget[x]
    /\ ledger[0]["temp"] <= TempBudget
    /\ ledger[0]["cpu"] <= CpuSlots /\ ledger[0]["native"] <= CpuSlots
    /\ ledger[0]["io"] <= IoSlots

\* Round-robin fairness (the class docstring): once the system has recovered
\* for good, every waiting request is served, although other routes and
\* other jobs of its own route ask, renew and drain for ever, and may push
\* their renewals and drains in before it.
Served == <>[](Recovered /\ cancelled = {}) => \A r \in Requests : []<>~Waiting(r)

DrainWaits(j) == Waiting(Turn(j)) /\ req[Turn(j)].mode = "drain"

\* A renewal of another job stands before the turn of j in their queue.
BehindRenewal(j) ==
    LET q == queue[Demand[j].route]
    IN  \E i, k \in 1 .. Len(q) : i < k /\ q[k] = Turn(j) /\ req[q[i]].mode = "renew"

\* "Drains": a finished result can get the turn its owner needs to store it
\* and return its memory, under any pressure, for ever, unless a renewal was
\* queued before it: renewals wait until the pressure is over, only the head
\* of a queue is considered, and a drain behind such a head waits with it.
\* Nothing else can hold a drain up for ever: no other drain, no lease in
\* use, no other route, and no renewal that comes and goes.
DrainServed == \A j \in Jobs : <>[]DrainWaits(j) => <>[]BehindRenewal(j)

\* With a wait time-out nobody waits for ever, whatever the system does:
\* jobs that hold memory and wait for each other give up.
WaitsEnd == \A r \in Requests : []<>(timed => ~Waiting(r))
=============================================================================
