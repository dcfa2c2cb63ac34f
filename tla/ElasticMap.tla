----------------------------- MODULE ElasticMap -----------------------------
(***************************************************************************)
(* ElasticMap (neocortex/runtime/control/elastic_workers.py) on top of the *)
(* resource coordinator.  The caller's thread owns a map: it pulls items,  *)
(* submits each to a supervisor thread, prepares the ones that have been   *)
(* admitted, takes the ready ones, and consumes each under a drain turn of *)
(* the lease that still holds the result.  A supervisor asks for the       *)
(* lease, waits to be prepared, runs the function, gives the CPU back and  *)
(* keeps the memory until its owner has moved on.                          *)
(*                                                                         *)
(* Item i of map m is the job <<m, i>>; <<m, 0>> is the admission that the *)
(* input of a map in "admission" mode may ask for while it is advanced.    *)
(* Events (admitted, prepared, ready, release, finished) are the states    *)
(* and sets below; waiting for one is a guard, as every wait is a poll.    *)
(***************************************************************************)
EXTENDS ResourceCoordinator, SequencesExt

CONSTANTS
    Maps,        \* maps of the run, each with its own owner thread
    Sizes,       \* how many items the sources of the maps may yield, one tuple per case
    Pure,        \* maps with producer_mode = "pure"
    Completion,  \* maps with completion_order = True
    MaxWorkers,  \* max_workers
    MaxFaults    \* bound: functions or preparations that raise, callers that leave

Longest  == Max({s[m] : s \in Sizes, m \in Maps})
Works    == Maps \X (1 .. Longest)
Probe(m) == <<m, 0>>
JobsOf(m) == {j \in Jobs : j[1] = m}

ASSUME MapConstants ==
    /\ IsFiniteSet(Maps) /\ IsFiniteSet(Sizes)
    /\ Sizes \subseteq [Maps -> Nat] /\ Sizes # {}
    /\ Jobs = Works \cup (Maps \X {0}) /\ Loop
    /\ Pure \subseteq Maps /\ Completion \subseteq Maps
    /\ MaxWorkers \in Nat \ {0} /\ MaxFaults \in Nat

VARIABLES
    owner,    \* where the owner thread of each map is
    pending,  \* _pending: submitted items that were not taken yet
    current,  \* _current: the item being consumed, 0 when none
    size,     \* items the source of each map yields before it ends
    pulled,   \* items the source has yielded
    out,      \* values handed to the caller, in order
    outcome,  \* how the iteration of the map ended
    sup,      \* where the supervisor of each work is
    prepared, \* works whose prepared event is set
    freed,    \* works whose release event is set
    failed,   \* works that ended or were prepared with an error
    faults

mapVars == <<size, owner, pending, current, pulled, out, outcome, sup, prepared, freed, failed,
             faults>>
allVars == <<vars, mapVars>>

\* _stop: the map's own token, or the one of the run behind it.
Stop(m) == JobsOf(m) \subseteq cancelled

Ready(w)    == sup[w] \in {"ready", "finished"}
Current(m)  == <<m, current[m]>>
PendingOf(m) == {<<m, pending[m][k]>> : k \in 1 .. Len(pending[m])}

-----------------------------------------------------------------------------
(* Supervisors: _run and _execute. *)

Asks(w) ==
    /\ sup[w] = "start" /\ Admit(w)
    /\ sup' = [sup EXCEPT ![w] = "asking"]
    /\ UNCHANGED <<size, owner, pending, current, pulled, out, outcome, prepared, freed, failed,
                   faults>>

\* The lease is granted; the work waits for its owner to prepare it.
Granted(w) ==
    /\ sup[w] = "asking" /\ Grant(Lease(w))
    /\ sup' = [sup EXCEPT ![w] = "holding"]
    /\ UNCHANGED <<size, owner, pending, current, pulled, out, outcome, prepared, freed, failed,
                   faults>>

\* Cancelled before or while it waits for the lease, or timed out.
AskFails(w) ==
    /\ \/ sup[w] = "start" /\ w \in cancelled /\ UNCHANGED vars
       \/ sup[w] = "asking" /\ (TimeOut(Lease(w)) \/ Abandon(Lease(w)))
    /\ sup' = [sup EXCEPT ![w] = "finished"]
    /\ failed' = failed \cup {w}
    /\ UNCHANGED <<owner, pending, current, size, pulled, out, outcome, prepared, freed, faults>>

Begins(w) ==
    /\ sup[w] = "holding" /\ w \in prepared /\ w \notin failed /\ w \notin cancelled
    /\ sup' = [sup EXCEPT ![w] = "running"]
    /\ UNCHANGED vars
    /\ UNCHANGED <<size, owner, pending, current, pulled, out, outcome, prepared, freed, failed,
                   faults>>

\* The function returns or raises; execution is given back either way.
Returns(w) ==
    /\ sup[w] = "running" /\ ReleaseCpu(w)
    /\ \E ok \in {TRUE, FALSE} :
         /\ ok \/ faults < MaxFaults
         /\ faults' = IF ok THEN faults ELSE faults + 1
         /\ IF ok /\ w \notin cancelled
            THEN sup' = [sup EXCEPT ![w] = "ready"] /\ UNCHANGED failed
            ELSE sup' = [sup EXCEPT ![w] = "leaving"] /\ failed' = failed \cup {w}
    /\ UNCHANGED <<owner, pending, current, size, pulled, out, outcome, prepared, freed>>

\* Mutant of MayLeave: a supervisor ends its lease with the function.
MayLeaveReady(w) == sup[w] \in {"leaving", "ready"} \/ (sup[w] = "holding" /\ w \in failed \cup cancelled)

\* Mutant of MayLeave: only the end of the map lets a result go.
MayLeaveStopped(w) ==
    sup[w] = "leaving" \/ (sup[w] \in {"ready", "holding"} /\ w \in cancelled)

\* The value was consumed, the map stops, or the work has failed.
MayLeave(w) ==
    \/ sup[w] = "leaving"
    \/ sup[w] = "ready" /\ w \in freed \cup cancelled
    \/ sup[w] = "holding" /\ (w \in cancelled \/ (w \in failed /\ w \in prepared))

Leaves(w) ==
    /\ MayLeave(w) /\ EndLease(w)
    /\ sup' = [sup EXCEPT ![w] = "finished"]
    /\ failed' = IF sup[w] = "ready" /\ w \in freed THEN failed ELSE failed \cup {w}
    /\ UNCHANGED <<owner, pending, current, size, pulled, out, outcome, prepared, freed, faults>>

-----------------------------------------------------------------------------
(* The owner: __next__, _fill, _prepare_ready, _release_current. *)

\* How many workers of this size fit n, when they need any of it.
Shares(n, each) == IF each = 0 THEN {} ELSE {Max({0, n \div each})}

\* worker_capacity of the route of m, from the observation v.
WorkerCapacity(m, v) ==
    LET x     == Demand[Probe(m)].route
        bytes == Max({Demand[w].transient : w \in Works \cap JobsOf(m)})
        threads == Max({Demand[w].native : w \in Works \cap JobsOf(m)})
        own   == ledger[x]
        room  == Min({Budget - ledger[0]["reserved"] + own["transient"],
                      RouteBudget[x] - own["reserved"] + own["transient"],
                      sample.room - (ledger[0]["reserved"] - Credit - own["transient"])})
        cpu   == Max({0, v.eff - ledger[0]["cpu"] + own["cpu"]})
        native == Min({v.native, v.eff}) - ledger[0]["native"] + own["native"]
    IN  IF v.mem \/ v.cpu THEN 0
        ELSE Min({cpu, MaxWorkers} \cup Shares(native, threads) \cup Shares(room, bytes))

\* One waiter may always ask, so that the coordinator owns the time-outs.  The
\* limit is taken again before every item, as it is for a callable estimate.
MayPull(m, v) ==
    /\ pulled[m] < size[m] /\ Len(pending[m]) < Max({1, WorkerCapacity(m, v)})
    /\ m \in Pure \/ \A w \in PendingOf(m) : ~Ready(w)

\* The item is submitted; in admission mode its owner stays with it.
Submit(m) ==
    LET w == <<m, pulled[m] + 1>>
    IN  /\ pulled' = [pulled EXCEPT ![m] = @ + 1]
        /\ pending' = [pending EXCEPT ![m] = Append(@, w[2])]
        /\ sup' = [sup EXCEPT ![w] = "start"]
        /\ owner' = [owner EXCEPT ![m] = IF m \in Pure THEN "fill" ELSE "handoff"]
        /\ UNCHANGED <<size, current, out, outcome, prepared, freed, failed, faults>>

Pull(m) ==
    /\ owner[m] = "fill" /\ ~Stop(m)
    /\ \E v \in {Observation} : MayPull(m, v) /\ view' = v
    /\ Submit(m)
    /\ UNCHANGED <<req, queue, last, ledger, sample, step, done, cancelled, timed, changes>>

\* Advancing the source of a map in admission mode asks for resources first.
ProbeAsks(m) ==
    /\ owner[m] = "fill" /\ m \notin Pure /\ MayPull(m, Observation) /\ Admit(Probe(m))
    /\ owner' = [owner EXCEPT ![m] = "probing"]
    /\ UNCHANGED <<size, pending, current, pulled, out, outcome, sup, prepared, freed, failed,
                   faults>>

ProbeGranted(m) ==
    /\ owner[m] = "probing" /\ Grant(Lease(Probe(m)))
    /\ owner' = [owner EXCEPT ![m] = "probed"]
    /\ UNCHANGED <<size, pending, current, pulled, out, outcome, sup, prepared, freed, failed,
                   faults>>

ProbeEnds(m) == owner[m] = "probed" /\ EndLease(Probe(m)) /\ Submit(m)

\* The iteration ends; the owner closes the map.
ToClose(m, how) ==
    /\ owner' = [owner EXCEPT ![m] = "closing"]
    /\ outcome' = [outcome EXCEPT ![m] = how]

\* The admitted works the owner has to prepare.
Unprepared(m) == {w \in PendingOf(m) : sup[w] = "holding" /\ w \notin prepared}

\* _prepare_ready, where preparing one of them may raise.
PrepareReady(m) ==
    /\ prepared' = prepared \cup Unprepared(m)
    /\ \/ UNCHANGED <<failed, faults>>
       \/ /\ faults < MaxFaults /\ faults' = faults + 1
          /\ \E w \in Unprepared(m) : failed' = failed \cup {w}

\* _prepare_submitted: in admission mode the owner stays with the item it
\* submitted until that is ready, or an earlier one can be consumed.
Handoff(m) ==
    LET w     == <<m, Last(pending[m])>>
        prior == \E v \in PendingOf(m) \ {w} : Ready(v)
    IN  /\ owner[m] = "handoff" /\ ~Stop(m)
        /\ UNCHANGED <<pending, current, size, pulled, out, outcome, sup, freed>> /\ UNCHANGED vars
        /\ IF ~Ready(w) /\ w \in Unprepared(m) THEN PrepareReady(m) /\ UNCHANGED owner
           ELSE /\ Ready(w) \/ prior
                /\ owner' = [owner EXCEPT ![m] = "fill"]
                /\ UNCHANGED <<prepared, failed, faults>>

\* _fill has nothing more to pull: prepare what was admitted meanwhile.
Prepare(m) ==
    /\ owner[m] = "fill" /\ ~Stop(m)
    /\ \E v \in {Observation} : ~MayPull(m, v) /\ view' = v
    /\ PrepareReady(m)
    /\ owner' = [owner EXCEPT ![m] = "pick"]
    /\ UNCHANGED <<req, queue, last, ledger, sample, step, done, cancelled, timed, changes>>
    /\ UNCHANGED <<pending, current, size, pulled, out, outcome, sup, freed>>

\* Mutant of Pickable: the first result that is ready, whatever the order.
PickableAny(m) == {k \in 1 .. Len(pending[m]) : Ready(<<m, pending[m][k]>>)}

\* Positions of the pending works that may be taken now: the first of them.
Pickable(m) ==
    {k \in 1 .. Len(pending[m]) :
        /\ Ready(<<m, pending[m][k]>>)
        /\ \A i \in 1 .. k - 1 : m \in Completion /\ ~Ready(<<m, pending[m][i]>>)}

\* A ready result is taken, and its owner asks for a turn to consume it.
Take(m) ==
    /\ owner[m] = "pick" /\ ~Stop(m)
    /\ \E k \in Pickable(m) :
         LET w == <<m, pending[m][k]>>
         IN  /\ pending' = [pending EXCEPT ![m] = RemoveAt(@, k)]
             /\ current' = [current EXCEPT ![m] = w[2]]
             /\ IF w \in failed THEN ToClose(m, "failed") /\ UNCHANGED vars
                ELSE /\ Yield(w, "drain")
                     /\ owner' = [owner EXCEPT ![m] = "draining"] /\ UNCHANGED outcome
    /\ UNCHANGED <<size, pulled, out, sup, prepared, freed, failed, faults>>

\* Nothing can be taken: everything was delivered, a later item has failed,
\* or the owner waits.
Idles(m) ==
    LET dead == \E w \in PendingOf(m) : Ready(w) /\ w \in failed
    IN  /\ owner[m] = "pick" /\ ~Stop(m) /\ Pickable(m) = {}
        /\ IF pending[m] = <<>> /\ pulled[m] = size[m] THEN ToClose(m, "done")
           ELSE IF dead THEN ToClose(m, "failed")
           ELSE owner' = [owner EXCEPT ![m] = "fill"] /\ UNCHANGED outcome
        /\ UNCHANGED vars
        /\ UNCHANGED <<pending, current, size, pulled, out, sup, prepared, freed, failed, faults>>

DrainAsks(m) ==
    /\ owner[m] = "draining" /\ Renew(Current(m))
    /\ IF Current(m) \in cancelled THEN ToClose(m, "failed")
       ELSE owner' = [owner EXCEPT ![m] = "waiting"] /\ UNCHANGED outcome
    /\ UNCHANGED <<pending, current, size, pulled, out, sup, prepared, freed, failed, faults>>

\* The caller gets the value and consumes it.
Consumes(m) ==
    /\ owner[m] = "waiting" /\ Grant(Turn(Current(m)))
    /\ owner' = [owner EXCEPT ![m] = "consuming"]
    /\ out' = [out EXCEPT ![m] = Append(@, current[m])]
    /\ UNCHANGED <<pending, current, size, pulled, outcome, sup, prepared, freed, failed, faults>>

\* The turn, or the lease of a probe, was not granted.  A turn cannot time
\* out: when nothing executes, one drain always fits.
OwnerRefused(m) ==
    /\ \/ owner[m] = "waiting" /\ Abandon(Turn(Current(m)))
       \/ owner[m] = "probing" /\ (TimeOut(Lease(Probe(m))) \/ Abandon(Lease(Probe(m))))
    /\ ToClose(m, "failed")
    /\ UNCHANGED <<pending, current, size, pulled, out, sup, prepared, freed, failed, faults>>

\* The owner gives back the CPU of the result it consumes, if any is left.
GivesBack(m) ==
    /\ req' = IF current[m] = 0 THEN req ELSE CpuReleased(Current(m))
    /\ ledger' = IF current[m] = 0 THEN ledger ELSE Booked(Lease(Current(m)), -1, CpuOf(Current(m)))

\* The caller asks for the next value: the current result may go.
NextValue(m) ==
    /\ owner[m] = "consuming"
    /\ GivesBack(m)
    /\ freed' = freed \cup {Current(m)}
    /\ owner' = [owner EXCEPT ![m] = "joining"]
    /\ UNCHANGED <<queue, last, view, sample, step, done, cancelled, timed, changes>>
    /\ UNCHANGED <<pending, current, size, pulled, out, outcome, sup, prepared, failed, faults>>

Joined(m) ==
    /\ owner[m] = "joining" /\ sup[Current(m)] = "finished"
    /\ current' = [current EXCEPT ![m] = 0]
    /\ IF Current(m) \in failed /\ ~Stop(m) THEN ToClose(m, "failed")
       ELSE owner' = [owner EXCEPT ![m] = "fill"] /\ UNCHANGED outcome
    /\ UNCHANGED vars
    /\ UNCHANGED <<pending, size, pulled, out, sup, prepared, freed, failed, faults>>

\* The caller leaves the loop early or raises.
Break(m) ==
    /\ owner[m] = "consuming" /\ faults < MaxFaults
    /\ faults' = faults + 1
    /\ ToClose(m, "left")
    /\ UNCHANGED vars
    /\ UNCHANGED <<pending, current, size, pulled, out, sup, prepared, freed, failed>>

\* A checkpoint of the owner observes the cancellation.
Observes(m) ==
    /\ owner[m] \in {"fill", "handoff", "pick"} /\ Stop(m)
    /\ ToClose(m, "failed")
    /\ UNCHANGED vars
    /\ UNCHANGED <<pending, current, size, pulled, out, sup, prepared, freed, failed, faults>>

\* close: stop this map only, and let every supervisor of it go.
Close(m) ==
    LET mine == PendingOf(m) \cup (IF current[m] = 0 THEN {} ELSE {Current(m)})
    IN  /\ owner[m] = "closing"
        /\ cancelled' = cancelled \cup JobsOf(m)
        /\ GivesBack(m)
        /\ freed' = freed \cup mine /\ prepared' = prepared \cup mine
        /\ owner' = [owner EXCEPT ![m] = "stopping"]
        /\ UNCHANGED <<queue, last, view, sample, step, done, timed, changes>>
        /\ UNCHANGED <<pending, current, size, pulled, out, outcome, sup, failed, faults>>

\* Mutant of Drained: closing does not wait for the supervisors.
DrainedNow(m) == TRUE

\* Every supervisor of m has ended, its lease included.
Drained(m) == \A w \in Works \cap JobsOf(m) : sup[w] \in {"none", "finished"}

Closed(m) ==
    /\ owner[m] = "stopping" /\ Drained(m)
    /\ owner' = [owner EXCEPT ![m] = "closed"]
    /\ pending' = [pending EXCEPT ![m] = <<>>]
    /\ current' = [current EXCEPT ![m] = 0]
    /\ UNCHANGED vars
    /\ UNCHANGED <<size, pulled, out, outcome, sup, prepared, freed, failed, faults>>

-----------------------------------------------------------------------------

MapInit ==
    /\ Init
    /\ size \in Sizes
    /\ owner = [m \in Maps |-> "fill"]
    /\ pending = [m \in Maps |-> <<>>] /\ current = [m \in Maps |-> 0]
    /\ pulled = [m \in Maps |-> 0] /\ out = [m \in Maps |-> <<>>]
    /\ outcome = [m \in Maps |-> "none"]
    /\ sup = [w \in Works |-> "none"]
    /\ prepared = {} /\ freed = {} /\ failed = {} /\ faults = 0

\* Somebody's request is granted.
SomeGrant == (\E w \in Works : Granted(w)) \/ \E m \in Maps : ProbeGranted(m) \/ Consumes(m)

SupStep(w) == Asks(w) \/ AskFails(w) \/ Begins(w) \/ Returns(w) \/ Leaves(w)

OwnerStep(m) ==
    \/ Pull(m) \/ ProbeAsks(m) \/ ProbeEnds(m) \/ Handoff(m) \/ Prepare(m) \/ Take(m) \/ Idles(m)
    \/ DrainAsks(m) \/ OwnerRefused(m) \/ NextValue(m) \/ Joined(m) \/ Observes(m)
    \/ Close(m) \/ Closed(m)

MapNext ==
    \/ SomeGrant
    \/ \E w \in Works : SupStep(w)
    \/ \E m \in Maps : OwnerStep(m) \/ Break(m)
    \/ /\ \/ \E r \in Requests : Wait(r)
          \/ Monitor \/ Environment \/ Cancel(Jobs \ cancelled)
       /\ UNCHANGED mapVars

\* Threads go on when they can, functions and callers return, and the waiters
\* of the coordinator keep polling.  A supervisor has finitely many steps, an
\* owner may poll for ever.
MapFairness ==
    /\ WF_allVars(SomeGrant \/ \E w \in Works : SupStep(w))
    /\ \A m \in Maps : WF_allVars(OwnerStep(m))

MapSpec == MapInit /\ [][MapNext]_allVars /\ MapFairness

-----------------------------------------------------------------------------
(* Properties. *)

\* What the caller gets: no item twice, items in input order unless the map
\* asked for completion order, and all of them when the iteration ends
\* without an error, whatever finishes, fails or is cancelled in between.
DeliversAll ==
    \A m \in Maps :
        /\ IsInjective(out[m])
        /\ m \notin Completion => \A k \in 1 .. Len(out[m]) : out[m][k] = k
        /\ outcome[m] = "done" => Len(out[m]) = size[m]

\* "A completed value retains its resource lease until the caller requests
\* the next value or closes the map": while the caller works on a value, its
\* lease and the turn it is consumed in are held, unless the map was
\* cancelled under the caller.
ResultHeld ==
    \A m \in Maps : owner[m] = "consuming" /\ ~Stop(m) =>
        /\ Live(Current(m))
        /\ req[Turn(Current(m))].st = "admitted" /\ req[Turn(Current(m))].mode = "drain"

\* A closed map leaves nothing in the coordinator: no lease, no turn and no
\* queued request of its works or of its source.
NothingLeft ==
    \A m \in Maps : owner[m] = "closed" => \A r \in Requests : r[1][1] = m => req[r].st = "idle"

\* Every map ends once the system has recovered for good: no cycle between
\* results that wait for a turn, works that wait for their owner and sources
\* that wait for resources.
Completes == <>[]Recovered => <>(\A m \in Maps : owner[m] = "closed")
=============================================================================
