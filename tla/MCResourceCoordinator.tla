------------------------ MODULE MCResourceCoordinator ------------------------
(* Small instances of ResourceCoordinator for TLC. *)
EXTENDS ResourceCoordinator, TLC

Ask(route, cpu, io, resident, key, transient) ==
    [route |-> route, cpu |-> cpu, native |-> cpu, io |-> io, resident |-> resident, key |-> key,
     transient |-> transient, temp |-> 0, adaptive |-> FALSE, limit |-> CpuSlots]

\* Two jobs of route 1 share a residence; the third is a native batch of
\* route 2 with temporary space.
SharedDemand ==
    "j1" :> Ask(1, 1, 0, 1, "k", 0) @@ "j2" :> Ask(1, 0, 0, 2, "k", 0)
    @@ "j3" :> [Ask(2, 1, 1, 0, None, 1) EXCEPT !.temp = 1, !.adaptive = TRUE]
SharedBudgets == <<2, 2>>

\* One unit of everything, two routes, two jobs of the same route.
UnitDemand ==
    "j1" :> Ask(1, 1, 1, 0, None, 1) @@ "j2" :> Ask(1, 1, 1, 0, None, 1)
    @@ "j3" :> Ask(2, 1, 1, 0, None, 1)
UnitBudgets == <<2, 2>>

Calm   == [room |-> 9, credit |-> 0, psi |-> "low", io |-> "low", slots |-> 2, external |-> 0]
Short  == [Calm EXCEPT !.room = 1, !.credit = 1, !.psi = "mid", !.io = "mid", !.external = None]
Thrash == [Calm EXCEPT !.psi = "high", !.io = "high", !.external = 2]

LedgerSamples   == {Calm, Short}
ProgressSamples == {Calm, Thrash}

\* Nobody cancels: a cancelled waiter leaves, and Served asks for none anyway.
ProgressSpec == Init /\ [][Next /\ UNCHANGED cancelled]_vars /\ Fairness
=============================================================================
