--------------------------- MODULE PublicationGate ---------------------------
(***************************************************************************)
(* What neocortex/persistence/state_publication.py promises the readers of *)
(* the cross-owner gate, without its files, locks, retries and crashes.    *)
(* One fence at a time: it goes up before any owner changes, and only the  *)
(* publication of a new epoch or a resolution that changes nothing takes   *)
(* it down.                                                                *)
(***************************************************************************)
EXTENDS Naturals

CONSTANTS
    NoFence,  \* the gate is open
    NoHeads   \* an epoch that binds no owner heads

VARIABLES
    epoch,    \* epochs published so far
    heads,    \* owner heads the current epoch binds
    fence     \* the prepare that blocks readers, or NoFence

vars == <<epoch, heads, fence>>

Init == epoch = 0 /\ heads = NoHeads /\ fence = NoFence

\* A prepare is durable: readers are blocked, the epoch stands.
Raise ==
    /\ fence = NoFence /\ fence' # NoFence
    /\ UNCHANGED <<epoch, heads>>

\* A new epoch, with any heads, through a fence that was up.
Publish ==
    /\ fence # NoFence /\ fence' = NoFence
    /\ epoch' = epoch + 1

\* A verified abort or reconciliation: the previous epoch is current again.
Lift ==
    /\ fence # NoFence /\ fence' = NoFence
    /\ UNCHANGED <<epoch, heads>>

Next == Raise \/ Publish \/ Lift

Spec == Init /\ [][Next]_vars
=============================================================================
