------------------------- MODULE MCStatePublication -------------------------
(* Small instances of StatePublication for TLC. *)
EXTENDS StatePublication, TLC

sem  == <<"call", "all-run">>
next == <<"call", "next-all-run">>
sync == <<"call", "cache-sync">>

MCKeys == {sem, sync}
MCOpOf == sem :> AllSemantic @@ sync :> CacheSync

AllKeysMC == {sem, next, sync}
AllOpOf   == MCOpOf @@ next :> AllSemantic

\* The integrated run publishes Semantic, a cache synchronisation more.
WideOwnersOf   == [k \in AllKeysMC |-> IF k = sync THEN {"semantic", "pdf"} ELSE {"semantic"}]
NarrowOwnersOf == [k \in MCKeys |-> {"semantic"}]

Symmetry == Permutations(Procs)
=============================================================================
