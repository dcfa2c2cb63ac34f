---------------------------- MODULE MCElasticMap ----------------------------
(* Small instances of ElasticMap for TLC. *)
EXTENDS ElasticMap

\* Every work wants one CPU slot, one I/O slot and one byte; a probe of the
\* source one CPU slot.  Every map is a route of its own.
Unit(m, i) ==
    [route |-> m, cpu |-> 1, native |-> 1, io |-> IF i = 0 THEN 0 ELSE 1, resident |-> 0,
     key |-> None, transient |-> IF i = 0 THEN 0 ELSE 1, temp |-> 0, adaptive |-> FALSE, limit |-> 1]

MapJobs   == Works \cup (Maps \X {0})
Mixed     == {<<2, 1>>, <<1, 2>>}
TwoEach   == {<<2, 2>>}
MapDemand == [j \in MapJobs |-> Unit(j[1], j[2])]
Budgets   == [x \in Routes |-> Budget]

Calm == [room |-> 9, credit |-> 0, psi |-> "low", io |-> "low", slots |-> 2, external |-> 0]
Busy == [Calm EXCEPT !.external = 2]

CalmOnly  == {Calm}
Pressures == {Calm, Busy}
=============================================================================
