-------------------------- MODULE MCTableHashCache --------------------------
(***************************************************************************)
(* TLC instances of TableHashCache.                                        *)
(***************************************************************************)
EXTENDS TableHashCache, TLC

CONSTANTS c1, c2, p1, p2, p3, t1, t2, t3, i1, i2, i3, i4

OneClient == {c1}
TwoClients == {c1, c2}
ThreeProcs == {p1, p2, p3}
TwoProcs == {p1, p2}
AllOfOne == [p \in Procs |-> c1]
OneEach == [p \in Procs |-> IF p = p1 THEN c1 ELSE c2]
ThreeTables == {t1, t2, t3}
TwoTables == {t1, t2}
FourInodes == {i1, i2, i3, i4}

\* Goroutines of one process, tables and inodes differ only in name.
Symmetric == Permutations(Procs) \cup Permutations(Tables) \cup Permutations(Inodes)

=============================================================================
