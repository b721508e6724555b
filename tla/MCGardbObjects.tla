--------------------------- MODULE MCGardbObjects ---------------------------
(***************************************************************************)
(* TLC instances of GardbObjects: the values its cfg files choose from.    *)
(***************************************************************************)
EXTENDS GardbObjects, TLC

CONSTANTS p1, p2, p3, o1, o2

TwoProcs == {p1, p2}
OneId == {o1}
TwoIds == {o1, o2}

RetryOnce == {1}
NoneOrTwo == {0, 2}
SkipOrOnce == {-1, 1}

WriteOps == {"put", "update"}
ReadWriteOps == WriteOps \cup {"get", "list"}
AllOps == ReadWriteOps \cup {"new", "delete", "recover"}

TwoEach == [p \in Procs |-> 2]
ThreeEach == [p \in Procs |-> 3]
FirstTwo == [p \in Procs |-> IF p = p1 THEN 2 ELSE 1]

NoRefusals == {}
SomeRefusals == {"validation", "session", "rateLimited"}

\* Callers differ only in name.
ProcSymmetry == Permutations(Procs)

=============================================================================
