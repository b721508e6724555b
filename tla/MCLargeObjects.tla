--------------------------- MODULE MCLargeObjects ---------------------------
(***************************************************************************)
(* TLC instances of LargeObjects: the values its cfg files choose from.    *)
(***************************************************************************)
EXTENDS LargeObjects

CONSTANTS p1, p2, o1

TwoProcs == {p1, p2}
OneId == {o1}

AllSizes == {"small", "large"}
AllPlacements == {"perVersion", "perObject"}

FirstTwo == [p \in Procs |-> IF p = p1 THEN 2 ELSE 1]

SomeRefusals == {"validation", "rateLimited"}

=============================================================================
