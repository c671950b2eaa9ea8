--------------------------- MODULE MCTaskDispatch ---------------------------
(* Small instances of TaskDispatch for TLC: one device, its connections.   *)
EXTENDS TaskRefinement, TLC

CONSTANTS d1

\* every connection is dialled by the one device
OneDevice == [c \in Conn |-> d1]

ConnSymmetry == Permutations(Conn)
=============================================================================
