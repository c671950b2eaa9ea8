---------------------------- MODULE MCEnrollment ----------------------------
(* Small instances of Enrollment for TLC.                                  *)
EXTENDS Enrollment, TLC

\* goroutines are interchangeable
GoroutineSymmetry == Permutations(G)
=============================================================================
