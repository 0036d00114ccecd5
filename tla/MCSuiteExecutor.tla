--------------------------- MODULE MCSuiteExecutor ---------------------------
(* Small instances of SuiteExecutor for TLC: every image has its directory.   *)
EXTENDS SuiteExecutor, TLC

MCDir == [i \in Images |-> i]

Symmetry == Permutations(Images)
=============================================================================
