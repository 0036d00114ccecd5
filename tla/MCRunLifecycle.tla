--------------------------- MODULE MCRunLifecycle ---------------------------
(* Small instances of RunLifecycle for TLC.                                *)
EXTENDS RunLifecycle, TLC

\* The test images are interchangeable.
Symmetry == Permutations(Suites)

=============================================================================
