--------------------------- MODULE MCRunLifecycle ---------------------------
(* Instances of RunLifecycle for TLC.                                      *)
EXTENDS RunLifecycle, TLC

\* Processes differ in nothing but their names.
ProcSymmetry == Permutations(Procs)

=============================================================================
