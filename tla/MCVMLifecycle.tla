---------------------------- MODULE MCVMLifecycle ----------------------------
(* Instances of VMLifecycle for TLC. *)
EXTENDS VMLifecycle, TLC

\* Process ids are interchangeable, and so are commands.
Symmetry == Permutations(Pid) \cup Permutations(Cli)
=============================================================================
