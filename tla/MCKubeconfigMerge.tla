------------------------- MODULE MCKubeconfigMerge -------------------------
(***************************************************************************)
(* KubeconfigMerge for TLC: commands and VMs are interchangeable.          *)
(***************************************************************************)
EXTENDS KubeconfigMerge, TLC

Symmetry == Permutations(Cli) \cup Permutations(Name)
=============================================================================
