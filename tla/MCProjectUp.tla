----------------------------- MODULE MCProjectUp -----------------------------
(* A small instance of ProjectUp. *)
EXTENDS ProjectUp, TLC

Symmetry == Permutations(Root)

\* Bound: one command outlives its up at a time, the second one of the first version
\* of a spind.yaml.
OneStray == \A a, b \in stray : a = b /\ a[2] = 1 /\ a[3] = 2
=============================================================================
