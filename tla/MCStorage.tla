------------------------------ MODULE MCStorage ------------------------------
(* A small instance of Storage. *)
EXTENDS Storage, TLC

Symmetry == Permutations(Cli)

\* What the properties ask of the users.
Asked == NamesKept /\ Undisturbed /\ SourcesKept
=============================================================================
