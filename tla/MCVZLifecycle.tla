---------------------------- MODULE MCVZLifecycle ----------------------------
(* Instances of VZLifecycle for TLC. *)
EXTENDS VZLifecycle, TLC

Symmetry == Permutations(Cli) \cup Permutations(Pid) \cup Permutations(Dir)

\* The behaviours of Spec /\ []StartsAlone.
StaysAlone == StartsAlone'

\* All that is ever read of a state: the directory that a killed snapshot leaves
\* behind, once no runner saves into it, is seen by nobody before a new one with
\* another name takes its place in the model.
Forgotten(d) == job[d].run = NoPid /\ \A c \in Cli : dirOf[c] # d
Seen ==
    <<kind, stage, machine, told, events, socks, state, pc, me, dirOf,
      [d \in Dir |-> IF Forgotten(d) THEN NoJob ELSE job[d]],
      [d \in Dir |-> IF Forgotten(d) THEN "gone" ELSE saved[d]]>>
=============================================================================
