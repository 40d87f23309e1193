-------------------------- MODULE KubeconfigStore --------------------------
(***************************************************************************)
(* What `spind kubeconfig merge` and `unmerge` promise of the user's       *)
(* kubeconfig files: a file changes by whole merges and whole unmerges,    *)
(* each applied to what the file holds at that very moment, and by the     *)
(* user's own edits.  Nobody's change is lost and no half of one is seen.  *)
(***************************************************************************)
EXTENDS KubeconfigDocument

CONSTANT Path   \* the kubeconfig files, in the order of KUBECONFIG

VARIABLES
    file,       \* what each file holds
    made        \* the version of the kubeconfig each VM was last given

vars == <<file, made>>

Init == file = [p \in Path |-> Empty] /\ made = [n \in Name |-> 0]

\* Without replace an existing entry is left alone.
Merge(p, n, replace, set) ==
    /\ replace \/ ~HasEntry(file[p], n)
    /\ \E v \in 0..made[n] :
          file' = [file EXCEPT ![p] = Merged(file[p], n, v, set)]
    /\ UNCHANGED made

\* An entry that another context uses is left alone.
Unmerge(p, n) ==
    /\ ~ReferencedByOther(file[p], n)
    /\ file' = [file EXCEPT ![p] = Unmerged(file[p], n)]
    /\ UNCHANGED made

UserEdit(p) ==
    /\ \E d \in UserEdits(file[p]) : file' = [file EXCEPT ![p] = d]
    /\ UNCHANGED made

\* A new kubeconfig of a VM has a higher version than its last.
Generate(n) ==
    /\ made[n] < made'[n]
    /\ made' = [made EXCEPT ![n] = made'[n]]
    /\ UNCHANGED file

Next ==
    \/ \E p \in Path, n \in Name :
          \/ \E replace, set \in BOOLEAN : Merge(p, n, replace, set)
          \/ Unmerge(p, n)
    \/ \E p \in Path : UserEdit(p)
    \/ \E n \in Name : Generate(n)

Spec == Init /\ [][Next]_vars
=============================================================================
