------------------------ MODULE KubeconfigDocument ------------------------
(***************************************************************************)
(* A kubeconfig file as far as `spind kubeconfig` looks at it              *)
(* (internal/spind/kubeconfig/mergefile.go): its clusters, users and       *)
(* contexts, and the current context.  Everything else of an entry is      *)
(* carried along and stands in its version.                                *)
(***************************************************************************)
EXTENDS Naturals

CONSTANTS
    Name,       \* entries spind manages: spind-<vm>, one per VM
    Own,        \* names of the user's own contexts
    NoName      \* no current context

ASSUME DocumentConstants == Name \cap Own = {} /\ NoName \notin Name \cup Own

Kinds == {"cluster", "user", "context"}

\* A context uses a cluster and a user by name; the others use nothing.
Part == [kind : Kinds, name : Name \cup Own, ver : Nat, uses : SUBSET Name]

Document == [parts : SUBSET Part, current : Name \cup Own \cup {NoName}]

\* A missing file reads as this one.
Empty == [parts |-> {}, current |-> NoName]

\* Mutant: the entries keep the names the cluster gave them.
Source_NotRenamed(n, v) ==
    {[kind |-> k, name |-> NoName, ver |-> v,
      uses |-> IF k = "context" THEN {n} ELSE {}] : k \in Kinds}

\* The VM's own kubeconfig: exactly one cluster, user and context of its name.
Source(n, v) ==
    {[kind |-> k, name |-> n, ver |-> v,
      uses |-> IF k = "context" THEN {n} ELSE {}] : k \in Kinds}

HasEntry(d, n) == \E x \in d.parts : x.name = n

RemoveEntry(d, n) == [d EXCEPT !.parts = {x \in @ : x.name # n}]

AppendEntry(d, n, v) == [d EXCEPT !.parts = @ \cup Source(n, v)]

\* A context of another name needs the cluster or the user of n.
ReferencedByOther(d, n) ==
    \E x \in d.parts : x.kind = "context" /\ x.name # n /\ n \in x.uses

\* The document a merge writes; the current context is changed on request only.
Merged(d, n, v, set) ==
    LET e == AppendEntry(RemoveEntry(d, n), n, v)
    IN  IF set THEN [e EXCEPT !.current = n] ELSE e

\* The document an unmerge writes.
Unmerged(d, n) ==
    [RemoveEntry(d, n) EXCEPT !.current = IF @ = n THEN NoName ELSE @]

\* What the user may do to a file with kubectl: use another context, or define
\* one of their own over a cluster and user of spind's.
UserEdits(d) ==
    {[d EXCEPT !.current = x.name] : x \in {y \in d.parts : y.kind = "context"}}
    \cup {[d EXCEPT !.parts = @ \cup {x}] :
            x \in [kind : {"context"}, name : Own, ver : {0},
                   uses : {{n} : n \in Name}]}
=============================================================================
