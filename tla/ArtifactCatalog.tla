--------------------------- MODULE ArtifactCatalog ---------------------------
(***************************************************************************)
(* What a store of artifacts (images or snapshots) promises its readers:   *)
(* under a name there is either nothing or one whole artifact, which never *)
(* changes while it is there.  Publishing is atomic, and a name is given   *)
(* to something new only after the old artifact has gone.                  *)
(***************************************************************************)
CONSTANTS Name,     \* the names of the store
          Whole,    \* the artifacts that are whole
          Nothing   \* what a name stands for when nothing is published; not in Whole

VARIABLE catalog

Init == catalog = [n \in Name |-> Nothing]

Publish(n) == /\ catalog[n] = Nothing
              /\ \E a \in Whole : catalog' = [catalog EXCEPT ![n] = a]

Retire(n) == /\ catalog[n] # Nothing
             /\ catalog' = [catalog EXCEPT ![n] = Nothing]

Next == \E n \in Name : Publish(n) \/ Retire(n)

Spec == Init /\ [][Next]_catalog
=============================================================================
