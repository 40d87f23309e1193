------------------------------ MODULE ProjectUp ------------------------------
(***************************************************************************)
(* `spind up` (internal/spind/up/run.go): a project's setup commands run   *)
(* once in a provisioning VM, the VM becomes a snapshot, and the work VM   *)
(* is created from it.  Every project directory of one name shares the     *)
(* three objects of that name; `projectRoot` in their metadata says whose  *)
(* they are.  Between any two steps the up may fail or be killed, a VM may *)
(* stop, and the user may delete an object or make one under one of these  *)
(* names, which the up checks only when it begins and before it deletes.   *)
(*                                                                         *)
(* The manager's operations are single steps here: how they go wrong       *)
(* inside is the subject of VMLifecycle and Storage, what they leave       *)
(* behind when they fail or die is kept.  Ups of projects of one name run  *)
(* one after another.                                                      *)
(***************************************************************************)
EXTENDS Naturals

CONSTANTS
    Root,        \* the project roots whose projects have the same name
    None,        \* nothing there; in metadata: no projectRoot
    Unread,      \* a directory without metadata.json
    Steps,       \* the number of setup commands
    MaxVersion   \* bound: how often a spind.yaml is edited

ASSUME ProjectConstants ==
    /\ Steps \in Nat /\ MaxVersion \in Nat \ {0}
    /\ None \notin Root /\ Unread \notin Root /\ None # Unread

Name == {"work", "provisioning", "provisioned"}
VMName == {"work", "provisioning"}
Version == 1..MaxVersion

\* What a setup command leaves in the VM it ran against.
Effect == Root \X Version \X (1..Steps)
Provisioned(r, v) == {r} \X {v} \X (1..Steps)

\* A VM or a snapshot: the root in its metadata, who made it or what it was made
\* from (an up, the user, the user meanwhile: while an up was under way), whether
\* all its files are there, whether it runs, and the setup commands it has seen.
Object == [root : Root \cup {None, Unread}, by : {"up", "user", "meanwhile"},
           whole : BOOLEAN, on : BOOLEAN, setup : SUBSET Effect]

VARIABLES
    yaml,      \* yaml[r]: the version of r's spind.yaml
    image,     \* the image store has the base image
    objects,   \* what has each of the three names
    pc,        \* the next step of the up in progress
    up,        \* its project, as it loaded it, and its options
    stray      \* setup commands of ups that were killed, still running

vars == <<yaml, image, objects, pc, up, stray>>

NoUp == [root |-> None, version |-> 0, reprovision |-> FALSE, step |-> 1]

PC == {"idle", "validate", "delete work", "delete snapshot", "image", "snapshot",
       "delete leftover", "create", "mark", "start", "setup", "save",
       "mark snapshot", "finish", "work", "mark work", "start work"}

TypeOK ==
    /\ yaml \in [Root -> Version]
    /\ image \in BOOLEAN
    /\ objects \in [Name -> Object \cup {None}]
    /\ objects["provisioned"] # None => ~objects["provisioned"].on
    /\ pc \in PC
    /\ up \in [root : Root \cup {None}, version : 0..MaxVersion,
               reprovision : BOOLEAN, step : 1..(Steps + 1)]
    /\ pc # "idle" => up.root \in Root /\ up.version \in Version
    /\ stray \subseteq Effect

Init ==
    /\ yaml = [r \in Root |-> 1]
    /\ image = FALSE
    /\ objects = [n \in Name |-> None]
    /\ pc = "idle"
    /\ up = NoUp
    /\ stray = {}

-----------------------------------------------------------------------------
There(n) == objects[n] # None
New(by, setup) == [root |-> None, by |-> by, whole |-> TRUE, on |-> FALSE, setup |-> setup]
MadeFrom(n) == New(objects[n].by, objects[n].setup)
Put(n, x) == objects' = [objects EXCEPT ![n] = x]
Goto(p) == pc' = p /\ UNCHANGED <<yaml, up, stray>>
Leave == pc' = "idle" /\ up' = NoUp /\ UNCHANGED yaml
End == Leave /\ UNCHANGED stray

\* An object may be used if it is absent or its metadata names this root.
Own(n) == There(n) => objects[n].root = up.root

UpBegin(r, reprovision) ==
    /\ pc = "idle"
    /\ pc' = "validate"
    /\ up' = [root |-> r, version |-> yaml[r], reprovision |-> reprovision, step |-> 1]
    /\ UNCHANGED <<yaml, image, objects, stray>>

\* The setup command under way.
Command == <<up.root, up.version, up.step>>

\* The up stops with an error before the next step has changed anything, or is
\* killed between two steps; a setup command may outlive it.
UpFail ==
    /\ pc # "idle" /\ Leave
    /\ \/ UNCHANGED stray
       \/ pc = "setup" /\ up.step <= Steps /\ stray' = stray \cup {Command}
    /\ UNCHANGED <<image, objects>>

\* A validation that forgets the VMs.
Validate_SnapshotOnly ==
    /\ pc = "validate" /\ Own("provisioned")
    /\ Goto(IF up.reprovision THEN "delete work" ELSE "image")
    /\ UNCHANGED <<image, objects>>

\* The three names are looked at one after the other; what appears under one that
\* has been looked at is made meanwhile.
Validate ==
    /\ pc = "validate"
    /\ \A n \in Name : Own(n)
    /\ Goto(IF up.reprovision THEN "delete work" ELSE "image")
    /\ UNCHANGED <<image, objects>>

DeleteWork ==
    /\ pc = "delete work" /\ Own("work")
    /\ Put("work", None)
    /\ Goto("delete snapshot") /\ UNCHANGED image

\* A --reprovision that keeps the snapshot.
DeleteSnapshot_Kept ==
    /\ pc = "delete snapshot" /\ Own("provisioned")
    /\ Goto("image") /\ UNCHANGED <<image, objects>>

DeleteSnapshot ==
    /\ pc = "delete snapshot" /\ Own("provisioned")
    /\ Put("provisioned", None)
    /\ Goto("image") /\ UNCHANGED image

BuildImage ==
    /\ pc = "image"
    /\ image' = TRUE
    /\ Goto("snapshot") /\ UNCHANGED objects

FindSnapshot ==
    /\ pc = "snapshot"
    /\ Goto(IF There("provisioned") THEN "work" ELSE "delete leftover")
    /\ UNCHANGED <<image, objects>>

\* provision drops the VM an earlier up has left; when that fails it goes on.
DeleteLeftover ==
    /\ pc = "delete leftover"
    /\ \/ Own("provisioning") /\ Put("provisioning", None)
       \/ There("provisioning") /\ UNCHANGED objects
    /\ Goto("create") /\ UNCHANGED image

CreateProvisioning ==
    /\ pc = "create"
    /\ image /\ ~There("provisioning")
    /\ Put("provisioning", New("up", {}))
    /\ Goto("mark") /\ UNCHANGED image

Mark(n) ==
    /\ There(n) /\ objects[n].root # Unread
    /\ Put(n, [objects[n] EXCEPT !.root = up.root])

MarkProvisioning == pc = "mark" /\ Mark("provisioning") /\ Goto("start") /\ UNCHANGED image

Start(n) ==
    /\ There(n) /\ objects[n].whole /\ objects[n].root # Unread
    /\ Put(n, [objects[n] EXCEPT !.on = TRUE])

StartProvisioning ==
    pc = "start" /\ Start("provisioning") /\ Goto("setup") /\ UNCHANGED image

\* A setup loop that goes on after a command has failed.
SetupCommand_Lenient ==
    /\ pc = "setup" /\ up.step <= Steps
    /\ There("provisioning")
    /\ \/ /\ objects["provisioning"].on
          /\ Put("provisioning", [objects["provisioning"] EXCEPT
                    !.setup = @ \cup {Command}])
       \/ UNCHANGED objects
    /\ up' = [up EXCEPT !.step = @ + 1]
    /\ UNCHANGED <<yaml, image, pc, stray>>

\* A command works against whatever VM answers under the provisioning VM's
\* name; without one it fails, and the up with it.
SetupCommand ==
    /\ pc = "setup" /\ up.step <= Steps
    /\ There("provisioning") /\ objects["provisioning"].on
    /\ Put("provisioning", [objects["provisioning"] EXCEPT
              !.setup = @ \cup {Command}])
    /\ up' = [up EXCEPT !.step = @ + 1]
    /\ UNCHANGED <<yaml, image, pc, stray>>

\* One that has outlived its up does the same, or fails.
StrayCommand ==
    /\ \E e \in stray :
          /\ stray' = stray \ {e}
          /\ \/ UNCHANGED objects
             \/ /\ There("provisioning") /\ objects["provisioning"].on
                /\ Put("provisioning", [objects["provisioning"] EXCEPT !.setup = @ \cup {e}])
    /\ UNCHANGED <<yaml, image, pc, up>>

SetupDone ==
    /\ pc = "setup" /\ up.step > Steps
    /\ Goto("save") /\ UNCHANGED <<image, objects>>

\* A snapshot whose metadata is copied from the VM's.
SaveSnapshot_SameMetadata ==
    /\ pc = "save"
    /\ There("provisioning") /\ objects["provisioning"].on /\ ~There("provisioned")
    /\ objects' = [objects EXCEPT !["provisioning"].on = FALSE,
                                  !["provisioned"] = objects["provisioning"]]
    /\ Goto("mark snapshot") /\ UNCHANGED image

\* The snapshot is published after the VM has been shut down; metadata of the
\* snapshot's own names no root yet.
SaveSnapshot ==
    /\ pc = "save"
    /\ There("provisioning") /\ objects["provisioning"].on /\ ~There("provisioned")
    /\ objects' = [objects EXCEPT !["provisioning"].on = FALSE,
                                  !["provisioned"] = MadeFrom("provisioning")]
    /\ Goto("mark snapshot") /\ UNCHANGED image

\* The publication fails, or the up is killed before it.
SaveLost ==
    /\ pc = "save"
    /\ There("provisioning") /\ objects["provisioning"].on
    /\ Put("provisioning", [objects["provisioning"] EXCEPT !.on = FALSE])
    /\ End /\ UNCHANGED image

MarkSnapshot ==
    pc = "mark snapshot" /\ Mark("provisioned") /\ Goto("finish") /\ UNCHANGED image

\* The provisioning VM is deleted by its name.
FinishProvisioning ==
    /\ pc = "finish" /\ There("provisioning")
    /\ Put("provisioning", None)
    /\ Goto("work") /\ UNCHANGED image

\* What has the name of the work VM is not looked at again.
FindWork ==
    /\ pc = "work" /\ There("work")
    /\ Goto("start work") /\ UNCHANGED <<image, objects>>

CreateWork ==
    /\ pc = "work" /\ ~There("work")
    /\ There("provisioned") /\ objects["provisioned"].whole
    /\ objects["provisioned"].root # Unread
    /\ Put("work", MadeFrom("provisioned"))
    /\ Goto("mark work") /\ UNCHANGED image

MarkWork == pc = "mark work" /\ Mark("work") /\ Goto("start work") /\ UNCHANGED image

StartWork == pc = "start work" /\ Start("work") /\ End /\ UNCHANGED image

\* A killed create leaves a directory without metadata, a killed or failed
\* delete one that has lost some of its files.
CreateDies ==
    \E n \in VMName :
        /\ pc = (IF n = "work" THEN "work" ELSE "create") /\ ~There(n)
        /\ Put(n, [New("up", {}) EXCEPT !.root = Unread, !.whole = FALSE])
        /\ End /\ UNCHANGED image
Deleting ==
    CASE pc = "delete work" -> {"work"}
      [] pc = "delete snapshot" -> {"provisioned"}
      [] pc \in {"delete leftover", "finish"} -> {"provisioning"}
      [] OTHER -> {}
DeleteDies ==
    \E n \in Deleting, r \in {up.root, Unread} :
        /\ There(n) /\ (pc # "finish" => Own(n))
        /\ Put(n, [objects[n] EXCEPT !.root = r, !.whole = FALSE, !.on = FALSE])
        /\ End /\ UNCHANGED image

UpStep ==
    \/ UpFail \/ Validate \/ DeleteWork \/ DeleteSnapshot \/ BuildImage \/ FindSnapshot
    \/ DeleteLeftover \/ CreateProvisioning \/ MarkProvisioning \/ StartProvisioning
    \/ SetupCommand \/ SetupDone \/ SaveSnapshot \/ SaveLost \/ MarkSnapshot
    \/ FinishProvisioning \/ FindWork \/ CreateWork \/ MarkWork \/ StartWork
    \/ CreateDies \/ DeleteDies

-----------------------------------------------------------------------------
(* The user, with the other commands of spind *)

UserEdit(r) ==
    /\ yaml[r] < MaxVersion
    /\ yaml' = [yaml EXCEPT ![r] = @ + 1]
    /\ UNCHANGED <<image, objects, pc, up, stray>>

\* At any time: vm create and snapshot create by hand, vm delete (or rm), snapshot
\* delete and prune, image delete, and a VM that is started, is stopped or crashes.
UserCreate(n) ==
    /\ ~There(n)
    /\ Put(n, New(IF pc = "idle" THEN "user" ELSE "meanwhile", {}))
    /\ UNCHANGED <<yaml, image, pc, up, stray>>
UserDelete(n) == There(n) /\ Put(n, None) /\ UNCHANGED <<yaml, image, pc, up, stray>>
UserDeleteImage ==
    /\ \A n \in Name : ~There(n)
    /\ image' = FALSE
    /\ UNCHANGED <<yaml, objects, pc, up, stray>>
VMStarts(n) == Start(n) /\ UNCHANGED <<yaml, image, pc, up, stray>>
VMStops(n) ==
    /\ There(n) /\ Put(n, [objects[n] EXCEPT !.on = FALSE])
    /\ UNCHANGED <<yaml, image, pc, up, stray>>

User ==
    \/ \E r \in Root : UserEdit(r)
    \/ \E n \in Name : UserCreate(n) \/ UserDelete(n)
    \/ UserDeleteImage
    \/ \E n \in VMName : VMStarts(n) \/ VMStops(n)

Next == (\E r \in Root, b \in BOOLEAN : UpBegin(r, b)) \/ UpStep \/ StrayCommand \/ User

Spec == Init /\ [][Next]_vars

-----------------------------------------------------------------------------
(* Properties *)

\* What an up made, and carries a root's name, has seen that project's setup
\* commands, all of them, of one version of its spind.yaml: neither a failed or
\* killed up nor one that starts over makes a half-provisioned snapshot or work
\* VM usable.  Beside them it may have seen a command of an up that was killed.
\* An up also takes a snapshot that the user makes under its name meanwhile.
ProvisionedWhole ==
    \A n \in {"work", "provisioned"} :
        There(n) /\ objects[n].root \in Root /\ objects[n].whole /\ objects[n].by = "up" =>
            \E v \in Version : Provisioned(objects[n].root, v) \subseteq objects[n].setup

\* An up changes, starts, marks and deletes no object of another project root, none
\* that the user had made by hand before, and none that an up left without a
\* mark but what it has just made, though the names are the same.  What the user
\* makes while it runs it starts, marks and deletes like its own.
OwnObjectsOnly ==
    [][UpStep => \A n \in Name :
         There(n) /\ objects'[n] # objects[n] =>
             /\ objects[n].by # "user"
             /\ objects[n].root \in {None, up.root}
             /\ objects[n].root = None /\ objects[n].by = "up" =>
                   pc \in {"mark", "mark snapshot", "mark work"}]_vars

\* The VM that an up --reprovision starts has been set up by the spind.yaml
\* that up read, whatever older VM and snapshot there were, unless the user has
\* put another in its place meanwhile.
ReprovisionIsFresh ==
    pc = "start work" /\ up.reprovision /\ There("work") /\ objects["work"].by = "up" =>
        Provisioned(up.root, up.version) \subseteq objects["work"].setup
=============================================================================
