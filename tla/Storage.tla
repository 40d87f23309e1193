------------------------------- MODULE Storage -------------------------------
(***************************************************************************)
(* The image store, the snapshot store and the VMs together: commands of   *)
(* every kind in flight at the same time, any of them killed at any point, *)
(* while guests run and write to their disks.                              *)
(***************************************************************************)
EXTENDS SnapshotStore

Command(c) == Images(c) \/ Snapshots(c) \/ Create(c) \/ CopyNext(c) \/ RemoveStep(c)

Next == (\E c \in Cli : Command(c) \/ Crash(c)) \/ Guests

Spec == Init /\ [][Next]_vars

-----------------------------------------------------------------------------
(* What the properties ask of the users.  No lock and no check enforces it. *)

\* Two builds of one image, which share its work directory and its place in the
\* store, do not overlap.
BuildsApart == \A c, e \in Building : Built(c) = Built(e) => c = e

\* While a snapshot of a VM is taken, nobody makes a new VM under its name.
Saving(c) == pc[c] \in {"snap.save", "snap.copy", "snap.shutdown", "snap.publish"}
NamesKept ==
    \A c \in Cli : Saving(c) /\ VMDir(Source(c)) \notin dirs => VMDir(Source(c)) \notin dirs'

\* After its memory has been saved, and until the VM is recorded as stopped,
\* nobody starts it.
MidSave(c) == pc[c] \in {"snap.copy", "snap.shutdown"}
Undisturbed == \A c \in Cli : MidSave(c) => ~GuestStart(Source(c))

\* Nobody publishes an image or a snapshot under a name from which a create is
\* copying what was there before.
SourcesKept ==
    \A c \in Cli : SnapPublish(c) \/ BuildInstall(c) =>
        \A e \in Cli : pc[e] \in {"image.copy", "restore.copy"} => job[e].src # job[c].name

\* The disk in the restore directory of a VM is its disk under another name, as
\* it is when the hard link succeeds.
DisksAreLinked ==
    \A v \in VM : backend = "ch" /\ Restores(v) /\ Has(VMDir(v), "disk")
                     /\ Has(VMDir(v), "rdisk")
        => InodeOf(VMDir(v), "disk") = InodeOf(VMDir(v), "rdisk")

-----------------------------------------------------------------------------
(* Properties *)

\* What list and inspect call a healthy image or snapshot, with its contents.
ImageView ==
    [i \in Image |->
       IF Healthy(ImageDir(i))
         THEN [kernel |-> Content(ImageDir(i), "kernel"),
               disk   |-> Content(ImageDir(i), "disk")]
         ELSE None]
SnapshotView ==
    [s \in Snap |->
       IF SnapDir(s) \in dirs /\ meta[SnapDir(s)] # None /\ Complete(SnapDir(s))
         THEN [kernel |-> Content(SnapDir(s), "kernel"),
               disk   |-> Content(SnapDir(s), "disk"),
               saved  |-> Content(SnapDir(s), "saved")]
         ELSE None]

WholeImages == {[kernel |-> x, disk |-> x] : x \in Stamp}
WholeSnapshots == {[kernel |-> x, disk |-> y, saved |-> y] : x, y \in Stamp}

ImageCatalog == INSTANCE ArtifactCatalog
    WITH Name <- Image, Whole <- WholeImages, Nothing <- None, catalog <- ImageView
SnapshotCatalog == INSTANCE ArtifactCatalog
    WITH Name <- Snap, Whole <- WholeSnapshots, Nothing <- None,
         catalog <- SnapshotView

\* A published image is whole, all of one build, and never changes: neither a
\* build that dies halfway nor a guest of a VM made from it can touch it.
ImagesAreWhole == ImageCatalog!Spec

\* A published snapshot pairs a saved memory with the disk that belongs to it,
\* and neither changes while it is there, whatever the VMs that were created
\* from it, and share inodes with it, write, and though its VM may be stopped or
\* deleted, or saved by a second command, while it is taken.  Undisturbed and
\* DisksAreLinked: a VM that is started while its disk is copied writes to it, and
\* one whose two disks are different files writes to the one nobody copies.
SnapshotsArePairs == SnapshotCatalog!Spec

\* The file a guest writes to has no name outside the VM's own directory.
Writable == {"disk", "rdisk"}
WritesStayHome ==
    \A v \in VM, n \in files, f \in Writable :
        <<VMDir(v), f>> \in n.names => n.names \subseteq {VMDir(v)} \X Writable

\* A create that succeeds has made every file a start needs, even if the image
\* or the snapshot was deleted, pruned or rebuilt under the create.
CreatedIsComplete ==
    [][\A v \in VM : guest[v].status = "none" /\ guest'[v].status # "none" =>
         meta[VMDir(v)] # None /\ Has(VMDir(v), "kernel") /\ Has(VMDir(v), DiskOf(v))]_vars

\* What a create has copied belongs together: the files of one build, or a saved
\* memory with its disk, even if the source was deleted or pruned meanwhile.
\* SourcesKept: nothing notices that the source is a new one halfway.
CreatedOfOneMoment ==
    [][\A v \in VM : meta[VMDir(v)] = None /\ meta'[VMDir(v)] # None =>
         IF Restores(v)
           THEN Content(VMDir(v), "saved") = Content(VMDir(v), DiskOf(v))
           ELSE Content(VMDir(v), "kernel") = Content(VMDir(v), "disk")]_vars

\* Between commands the builtin template is absent or whole, never a part of
\* one: a build that was killed does not leave one that no later build repairs.
TemplateWhole == template["docker"] # "part"

\* Every restore loads a memory that belongs to the disk it opens (snapshot.md).
RestoresAPair ==
    [][\A v \in VM : guest[v].run = "off" /\ guest'[v].run = "on" /\ Restores(v)
         => Content(VMDir(v), "saved") = Content(VMDir(v), DiskOf(v))]_vars
=============================================================================
